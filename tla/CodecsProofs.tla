----------------------------- MODULE CodecsProofs -----------------------------
(***************************************************************************)
(* Proofs about the codecs, for strings of any length over all bytes:       *)
(* base64_encode is base64, and decode takes what the encoders make of a    *)
(* string back to it; UrlDecode undoes UrlEncode; the link of a file leads  *)
(* to it; PreParseGetParam gives each key its last value.                   *)
(*                                                                         *)
(* A loop of the code is a function defined by recursion over a string.     *)
(* The induction over the string is done with sets of numbers               *)
(* (SetInduction), and that the function exists is proved once for the      *)
(* loops that put pieces one behind the other (Joins), for those that go on *)
(* some bytes further on (Decodes) and for the one that assigns to a map    *)
(* (Sets).                                                                  *)
(***************************************************************************)
EXTENDS Codecs, SequenceTheorems, WellFoundedInduction, TLAPS

-----------------------------------------------------------------------------
(* Induction: a set of numbers with 0 and every successor is Nat, and so    *)
(* the recursive functions of the codecs have a solution.                   *)

LEMMA Least ==
    ASSUME NEW S \in SUBSET Nat, S # {}
    PROVE  \E m \in S : \A k \in S : m <= k
<1> DEFINE R == OpToRel(<, Nat)
<1>1. IsWellFoundedOn(R, Nat)
  BY NatLessThanWellFounded
<1>2. PICK m \in S : \A k \in S : ~(<<k, m>> \in R)
  <2> HIDE DEF R
  <2>1. QED BY <1>1, WFMin
<1>3. ASSUME NEW k \in S PROVE m <= k
  <2>1. k \in Nat /\ m \in Nat
    BY <1>2
  <2>2. k < m => <<k, m>> \in R
    BY <2>1 DEF OpToRel
  <2> HIDE DEF R
  <2>3. QED BY <1>2, <2>1, <2>2
<1>4. QED BY <1>3

LEMMA SetInduction ==
    ASSUME NEW S \in SUBSET Nat, 0 \in S, \A n \in S : n + 1 \in S
    PROVE  S = Nat
<1> SUFFICES ASSUME Nat \ S # {} PROVE FALSE
  OBVIOUS
<1>1. PICK m \in Nat \ S : \A k \in Nat \ S : m <= k
  BY Least
<1>2. m # 0 /\ m - 1 \in Nat /\ m - 1 \in S
  BY <1>1
<1>3. QED BY <1>1, <1>2

LEMMA MinIs ==
    ASSUME NEW S \in SUBSET Nat, S # {}
    PROVE  Min(S) \in S /\ \A k \in S : Min(S) <= k
BY Least DEF Min

LEMMA MaxIs ==
    ASSUME NEW S \in SUBSET Nat, S # {}, NEW n \in Nat, \A k \in S : k <= n
    PROVE  Max(S) \in S /\ \A k \in S : k <= Max(S)
<1> DEFINE T == {d \in 0 .. n : n - d \in S}
<1>1. T \in SUBSET Nat /\ T # {}
  <2>1. PICK k : k \in S
    OBVIOUS
  <2>2. n - k \in T
    BY <2>1
  <2>3. QED BY <2>2
<1>2. PICK d \in T : \A k \in T : d <= k
  BY <1>1, Least
<1>3. ASSUME NEW k \in S PROVE k <= n - d
  <2>1. n - k \in T /\ k \in Nat
    OBVIOUS
  <2>2. d \in Nat
    BY <1>2
  <2> HIDE DEF T
  <2>3. QED BY <1>2, <2>1, <2>2
<1>4. QED BY <1>2, <1>3 DEF Max

(* \o, under a name of its own: what the proofs below need of it is in      *)
(* Concatenated.                                                            *)
Cat(s, t) == s \o t

(* Where the parts of a string are: a at its head, and b behind its first m *)
(* bytes.                                                                   *)
Heads(a, s) == Len(a) <= Len(s) /\ \A p \in 1 .. Len(a) : s[p] = a[p]

Holds(s, m, b) == m + Len(b) <= Len(s) /\ \A r \in 1 .. Len(b) : s[m + r] = b[r]

LEMMA Concatenated ==
    ASSUME NEW X, NEW a \in Seq(X), NEW b \in Seq(X)
    PROVE  /\ Cat(a, b) \in Seq(X)
           /\ Len(Cat(a, b)) = Len(a) + Len(b)
           /\ Holds(Cat(a, b), Len(a), b)
BY DEF Cat, Holds

LEMMA HeadsCat ==
    ASSUME NEW X, NEW h \in Seq(X), NEW a \in Seq(X), NEW b \in Seq(X), Heads(h, a)
    PROVE  Heads(h, Cat(a, b))
BY DEF Cat, Heads

LEMMA HeadsItself ==
    ASSUME NEW X, NEW a \in Seq(X)
    PROVE  Heads(a, a)
BY DEF Heads

LEMMA HoldsOn ==
    ASSUME NEW X, NEW a \in Seq(X), NEW b \in Seq(X), NEW s \in Seq(X), NEW m \in Nat,
           Holds(a, m, b), Heads(a, s)
    PROVE  Holds(s, m, b)
BY DEF Heads, Holds

(* f[i] is the first i strings of g, one behind the other. *)
Joins(f, g, n) == f = [i \in 0 .. n |-> IF i = 0 THEN <<>> ELSE Cat(f[i - 1], g[i])]

LEMMA JoinsExists ==
    ASSUME NEW g, NEW n \in Nat
    PROVE  \E f : Joins(f, g, n)
<1> DEFINE S == {m \in Nat : \E f : Joins(f, g, m)}
<1>1. 0 \in S
  <2>1. Joins([i \in 0 .. 0 |-> <<>>], g, 0)
    BY DEF Joins
  <2>2. QED BY <2>1
<1>2. ASSUME NEW m \in S PROVE m + 1 \in S
  <2>1. PICK f : Joins(f, g, m)
    OBVIOUS
  <2> DEFINE h == [i \in 0 .. m + 1 |-> IF i = m + 1 THEN Cat(f[m], g[m + 1]) ELSE f[i]]
  <2>2. ASSUME NEW i \in 0 .. m + 1
        PROVE  h[i] = IF i = 0 THEN <<>> ELSE Cat(h[i - 1], g[i])
    <3>1. CASE i = m + 1
      <4>1. i - 1 = m /\ m # m + 1 /\ i # 0 /\ m \in 0 .. m + 1
        BY <3>1
      <4>2. h[i - 1] = f[m]
        BY <4>1
      <4>3. QED BY <3>1, <4>1, <4>2
    <3>2. CASE i \in 1 .. m
      BY <2>1, <3>2 DEF Joins
    <3>3. CASE i = 0
      BY <2>1, <3>3 DEF Joins
    <3>4. QED BY <3>1, <3>2, <3>3
  <2>3. Joins(h, g, m + 1)
    BY <2>2 DEF Joins
  <2>4. QED BY <2>3, m + 1 \in Nat
<1>3. n \in S
  <2> HIDE DEF S
  <2>1. S \in SUBSET Nat
    BY DEF S
  <2>2. QED BY <1>1, <1>2, <2>1, SetInduction
<1>4. QED BY <1>3

LEMMA JoinsStep ==
    ASSUME NEW f, NEW g, NEW n \in Nat, Joins(f, g, n)
    PROVE  f[0] = <<>> /\ \A i \in 1 .. n : f[i] = Cat(f[i - 1], g[i])
<1>1. 0 \in 0 .. n /\ \A i \in 1 .. n : i \in 0 .. n /\ i # 0
  OBVIOUS
<1>2. \A i \in 0 .. n : f[i] = IF i = 0 THEN <<>> ELSE Cat(f[i - 1], g[i])
  BY DEF Joins
<1>3. QED BY <1>1, <1>2

Strings(g, n, X) == \A i \in 1 .. n : g[i] \in Seq(X)

(* Strings of bytes, joined, are a string of bytes, in which each of them   *)
(* can be found.                                                            *)
LEMMA JoinsType ==
    ASSUME NEW X, NEW f, NEW g, NEW n \in Nat, Joins(f, g, n), Strings(g, n, X)
    PROVE  \A i \in 0 .. n : f[i] \in Seq(X)
<1> DEFINE S == {i \in Nat : i <= n => f[i] \in Seq(X)}
<1>1. 0 \in S
  <2>1. f[0] = <<>>
    BY JoinsStep, Zenon
  <2>2. f[0] \in Seq(X)
    <3>1. <<>> \in Seq(X)
      OBVIOUS
    <3>2. QED BY <2>1, <3>1, Zenon
  <2>3. QED BY <2>2
<1>2. ASSUME NEW i \in S PROVE i + 1 \in S
  <2> SUFFICES ASSUME i + 1 <= n PROVE f[i + 1] \in Seq(X)
    OBVIOUS
  <2>1. i + 1 \in 1 .. n /\ i + 1 - 1 = i
    OBVIOUS
  <2>2. f[i + 1] = Cat(f[i], g[i + 1])
    BY <2>1, JoinsStep
  <2>3. f[i] \in Seq(X) /\ g[i + 1] \in Seq(X)
    BY <2>1 DEF Strings
  <2>4. QED BY <2>2, <2>3, Concatenated, Zenon
<1>3. S = Nat
  <2> HIDE DEF S
  <2>1. S \in SUBSET Nat
    BY DEF S
  <2>2. QED BY <1>1, <1>2, <2>1, SetInduction
<1>4. QED BY <1>3

LEMMA JoinsKeep ==
    ASSUME NEW X, NEW f, NEW g, NEW n \in Nat, Joins(f, g, n), Strings(g, n, X),
           NEW i \in 0 .. n
    PROVE  Heads(f[i], f[n])
<1>1. \A k \in 0 .. n : f[k] \in Seq(X)
  BY JoinsType
<1> DEFINE S == {d \in Nat : i + d <= n => Heads(f[i], f[i + d])}
<1>2. 0 \in S
  <2>1. f[i] \in Seq(X) /\ i + 0 = i
    BY <1>1
  <2>2. Heads(f[i], f[i + 0])
    BY <2>1, HeadsItself, Zenon
  <2>3. QED BY <2>2
<1>3. ASSUME NEW d \in S PROVE d + 1 \in S
  <2> SUFFICES ASSUME i + (d + 1) <= n PROVE Heads(f[i], f[i + (d + 1)])
    BY d + 1 \in Nat
  <2>1. PICK k \in 1 .. n : k = i + (d + 1) /\ k - 1 = i + d /\ i + d <= n
    OBVIOUS
  <2>2. f[k] = Cat(f[k - 1], g[k])
    BY JoinsStep
  <2>3. f[k - 1] \in Seq(X) /\ g[k] \in Seq(X) /\ f[i] \in Seq(X)
    BY <1>1, <2>1 DEF Strings
  <2>4. Heads(f[i], f[k - 1])
    BY <2>1
  <2>5. Heads(f[i], f[k])
    BY <2>2, <2>3, <2>4, HeadsCat, Zenon
  <2>6. QED BY <2>1, <2>5, Zenon
<1>4. S = Nat
  <2> HIDE DEF S
  <2>1. S \in SUBSET Nat
    BY DEF S
  <2>2. QED BY <1>2, <1>3, <2>1, SetInduction
<1>5. n - i \in S /\ i + (n - i) = n /\ i + (n - i) <= n
  <2> HIDE DEF S
  <2>1. QED BY <1>4
<1>6. QED BY <1>5

IsPiece(f, g, n, i) == /\ Len(f[i]) = Len(f[i - 1]) + Len(g[i])
                       /\ Holds(f[n], Len(f[i - 1]), g[i])

LEMMA JoinsPlaces ==
    ASSUME NEW X, NEW f, NEW g, NEW n \in Nat, Joins(f, g, n), Strings(g, n, X),
           NEW i \in 1 .. n
    PROVE  /\ f[i - 1] \in Seq(X) /\ g[i] \in Seq(X) /\ f[n] \in Seq(X)
           /\ IsPiece(f, g, n, i)
<1>1. f[i] = Cat(f[i - 1], g[i])
  BY JoinsStep
<1>2. i - 1 \in 0 .. n /\ i \in 0 .. n /\ n \in 0 .. n
  OBVIOUS
<1>3. f[i - 1] \in Seq(X) /\ f[i] \in Seq(X) /\ g[i] \in Seq(X) /\ f[n] \in Seq(X)
  BY <1>2, JoinsType DEF Strings
<1>4. /\ Len(f[i]) = Len(f[i - 1]) + Len(g[i])
      /\ Holds(f[i], Len(f[i - 1]), g[i])
  BY <1>1, <1>3, Concatenated, Zenon
<1>5. Heads(f[i], f[n])
  BY <1>2, JoinsKeep
<1>6. Len(f[i - 1]) \in Nat
  BY <1>3
<1>7. QED BY <1>3, <1>4, <1>5, <1>6, HoldsOn, Zenon DEF IsPiece

(* f[i] is what a decoder makes of the string from i on, i >= m: it puts    *)
(* out h[i] and goes on at k[i], or stops at a position of bad.             *)
Decodes(f, m, n, h, k, bad) ==
    f = [i \in m .. n + 1 |-> IF i > n THEN <<>>
                              ELSE IF i \in bad THEN Aborts
                              ELSE Cat(h[i], f[k[i]])]

LEMMA DecodesExtends ==
    ASSUME NEW h, NEW k, NEW bad, NEW f, NEW n \in Nat, NEW m \in 1 .. n,
           \A i \in 1 .. n : i \notin bad => k[i] \in i + 1 .. n + 1,
           Decodes(f, m + 1, n, h, k, bad)
    PROVE  \E e : Decodes(e, m, n, h, k, bad)
<1> DEFINE Step(e, i) == IF i > n THEN <<>>
                         ELSE IF i \in bad THEN Aborts
                         ELSE Cat(h[i], e[k[i]])
           e == [i \in m .. n + 1 |-> IF i = m THEN Step(f, m) ELSE f[i]]
<1>1. ASSUME NEW i \in m .. n + 1 PROVE e[i] = Step(e, i)
  <2>1. i <= n /\ i \notin bad => k[i] \in m + 1 .. n + 1 /\ k[i] \in m .. n + 1 /\ k[i] # m
    OBVIOUS
  <2>2. i <= n /\ i \notin bad => e[k[i]] = f[k[i]]
    BY <2>1
  <2>3. Step(e, i) = Step(f, i)
    BY <2>2
  <2>4. CASE i = m
    BY <2>3, <2>4
  <2>5. CASE i \in m + 1 .. n + 1
    <3>1. f[i] = Step(f, i)
      BY <2>5 DEF Decodes
    <3>2. e[i] = f[i]
      BY <2>5
    <3>3. QED BY <2>3, <3>1, <3>2
  <2>6. QED BY <2>4, <2>5
<1>2. e = [i \in m .. n + 1 |-> Step(e, i)]
  BY <1>1
<1>3. QED BY <1>2, Zenon DEF Decodes

LEMMA DecodesExists ==
    ASSUME NEW h, NEW k, NEW bad, NEW n \in Nat,
           \A i \in 1 .. n : i \notin bad => k[i] \in i + 1 .. n + 1
    PROVE  \E f : Decodes(f, 1, n, h, k, bad)
<1> DEFINE S == {d \in Nat : d <= n => \E f : Decodes(f, n + 1 - d, n, h, k, bad)}
<1>1. 0 \in S
  <2>1. Decodes([i \in n + 1 .. n + 1 |-> <<>>], n + 1, n, h, k, bad)
    <3>1. \A i \in n + 1 .. n + 1 : i > n
      OBVIOUS
    <3>2. QED BY <3>1 DEF Decodes
  <2>2. n + 1 - 0 = n + 1
    OBVIOUS
  <2>3. QED BY <2>1, <2>2
<1>2. ASSUME NEW d \in S PROVE d + 1 \in S
  <2> SUFFICES ASSUME d + 1 <= n
               PROVE  \E f : Decodes(f, n + 1 - (d + 1), n, h, k, bad)
    BY d + 1 \in Nat
  <2>1. PICK m \in 1 .. n : m = n + 1 - (d + 1) /\ m + 1 = n + 1 - d /\ d <= n
    OBVIOUS
  <2>2. PICK f : Decodes(f, m + 1, n, h, k, bad)
    BY <2>1
  <2> HIDE DEF S
  <2>3. \E e : Decodes(e, m, n, h, k, bad)
    BY <2>2, DecodesExtends
  <2>4. QED BY <2>1, <2>3
<1>3. S = Nat
  <2> HIDE DEF S
  <2>1. S \in SUBSET Nat
    BY DEF S
  <2>2. QED BY <1>1, <1>2, <2>1, SetInduction
<1>4. n \in S /\ n + 1 - n = 1
  <2> HIDE DEF S
  <2>1. QED BY <1>3
<1>5. QED BY <1>4

-----------------------------------------------------------------------------
(* Bits and bytes *)

LEMMA ByteAtType ==
    ASSUME NEW s \in Seq(Byte), NEW i \in Nat
    PROVE  ByteAt(s, i) \in Byte
<1>1. 0 \in Byte
  BY DEF Byte
<1>2. CASE i < Len(s)
  <2>1. i + 1 \in 1 .. Len(s)
    BY <1>2
  <2>2. s[i + 1] \in Byte
    BY <2>1
  <2>3. QED BY <1>2, <2>2 DEF ByteAt
<1>3. CASE ~(i < Len(s))
  BY <1>1, <1>3 DEF ByteAt
<1>4. QED BY <1>2, <1>3

(* A bit of a string is a bit of the byte that it is in. *)
LEMMA BitAt ==
    ASSUME NEW s \in Seq(Byte), NEW i \in Nat
    PROVE  /\ Bit(s, 8 * i)     = (ByteAt(s, i) \div 128) % 2
           /\ Bit(s, 8 * i + 1) = (ByteAt(s, i) \div 64) % 2
           /\ Bit(s, 8 * i + 2) = (ByteAt(s, i) \div 32) % 2
           /\ Bit(s, 8 * i + 3) = (ByteAt(s, i) \div 16) % 2
           /\ Bit(s, 8 * i + 4) = (ByteAt(s, i) \div 8) % 2
           /\ Bit(s, 8 * i + 5) = (ByteAt(s, i) \div 4) % 2
           /\ Bit(s, 8 * i + 6) = (ByteAt(s, i) \div 2) % 2
           /\ Bit(s, 8 * i + 7) = ByteAt(s, i) % 2
<1>1. /\ 2 ^ 7 = 128 /\ 2 ^ 6 = 64 /\ 2 ^ 5 = 32 /\ 2 ^ 4 = 16
      /\ 2 ^ 3 = 8 /\ 2 ^ 2 = 4 /\ 2 ^ 1 = 2 /\ 2 ^ 0 = 1
  OBVIOUS
<1>2. ASSUME NEW k \in 0 .. 7
      PROVE  Bit(s, 8 * i + k) = IF i >= Len(s) THEN 0 ELSE (s[i + 1] \div 2 ^ (7 - k)) % 2
  <2>1. (8 * i + k) \div 8 = i /\ (8 * i + k) % 8 = k
    OBVIOUS
  <2>2. QED BY <2>1 DEF Bit
<1>3. \A b \in Byte : b \div 1 = b
  BY DEF Byte
<1>4. /\ 7 - 0 = 7 /\ 7 - 1 = 6 /\ 7 - 2 = 5 /\ 7 - 3 = 4
      /\ 7 - 4 = 3 /\ 7 - 5 = 2 /\ 7 - 6 = 1 /\ 7 - 7 = 0
      /\ 8 * i + 0 = 8 * i
  OBVIOUS
<1>5. CASE i >= Len(s)
  <2>1. /\ ByteAt(s, i) = 0
        /\ \A k \in 0 .. 7 : Bit(s, 8 * i + k) = 0
    BY <1>2, <1>5 DEF ByteAt
  <2>2. QED BY <1>4, <2>1
<1>6. CASE i < Len(s)
  <2>1. /\ ByteAt(s, i) = s[i + 1] /\ ByteAt(s, i) \in Byte
        /\ \A k \in 0 .. 7 : Bit(s, 8 * i + k) = (s[i + 1] \div 2 ^ (7 - k)) % 2
    BY <1>2, <1>6, ByteAtType DEF ByteAt
  <2>2. QED BY <1>1, <1>3, <1>4, <2>1
<1>7. QED BY <1>5, <1>6

(* A number of the bits of three bytes. *)
LEMMA Sextets ==
    ASSUME NEW b0 \in Byte, NEW b1 \in Byte, NEW b2 \in Byte
    PROVE  /\ ((b0 \div 128) % 2) * 32 + ((b0 \div 64) % 2) * 16 + ((b0 \div 32) % 2) * 8
              + ((b0 \div 16) % 2) * 4 + ((b0 \div 8) % 2) * 2 + ((b0 \div 4) % 2)
              = b0 \div 4
           /\ ((b0 \div 2) % 2) * 32 + (b0 % 2) * 16 + ((b1 \div 128) % 2) * 8
              + ((b1 \div 64) % 2) * 4 + ((b1 \div 32) % 2) * 2 + ((b1 \div 16) % 2)
              = (b0 % 4) * 16 + b1 \div 16
           /\ ((b1 \div 8) % 2) * 32 + ((b1 \div 4) % 2) * 16 + ((b1 \div 2) % 2) * 8
              + (b1 % 2) * 4 + ((b2 \div 128) % 2) * 2 + ((b2 \div 64) % 2)
              = (b1 % 16) * 4 + b2 \div 64
           /\ ((b2 \div 32) % 2) * 32 + ((b2 \div 16) % 2) * 16 + ((b2 \div 8) % 2) * 8
              + ((b2 \div 4) % 2) * 4 + ((b2 \div 2) % 2) * 2 + (b2 % 2)
              = b2 % 64
<1>1. ASSUME NEW b \in 0 .. 255 PROVE
     ((b \div 128) % 2) * 32 + ((b \div 64) % 2) * 16 + ((b \div 32) % 2) * 8
     + ((b \div 16) % 2) * 4 + ((b \div 8) % 2) * 2 + ((b \div 4) % 2)
     = b \div 4
  OBVIOUS
<1>2. ASSUME NEW b \in 0 .. 255 PROVE
     ((b \div 128) % 2) * 8 + ((b \div 64) % 2) * 4 + ((b \div 32) % 2) * 2 + ((b \div 16) % 2)
     = b \div 16
  OBVIOUS
<1>3. ASSUME NEW b \in 0 .. 255 PROVE
     ((b \div 128) % 2) * 2 + ((b \div 64) % 2) = b \div 64
  OBVIOUS
<1>4. ASSUME NEW b \in 0 .. 255 PROVE
     ((b \div 2) % 2) * 2 + (b % 2) = b % 4
  OBVIOUS
<1>5. ASSUME NEW b \in 0 .. 255 PROVE
     ((b \div 8) % 2) * 8 + ((b \div 4) % 2) * 4 + ((b \div 2) % 2) * 2 + (b % 2) = b % 16
  OBVIOUS
<1>6. ASSUME NEW b \in 0 .. 255 PROVE
     ((b \div 32) % 2) * 32 + ((b \div 16) % 2) * 16 + ((b \div 8) % 2) * 8
     + ((b \div 4) % 2) * 4 + ((b \div 2) % 2) * 2 + (b % 2) = b % 64
  OBVIOUS
<1>7. b0 \in 0 .. 255 /\ b1 \in 0 .. 255 /\ b2 \in 0 .. 255
  BY DEF Byte
<1>8. /\ ((b0 \div 2) % 2) * 2 + (b0 % 2) = b0 % 4
      /\ ((b1 \div 128) % 2) * 8 + ((b1 \div 64) % 2) * 4 + ((b1 \div 32) % 2) * 2
         + ((b1 \div 16) % 2) = b1 \div 16
      /\ ((b1 \div 8) % 2) * 8 + ((b1 \div 4) % 2) * 4 + ((b1 \div 2) % 2) * 2 + (b1 % 2)
         = b1 % 16
      /\ ((b2 \div 128) % 2) * 2 + ((b2 \div 64) % 2) = b2 \div 64
  BY <1>2, <1>3, <1>4, <1>5, <1>7
<1>9. ((b0 \div 2) % 2) * 32 + (b0 % 2) * 16 + ((b1 \div 128) % 2) * 8
      + ((b1 \div 64) % 2) * 4 + ((b1 \div 32) % 2) * 2 + ((b1 \div 16) % 2)
      = (b0 % 4) * 16 + b1 \div 16
  BY <1>7, <1>8
<1>10. ((b1 \div 8) % 2) * 32 + ((b1 \div 4) % 2) * 16 + ((b1 \div 2) % 2) * 8
       + (b1 % 2) * 4 + ((b2 \div 128) % 2) * 2 + ((b2 \div 64) % 2)
       = (b1 % 16) * 4 + b2 \div 64
  BY <1>7, <1>8
<1>11. QED BY <1>1, <1>6, <1>7, <1>9, <1>10

(* The six bits from bit 6 * j on, as a number. *)
Sextet(s, j) == Bit(s, 6 * j) * 32 + Bit(s, 6 * j + 1) * 16 + Bit(s, 6 * j + 2) * 8
                + Bit(s, 6 * j + 3) * 4 + Bit(s, 6 * j + 4) * 2 + Bit(s, 6 * j + 5)

LEMMA SextetIs ==
    ASSUME NEW s \in Seq(Byte), NEW g \in Nat
    PROVE  LET b0 == ByteAt(s, 3 * g)
               b1 == ByteAt(s, 3 * g + 1)
               b2 == ByteAt(s, 3 * g + 2)
           IN  /\ Sextet(s, 4 * g)     = b0 \div 4
               /\ Sextet(s, 4 * g + 1) = (b0 % 4) * 16 + b1 \div 16
               /\ Sextet(s, 4 * g + 2) = (b1 % 16) * 4 + b2 \div 64
               /\ Sextet(s, 4 * g + 3) = b2 % 64
<1> DEFINE b0 == ByteAt(s, 3 * g)
           b1 == ByteAt(s, 3 * g + 1)
           b2 == ByteAt(s, 3 * g + 2)
<1>1. b0 \in Byte /\ b1 \in Byte /\ b2 \in Byte
  BY ByteAtType
<1>2. PICK n \in Nat : n = 3 * g
  OBVIOUS
<1>3. n + 1 \in Nat /\ n + 2 \in Nat /\ b0 = ByteAt(s, n)
      /\ b1 = ByteAt(s, n + 1) /\ b2 = ByteAt(s, n + 2)
  BY <1>2
<1> HIDE DEF b0, b1, b2
<1>4. /\ Bit(s, 8 * n)     = (b0 \div 128) % 2 /\ Bit(s, 8 * n + 1) = (b0 \div 64) % 2
      /\ Bit(s, 8 * n + 2) = (b0 \div 32) % 2  /\ Bit(s, 8 * n + 3) = (b0 \div 16) % 2
      /\ Bit(s, 8 * n + 4) = (b0 \div 8) % 2   /\ Bit(s, 8 * n + 5) = (b0 \div 4) % 2
      /\ Bit(s, 8 * n + 6) = (b0 \div 2) % 2   /\ Bit(s, 8 * n + 7) = b0 % 2
  BY <1>3, BitAt
<1>5. /\ Bit(s, 8 * (n + 1))     = (b1 \div 128) % 2
      /\ Bit(s, 8 * (n + 1) + 1) = (b1 \div 64) % 2
      /\ Bit(s, 8 * (n + 1) + 2) = (b1 \div 32) % 2
      /\ Bit(s, 8 * (n + 1) + 3) = (b1 \div 16) % 2
      /\ Bit(s, 8 * (n + 1) + 4) = (b1 \div 8) % 2
      /\ Bit(s, 8 * (n + 1) + 5) = (b1 \div 4) % 2
      /\ Bit(s, 8 * (n + 1) + 6) = (b1 \div 2) % 2
      /\ Bit(s, 8 * (n + 1) + 7) = b1 % 2
  BY <1>3, BitAt
<1>6. /\ Bit(s, 8 * (n + 2))     = (b2 \div 128) % 2
      /\ Bit(s, 8 * (n + 2) + 1) = (b2 \div 64) % 2
      /\ Bit(s, 8 * (n + 2) + 2) = (b2 \div 32) % 2
      /\ Bit(s, 8 * (n + 2) + 3) = (b2 \div 16) % 2
      /\ Bit(s, 8 * (n + 2) + 4) = (b2 \div 8) % 2
      /\ Bit(s, 8 * (n + 2) + 5) = (b2 \div 4) % 2
      /\ Bit(s, 8 * (n + 2) + 6) = (b2 \div 2) % 2
      /\ Bit(s, 8 * (n + 2) + 7) = b2 % 2
  BY <1>3, BitAt
<1>7. Sextet(s, 4 * g) = b0 \div 4
  <2>1. /\ 6 * (4 * g) = 8 * n           /\ 6 * (4 * g) + 1 = 8 * n + 1
        /\ 6 * (4 * g) + 2 = 8 * n + 2   /\ 6 * (4 * g) + 3 = 8 * n + 3
        /\ 6 * (4 * g) + 4 = 8 * n + 4   /\ 6 * (4 * g) + 5 = 8 * n + 5
    BY <1>2
  <2>2. ((b0 \div 128) % 2) * 32 + ((b0 \div 64) % 2) * 16 + ((b0 \div 32) % 2) * 8
        + ((b0 \div 16) % 2) * 4 + ((b0 \div 8) % 2) * 2 + ((b0 \div 4) % 2)
        = b0 \div 4
    BY <1>1, Sextets
  <2>3. Sextet(s, 4 * g) =
        Bit(s, 8 * n) * 32 + Bit(s, 8 * n + 1) * 16 + Bit(s, 8 * n + 2) * 8
        + Bit(s, 8 * n + 3) * 4 + Bit(s, 8 * n + 4) * 2 + Bit(s, 8 * n + 5)
    BY <2>1 DEF Sextet
  <2>4. QED BY <1>4, <2>2, <2>3
<1>8. Sextet(s, 4 * g + 1) = (b0 % 4) * 16 + b1 \div 16
  <2>1. /\ 6 * (4 * g + 1) = 8 * n + 6           /\ 6 * (4 * g + 1) + 1 = 8 * n + 7
        /\ 6 * (4 * g + 1) + 2 = 8 * (n + 1)     /\ 6 * (4 * g + 1) + 3 = 8 * (n + 1) + 1
        /\ 6 * (4 * g + 1) + 4 = 8 * (n + 1) + 2 /\ 6 * (4 * g + 1) + 5 = 8 * (n + 1) + 3
    BY <1>2
  <2>2. ((b0 \div 2) % 2) * 32 + (b0 % 2) * 16 + ((b1 \div 128) % 2) * 8
        + ((b1 \div 64) % 2) * 4 + ((b1 \div 32) % 2) * 2 + ((b1 \div 16) % 2)
        = (b0 % 4) * 16 + b1 \div 16
    BY <1>1, Sextets
  <2>3. Sextet(s, 4 * g + 1) =
        Bit(s, 8 * n + 6) * 32 + Bit(s, 8 * n + 7) * 16 + Bit(s, 8 * (n + 1)) * 8
        + Bit(s, 8 * (n + 1) + 1) * 4 + Bit(s, 8 * (n + 1) + 2) * 2 + Bit(s, 8 * (n + 1) + 3)
    BY <2>1 DEF Sextet
  <2>4. QED BY <1>4, <1>5, <2>2, <2>3
<1>9. Sextet(s, 4 * g + 2) = (b1 % 16) * 4 + b2 \div 64
  <2>1. /\ 6 * (4 * g + 2) = 8 * (n + 1) + 4     /\ 6 * (4 * g + 2) + 1 = 8 * (n + 1) + 5
        /\ 6 * (4 * g + 2) + 2 = 8 * (n + 1) + 6 /\ 6 * (4 * g + 2) + 3 = 8 * (n + 1) + 7
        /\ 6 * (4 * g + 2) + 4 = 8 * (n + 2)     /\ 6 * (4 * g + 2) + 5 = 8 * (n + 2) + 1
    BY <1>2
  <2>2. ((b1 \div 8) % 2) * 32 + ((b1 \div 4) % 2) * 16 + ((b1 \div 2) % 2) * 8
        + (b1 % 2) * 4 + ((b2 \div 128) % 2) * 2 + ((b2 \div 64) % 2)
        = (b1 % 16) * 4 + b2 \div 64
    BY <1>1, Sextets
  <2>3. Sextet(s, 4 * g + 2) =
        Bit(s, 8 * (n + 1) + 4) * 32 + Bit(s, 8 * (n + 1) + 5) * 16 + Bit(s, 8 * (n + 1) + 6) * 8
        + Bit(s, 8 * (n + 1) + 7) * 4 + Bit(s, 8 * (n + 2)) * 2 + Bit(s, 8 * (n + 2) + 1)
    BY <2>1 DEF Sextet
  <2>4. QED BY <1>5, <1>6, <2>2, <2>3
<1>10. Sextet(s, 4 * g + 3) = b2 % 64
  <2>1. /\ 6 * (4 * g + 3) = 8 * (n + 2) + 2     /\ 6 * (4 * g + 3) + 1 = 8 * (n + 2) + 3
        /\ 6 * (4 * g + 3) + 2 = 8 * (n + 2) + 4 /\ 6 * (4 * g + 3) + 3 = 8 * (n + 2) + 5
        /\ 6 * (4 * g + 3) + 4 = 8 * (n + 2) + 6 /\ 6 * (4 * g + 3) + 5 = 8 * (n + 2) + 7
    BY <1>2
  <2>2. ((b2 \div 32) % 2) * 32 + ((b2 \div 16) % 2) * 16 + ((b2 \div 8) % 2) * 8
        + ((b2 \div 4) % 2) * 4 + ((b2 \div 2) % 2) * 2 + (b2 % 2)
        = b2 % 64
    BY <1>1, Sextets
  <2>3. Sextet(s, 4 * g + 3) =
        Bit(s, 8 * (n + 2) + 2) * 32 + Bit(s, 8 * (n + 2) + 3) * 16 + Bit(s, 8 * (n + 2) + 4) * 8
        + Bit(s, 8 * (n + 2) + 5) * 4 + Bit(s, 8 * (n + 2) + 6) * 2 + Bit(s, 8 * (n + 2) + 7)
    BY <2>1 DEF Sextet
  <2>4. QED BY <1>6, <2>2, <2>3
<1>11. QED BY <1>7, <1>8, <1>9, <1>10 DEF b0, b1, b2

-----------------------------------------------------------------------------
(* Encoding *)

(* A place of the encoding: the r-th character of the g-th group; and how   *)
(* many digits, which are not padding, there are.                           *)
LEMMA Place ==
    ASSUME NEW L \in Nat, NEW j \in 1 .. ((L + 2) \div 3) * 4
    PROVE  \E g \in Nat, r \in 0 .. 3 :
              /\ (j - 1) \div 4 = g /\ (j - 1) % 4 = r /\ j = 4 * g + r + 1
              /\ 3 * g < L
              /\ j <= (8 * L + 5) \div 6 <=>
                    (r = 2 => 3 * g + 1 < L) /\ (r = 3 => 3 * g + 2 < L)
<1>1. PICK g \in Nat : g = (j - 1) \div 4
  OBVIOUS
<1>2. PICK r \in 0 .. 3 : r = (j - 1) % 4
  OBVIOUS
<1>3. j = 4 * g + r + 1
  BY <1>1, <1>2
<1>4. 3 * g < L
  BY <1>3
<1>5. CASE r \in {0, 1}
  BY <1>1, <1>2, <1>3, <1>4, <1>5
<1>6. CASE r = 2
  BY <1>1, <1>2, <1>3, <1>4, <1>6
<1>7. CASE r = 3
  BY <1>1, <1>2, <1>3, <1>4, <1>7
<1>8. QED BY <1>5, <1>6, <1>7

LEMMA Lengths ==
    ASSUME NEW L \in Nat
    PROVE  ((L + 2) \div 3) * 4 = 4 * (((8 * L + 5) \div 6 + 3) \div 4)
OBVIOUS

(* The four characters of a group. *)
LEMMA GroupChars ==
    ASSUME NEW s, NEW p, NEW url
    PROVE  LET b0 == ByteAt(s, p)
               b1 == ByteAt(s, p + 1)
               b2 == ByteAt(s, p + 2)
           IN  /\ GroupChar(s, p, 0, url) = Char(b0 \div 4, url)
               /\ GroupChar(s, p, 1, url) = Char((b0 % 4) * 16 + b1 \div 16, url)
               /\ GroupChar(s, p, 2, url) = IF p + 1 < Len(s)
                                            THEN Char((b1 % 16) * 4 + b2 \div 64, url)
                                            ELSE Pad(url)
               /\ GroupChar(s, p, 3, url) = IF p + 2 < Len(s) THEN Char(b2 % 64, url)
                                            ELSE Pad(url)
BY DEF GroupChar

LEMMA SextetType ==
    ASSUME NEW s \in Seq(Byte), NEW i \in Nat
    PROVE  Sextet(s, i) \in 0 .. 63
<1>1. PICK g \in Nat, r \in 0 .. 3 : i = 4 * g + r
  <2>1. i \div 4 \in Nat /\ i % 4 \in 0 .. 3 /\ i = 4 * (i \div 4) + (i % 4)
    OBVIOUS
  <2>2. QED BY <2>1
<1>2. PICK x \in 0 .. 255, y \in 0 .. 255, z \in 0 .. 255 :
         x = ByteAt(s, 3 * g) /\ y = ByteAt(s, 3 * g + 1) /\ z = ByteAt(s, 3 * g + 2)
  <2>1. 3 * g \in Nat /\ 3 * g + 1 \in Nat /\ 3 * g + 2 \in Nat
    OBVIOUS
  <2>2. /\ ByteAt(s, 3 * g) \in 0 .. 255 /\ ByteAt(s, 3 * g + 1) \in 0 .. 255
        /\ ByteAt(s, 3 * g + 2) \in 0 .. 255
    BY <2>1, ByteAtType, Zenon DEF Byte
  <2>3. QED BY <2>2, Zenon
<1>3. /\ Sextet(s, 4 * g) = x \div 4
      /\ Sextet(s, 4 * g + 1) = (x % 4) * 16 + y \div 16
      /\ Sextet(s, 4 * g + 2) = (y % 16) * 4 + z \div 64
      /\ Sextet(s, 4 * g + 3) = z % 64
  BY <1>2, SextetIs
<1>4. /\ x \div 4 \in 0 .. 63 /\ (x % 4) * 16 + y \div 16 \in 0 .. 63
      /\ (y % 16) * 4 + z \div 64 \in 0 .. 63 /\ z % 64 \in 0 .. 63
  <2>1. ASSUME NEW a \in 0 .. 255 PROVE /\ a \div 4 \in 0 .. 63 /\ a % 4 \in 0 .. 3
                                        /\ a \div 16 \in 0 .. 15 /\ a % 16 \in 0 .. 15
                                        /\ a \div 64 \in 0 .. 3 /\ a % 64 \in 0 .. 63
    OBVIOUS
  <2>2. ASSUME NEW a \in 0 .. 3, NEW b \in 0 .. 15
        PROVE  a * 16 + b \in 0 .. 63 /\ b * 4 + a \in 0 .. 63
    OBVIOUS
  <2>3. QED BY <2>1, <2>2, Zenon
<1>5. i = 4 * g \/ i = 4 * g + 1 \/ i = 4 * g + 2 \/ i = 4 * g + 3
  BY <1>1
<1>6. /\ Sextet(s, 4 * g) \in 0 .. 63     /\ Sextet(s, 4 * g + 1) \in 0 .. 63
      /\ Sextet(s, 4 * g + 2) \in 0 .. 63 /\ Sextet(s, 4 * g + 3) \in 0 .. 63
  BY <1>3, <1>4, Zenon
<1>7. QED BY <1>5, <1>6, Zenon

(* The characters of base64_chars are those of the tables of the RFC. *)
LEMMA CharIs ==
    ASSUME NEW k \in 0 .. 63, NEW url \in BOOLEAN
    PROVE  Char(k, url) = Alphabet64(url)[k + 1]
<1>1. CASE k < 26
  BY <1>1 DEF Char, Alphabet64
<1>2. CASE k \in 26 .. 51
  BY <1>2 DEF Char, Alphabet64
<1>3. CASE k \in 52 .. 61
  BY <1>3 DEF Char, Alphabet64
<1>4. CASE k = 62
  BY <1>4 DEF Char, Alphabet64
<1>5. CASE k = 63
  BY <1>5 DEF Char, Alphabet64
<1>6. QED BY <1>1, <1>2, <1>3, <1>4, <1>5

LEMMA EncodeIs ==
    ASSUME NEW s \in Seq(Byte), NEW url \in BOOLEAN
    PROVE  Encode(s, url) = [j \in 1 .. ((Len(s) + 2) \div 3) * 4 |->
                                IF j <= (8 * Len(s) + 5) \div 6
                                THEN Char(Sextet(s, j - 1), url) ELSE Pad(url)]
<1> DEFINE n == ((Len(s) + 2) \div 3) * 4
           digits == (8 * Len(s) + 5) \div 6
<1>1. Len(s) \in Nat
  OBVIOUS
<1>2. ASSUME NEW j \in 1 .. n
      PROVE  GroupChar(s, ((j - 1) \div 4) * 3, (j - 1) % 4, url)
             = IF j <= digits THEN Char(Sextet(s, j - 1), url) ELSE Pad(url)
  <2>1. PICK g \in Nat, r \in 0 .. 3 :
              /\ (j - 1) \div 4 = g /\ (j - 1) % 4 = r /\ j = 4 * g + r + 1
              /\ 3 * g < Len(s)
              /\ j <= digits <=>
                    (r = 2 => 3 * g + 1 < Len(s)) /\ (r = 3 => 3 * g + 2 < Len(s))
    BY <1>1, Place
  <2>2. g * 3 = 3 * g /\ j - 1 = 4 * g + r
    BY <2>1
  <2> HIDE DEF n, digits
  <2>3. GroupChar(s, ((j - 1) \div 4) * 3, (j - 1) % 4, url) = GroupChar(s, 3 * g, r, url)
        /\ Sextet(s, j - 1) = Sextet(s, 4 * g + r)
    BY <2>1, <2>2
  <2>4. CASE r = 0
    <3>1. Sextet(s, j - 1) = Sextet(s, 4 * g)
      BY <2>3, <2>4
    <3>2. QED BY <2>1, <2>3, <2>4, <3>1, SextetIs, GroupChars
  <2>5. CASE r = 1
    <3>1. Sextet(s, j - 1) = Sextet(s, 4 * g + 1)
      BY <2>3, <2>5
    <3>2. QED BY <2>1, <2>3, <2>5, <3>1, SextetIs, GroupChars
  <2>6. CASE r = 2
    <3>1. Sextet(s, j - 1) = Sextet(s, 4 * g + 2)
      BY <2>3, <2>6
    <3>2. QED BY <2>1, <2>3, <2>6, <3>1, SextetIs, GroupChars
  <2>7. CASE r = 3
    <3>1. Sextet(s, j - 1) = Sextet(s, 4 * g + 3)
      BY <2>3, <2>7
    <3>2. QED BY <2>1, <2>3, <2>7, <3>1, SextetIs, GroupChars
  <2>8. QED BY <2>4, <2>5, <2>6, <2>7
<1>3. QED BY <1>2 DEF Encode

LEMMA EncodeRfc ==
    ASSUME NEW s \in Seq(Byte), NEW url \in BOOLEAN
    PROVE  Encode(s, url) = Rfc(s, url)
<1> DEFINE n == ((Len(s) + 2) \div 3) * 4
           digits == (8 * Len(s) + 5) \div 6
<1>1. Len(s) \in Nat
  OBVIOUS
<1>2. Rfc(s, url) = [j \in 1 .. n |-> IF j <= digits THEN Char(Sextet(s, j - 1), url)
                                      ELSE Pad(url)]
  <2>1. \A j \in 1 .. n : Char(Sextet(s, j - 1), url) = Alphabet64(url)[Sextet(s, j - 1) + 1]
    <3>1. ASSUME NEW j \in 1 .. n PROVE Sextet(s, j - 1) \in 0 .. 63
      <4>1. PICK k \in Nat : k = j - 1
        BY <1>1
      <4>2. Sextet(s, k) \in 0 .. 63
        BY SextetType, Zenon
      <4>3. QED BY <4>1, <4>2, Zenon
    <3>2. QED BY <3>1, CharIs
  <2>2. QED BY <1>1, <2>1, Lengths DEF Rfc, Sextet, Pad
<1>3. QED BY <1>2, EncodeIs

-----------------------------------------------------------------------------
(* The bytes the strings are made of.                                       *)
TextOK == text \in Seq(Alphabet)

LEMMA TextType == Spec => []TextOK
<1>1. Init => TextOK
  BY DEF Init, TextOK
<1>2. TextOK /\ [Next]_text => TextOK'
  BY DEF Next, Grow, TextOK
<1>3. QED BY <1>1, <1>2, PTL DEF Spec

LEMMA TextBytes == TextOK => text \in Seq(Byte)
<1> SUFFICES ASSUME text \in Seq(Alphabet) PROVE text \in Seq(Byte)
  BY DEF TextOK
<1>1. Alphabet \subseteq Byte
  BY CodecAssumption DEF Byte
<1>2. QED BY <1>1

LEMMA LongBytes == TextOK => Long \in Seq(Byte)
<1> SUFFICES ASSUME text \in Seq(Alphabet) PROVE Long \in Seq(Byte)
  BY DEF TextOK
<1>1. Alphabet \subseteq Byte /\ Copies \in Nat
  BY CodecAssumption DEF Byte
<1>2. text \in Seq(Byte) /\ Len(text) \in Nat
  BY <1>1
<1>3. Copies * Len(text) \in Nat
  BY <1>1, <1>2
<1>4. ASSUME NEW i \in 1 .. Copies * Len(text)
      PROVE  text[1 + ((i - 1) % Len(text))] \in Byte
  <2>1. Len(text) > 0
    <3>1. CASE Len(text) = 0
      BY <1>1, <1>4, <3>1
    <3>2. QED BY <1>2, <3>1
  <2>2. PICK m \in Nat : m = Len(text) /\ m > 0
    BY <1>2, <2>1
  <2>3. (i - 1) % m \in 0 .. m - 1
    BY <1>3, <2>2
  <2>4. 1 + ((i - 1) % Len(text)) \in 1 .. Len(text)
    BY <2>2, <2>3
  <2>5. QED BY <1>2, <2>4
<1>5. QED BY <1>3, <1>4 DEF Long

(* base64.cpp:111: base64_encode is base64, in both alphabets, of every     *)
(* string over any bytes, and so of a text of any number of lines.          *)
THEOREM EncodesBase64 == Spec => []EncodeIsBase64
<1>1. TextOK => EncodeIsBase64
  <2> SUFFICES ASSUME text \in Seq(Alphabet) PROVE EncodeIsBase64
    BY DEF TextOK
  <2>1. Alphabet \subseteq Byte /\ Copies \in Nat
    BY CodecAssumption DEF Byte
  <2>2. text \in Seq(Byte) /\ Len(text) \in Nat
    BY <2>1
  <2>3. Long \in Seq(Byte)
    BY LongBytes DEF TextOK
  <2>4. QED BY <2>2, <2>3, EncodeRfc DEF EncodeIsBase64
<1>2. QED BY <1>1, TextType, PTL

-----------------------------------------------------------------------------
(* Decoding *)

(* The decoder finds the place of every character in its alphabet, and      *)
(* takes none for padding.                                                  *)
LEMMA CharPos ==
    ASSUME NEW k \in 0 .. 63, NEW url \in BOOLEAN
    PROVE  /\ Valid(Char(k, url)) /\ PosOfChar(Char(k, url)) = k
           /\ Char(k, url) \notin {61, 46}
<1>1. CASE k \in 0 .. 25
  <2>1. Char(k, url) = 65 + k
    BY <1>1 DEF Char
  <2>2. QED BY <1>1, <2>1 DEF Valid, PosOfChar
<1>2. CASE k \in 26 .. 51
  <2>1. Char(k, url) = 71 + k
    BY <1>2 DEF Char
  <2>2. QED BY <1>2, <2>1 DEF Valid, PosOfChar
<1>3. CASE k \in 52 .. 61
  <2>1. Char(k, url) = k - 4
    BY <1>3 DEF Char
  <2>2. QED BY <1>3, <2>1 DEF Valid, PosOfChar
<1>4. CASE k = 62
  <2>1. Char(k, url) \in {43, 45}
    BY <1>4 DEF Char
  <2>2. QED BY <1>4, <2>1 DEF Valid, PosOfChar
<1>5. CASE k = 63
  <2>1. Char(k, url) \in {47, 95}
    BY <1>5 DEF Char
  <2>2. QED BY <1>5, <2>1 DEF Valid, PosOfChar
<1>6. QED BY <1>1, <1>2, <1>3, <1>4, <1>5

(* The g-th group of an encoding. *)
LEMMA EncodedGroup ==
    ASSUME NEW s \in Seq(Byte), NEW url \in BOOLEAN, NEW g \in Nat, 3 * g < Len(s)
    PROVE  LET e == Encode(s, url) IN
           /\ Len(e) \in Nat /\ 4 * g + 3 < Len(e)
           /\ e[4 * g + 1] = GroupChar(s, 3 * g, 0, url)
           /\ e[4 * g + 2] = GroupChar(s, 3 * g, 1, url)
           /\ e[4 * g + 3] = GroupChar(s, 3 * g, 2, url)
           /\ e[4 * g + 4] = GroupChar(s, 3 * g, 3, url)
<1> DEFINE e == Encode(s, url)
           n == ((Len(s) + 2) \div 3) * 4
<1>1. n \in Nat /\ 4 * g + 4 <= n
  OBVIOUS
<1>2. e = [j \in 1 .. n |-> GroupChar(s, ((j - 1) \div 4) * 3, (j - 1) % 4, url)]
  BY DEF Encode
<1> HIDE DEF e, n
<1>3. Len(e) = n
  BY <1>1, <1>2
<1>4. ASSUME NEW r \in 0 .. 3
      PROVE  e[4 * g + r + 1] = GroupChar(s, 3 * g, r, url)
  <2>1. PICK j \in 1 .. n : j = 4 * g + r + 1
    BY <1>1
  <2>2. ((j - 1) \div 4) * 3 = 3 * g /\ (j - 1) % 4 = r
    BY <2>1
  <2>3. QED BY <1>2, <2>1, <2>2
<1>5. /\ 4 * g + 0 + 1 = 4 * g + 1 /\ 4 * g + 1 + 1 = 4 * g + 2
      /\ 4 * g + 2 + 1 = 4 * g + 3 /\ 4 * g + 3 + 1 = 4 * g + 4
  OBVIOUS
<1>6. QED BY <1>1, <1>3, <1>4, <1>5 DEF e

(* What decode makes of that group: the bytes it was made of.               *)
GroupBytes(s, g) ==
    IF 3 * g + 2 < Len(s) THEN <<s[3 * g + 1], s[3 * g + 2], s[3 * g + 3]>>
    ELSE IF 3 * g + 1 < Len(s) THEN <<s[3 * g + 1], s[3 * g + 2]>>
    ELSE <<s[3 * g + 1]>>

(* e has the g-th group of an encoding at 4 * g, with or without padding.   *)
HasGroup(e, s, url, g) ==
    /\ 4 * g + 1 < Len(e)
    /\ e[4 * g + 1] = GroupChar(s, 3 * g, 0, url)
    /\ e[4 * g + 2] = GroupChar(s, 3 * g, 1, url)
    /\ 3 * g + 1 < Len(s) => /\ 4 * g + 2 < Len(e)
                             /\ e[4 * g + 3] = GroupChar(s, 3 * g, 2, url)
    /\ 3 * g + 2 < Len(s) => /\ 4 * g + 3 < Len(e)
                             /\ e[4 * g + 4] = GroupChar(s, 3 * g, 3, url)
    /\ ~(3 * g + 1 < Len(s)) /\ 4 * g + 2 < Len(e) => e[4 * g + 3] = Pad(url)
    /\ ~(3 * g + 2 < Len(s)) /\ 4 * g + 3 < Len(e) => e[4 * g + 4] = Pad(url)

LEMMA GroupDecodes ==
    ASSUME NEW e, NEW s \in Seq(Byte), NEW url \in BOOLEAN, NEW g \in Nat,
           Len(e) \in Nat, 3 * g < Len(s), HasGroup(e, s, url, g)
    PROVE  ~BadChunk(e, 4 * g) /\ Chunk(e, 4 * g) = GroupBytes(s, g)
<1>p. PICK pos \in Nat : pos = 4 * g
  OBVIOUS
<1>q. PICK q \in Nat : q = 3 * g
  OBVIOUS
<1> DEFINE b0 == ByteAt(s, q)
           b1 == ByteAt(s, q + 1)
           b2 == ByteAt(s, q + 2)
<1>1. b0 \in 0 .. 255 /\ b1 \in 0 .. 255 /\ b2 \in 0 .. 255
  <2>1. q + 1 \in Nat /\ q + 2 \in Nat
    OBVIOUS
  <2>2. b0 \in Byte /\ b1 \in Byte /\ b2 \in Byte
    BY <2>1, ByteAtType, Zenon
  <2>3. QED BY <2>2, Zenon DEF Byte
<1>2. /\ b0 = s[q + 1]
      /\ q + 1 < Len(s) => b1 = s[q + 2]
      /\ q + 2 < Len(s) => b2 = s[q + 3]
  BY <1>q DEF ByteAt
<1>3. PICK p0, p1, p2, p3 :
         /\ p0 = b0 \div 4 /\ p1 = (b0 % 4) * 16 + (b1 \div 16)
         /\ p2 = (b1 % 16) * 4 + (b2 \div 64) /\ p3 = b2 % 64
  OBVIOUS
(* The shifts and masks of the decoder undo those of the encoder. *)
<1>4. /\ p0 \in 0 .. 63 /\ p1 \in 0 .. 63 /\ p2 \in 0 .. 63 /\ p3 \in 0 .. 63
      /\ p0 * 4 + ((p1 % 64) \div 16) = b0
      /\ (p1 % 16) * 16 + ((p2 % 64) \div 4) = b1
      /\ (p2 % 4) * 64 + p3 = b2
  <2> HIDE DEF b0, b1, b2
  <2>1. PICK x \in 0 .. 255, y \in 0 .. 255, z \in 0 .. 255 : x = b0 /\ y = b1 /\ z = b2
    BY <1>1
  <2>2. p0 = x \div 4 /\ p1 = (x % 4) * 16 + (y \div 16)
    BY <1>3, <2>1
  <2>3. p2 = (y % 16) * 4 + (z \div 64) /\ p3 = z % 64
    BY <1>3, <2>1
  <2>4. /\ p0 \in 0 .. 63 /\ p1 \in 0 .. 63 /\ p2 \in 0 .. 63 /\ p3 \in 0 .. 63
        /\ p0 * 4 + ((p1 % 64) \div 16) = x
        /\ (p1 % 16) * 16 + ((p2 % 64) \div 4) = y
        /\ (p2 % 4) * 64 + p3 = z
    <3>1. p0 \in 0 .. 63 /\ p1 \in 0 .. 63 /\ p2 \in 0 .. 63 /\ p3 \in 0 .. 63
      BY <2>2, <2>3
    <3>2. p1 \div 16 = x % 4 /\ p1 % 64 = p1 /\ p0 * 4 + (x % 4) = x
      BY <2>2
    <3>3. p1 % 16 = y \div 16 /\ p2 \div 4 = y % 16 /\ p2 % 64 = p2
      BY <2>2, <2>3
    <3>4. (y \div 16) * 16 + (y % 16) = y
      OBVIOUS
    <3>5. p2 % 4 = z \div 64 /\ (z \div 64) * 64 + p3 = z
      BY <2>3
    <3>6. QED BY <3>1, <3>2, <3>3, <3>4, <3>5
  <2>5. QED BY <2>1, <2>4
<1>5. /\ pos + 1 < Len(e)
      /\ e[pos + 1] = GroupChar(s, q, 0, url) /\ e[pos + 2] = GroupChar(s, q, 1, url)
      /\ q + 1 < Len(s) => pos + 2 < Len(e) /\ e[pos + 3] = GroupChar(s, q, 2, url)
      /\ q + 2 < Len(s) => pos + 3 < Len(e) /\ e[pos + 4] = GroupChar(s, q, 3, url)
      /\ ~(q + 1 < Len(s)) /\ pos + 2 < Len(e) => e[pos + 3] = Pad(url)
      /\ ~(q + 2 < Len(s)) /\ pos + 3 < Len(e) => e[pos + 4] = Pad(url)
  BY <1>p, <1>q, Zenon DEF HasGroup
<1>6. /\ GroupChar(s, q, 0, url) = Char(b0 \div 4, url)
      /\ GroupChar(s, q, 1, url) = Char((b0 % 4) * 16 + b1 \div 16, url)
      /\ GroupChar(s, q, 2, url) = IF q + 1 < Len(s)
                                   THEN Char((b1 % 16) * 4 + b2 \div 64, url) ELSE Pad(url)
      /\ GroupChar(s, q, 3, url) = IF q + 2 < Len(s) THEN Char(b2 % 64, url) ELSE Pad(url)
  BY GroupChars
<1> HIDE DEF b0, b1, b2
<1>7. /\ e[pos + 1] = Char(p0, url) /\ e[pos + 2] = Char(p1, url)
      /\ q + 1 < Len(s) => e[pos + 3] = Char(p2, url)
      /\ q + 2 < Len(s) => e[pos + 4] = Char(p3, url)
  BY <1>3, <1>5, <1>6
<1>8. Pad(url) \in {61, 46}
  BY DEF Pad
<1>9. /\ pos + 0 + 1 = pos + 1 /\ pos + 1 + 1 = pos + 2 /\ pos + 2 + 1 = pos + 3
      /\ pos + 3 + 1 = pos + 4
  OBVIOUS
<1>c. /\ Valid(Char(p0, url)) /\ PosOfChar(Char(p0, url)) = p0
      /\ Valid(Char(p1, url)) /\ PosOfChar(Char(p1, url)) = p1
      /\ Valid(Char(p2, url)) /\ PosOfChar(Char(p2, url)) = p2
      /\ Valid(Char(p3, url)) /\ PosOfChar(Char(p3, url)) = p3
      /\ Char(p2, url) \notin {61, 46} /\ Char(p3, url) \notin {61, 46}
  <2>1. ASSUME NEW k \in 0 .. 63
        PROVE  /\ Valid(Char(k, url)) /\ PosOfChar(Char(k, url)) = k
               /\ Char(k, url) \notin {61, 46}
    BY CharPos, Zenon
  <2>2. QED BY <1>4, <2>1, Zenon
<1>l. PICK m \in Nat : m = Len(s)
  OBVIOUS
<1>10. /\ Third(e, pos) <=> q + 1 < Len(s)
       /\ Fourth(e, pos) <=> q + 2 < Len(s)
  <2>1. Has(e, pos, 2) <=> pos + 2 < Len(e) /\ e[pos + 3] \notin {61, 46}
    BY <1>9 DEF Has
  <2>2. Has(e, pos, 3) <=> pos + 3 < Len(e) /\ e[pos + 4] \notin {61, 46}
    BY <1>9 DEF Has
  <2>3. Has(e, pos, 2) <=> q + 1 < Len(s)
    BY <1>5, <1>7, <1>8, <1>c, <2>1, Zenon
  <2>4. Has(e, pos, 3) <=> q + 2 < Len(s)
    BY <1>5, <1>7, <1>8, <1>c, <2>2, Zenon
  <2>5. q + 2 < Len(s) => q + 1 < Len(s)
    BY <1>l
  <2>6. QED BY <2>3, <2>4, <2>5 DEF Third, Fourth
<1>11. /\ Valid(e[pos + 1]) /\ PosOfChar(e[pos + 1]) = p0
       /\ Valid(e[pos + 2]) /\ PosOfChar(e[pos + 2]) = p1
       /\ q + 1 < Len(s) => Valid(e[pos + 3]) /\ PosOfChar(e[pos + 3]) = p2
       /\ q + 2 < Len(s) => Valid(e[pos + 4]) /\ PosOfChar(e[pos + 4]) = p3
  BY <1>7, <1>c
<1>12. ~BadChunk(e, pos)
  BY <1>5, <1>9, <1>10, <1>11 DEF BadChunk
<1>13. Chunk(e, pos) = IF q + 2 < Len(s) THEN <<b0, b1, b2>>
                       ELSE IF q + 1 < Len(s) THEN <<b0, b1>> ELSE <<b0>>
  <2>1. Chunk(e, pos) =
          LET c0 == PosOfChar(e[pos + 1])  c1 == PosOfChar(e[pos + 2])
              c2 == PosOfChar(e[pos + 3])  c3 == PosOfChar(e[pos + 4])
              d0 == c0 * 4 + ((c1 % 64) \div 16)
              d1 == (c1 % 16) * 16 + ((c2 % 64) \div 4)
              d2 == (c2 % 4) * 64 + c3
          IN  IF Fourth(e, pos) THEN <<d0, d1, d2>>
              ELSE IF Third(e, pos) THEN <<d0, d1>>
              ELSE <<d0>>
    BY <1>9 DEF Chunk
  <2>2. q + 2 < Len(s) => q + 1 < Len(s)
    BY <1>l
  <2>3. CASE q + 2 < Len(s)
    BY <1>4, <1>10, <1>11, <2>1, <2>2, <2>3
  <2>4. CASE q + 1 < Len(s) /\ ~(q + 2 < Len(s))
    BY <1>4, <1>10, <1>11, <2>1, <2>4
  <2>5. CASE ~(q + 1 < Len(s))
    BY <1>4, <1>10, <1>11, <2>1, <2>2, <2>5
  <2>6. QED BY <2>3, <2>4, <2>5
<1>14. Chunk(e, pos) = GroupBytes(s, g)
  <2>1. q + 2 < Len(s) => q + 1 < Len(s)
    BY <1>l
  <2>2. GroupBytes(s, g) = IF q + 2 < Len(s) THEN <<s[q + 1], s[q + 2], s[q + 3]>>
                           ELSE IF q + 1 < Len(s) THEN <<s[q + 1], s[q + 2]>>
                           ELSE <<s[q + 1]>>
    BY <1>q, Zenon DEF GroupBytes
  <2>3. CASE q + 2 < Len(s)
    <3>1. b0 = s[q + 1] /\ b1 = s[q + 2] /\ b2 = s[q + 3]
      BY <1>2, <2>1, <2>3, Zenon
    <3>2. QED BY <1>13, <2>2, <2>3, <3>1, Zenon
  <2>4. CASE ~(q + 2 < Len(s)) /\ q + 1 < Len(s)
    <3>1. b0 = s[q + 1] /\ b1 = s[q + 2]
      BY <1>2, <2>4, Zenon
    <3>2. QED BY <1>13, <2>2, <2>4, <3>1, Zenon
  <2>5. CASE ~(q + 2 < Len(s)) /\ ~(q + 1 < Len(s))
    BY <1>2, <1>13, <2>2, <2>5, Zenon
  <2>6. QED BY <2>3, <2>4, <2>5, Zenon
<1>15. QED BY <1>12, <1>14, <1>p

LEMMA EncodingHasGroup ==
    ASSUME NEW s \in Seq(Byte), NEW url \in BOOLEAN, NEW g \in Nat, 3 * g < Len(s)
    PROVE  HasGroup(Encode(s, url), s, url, g)
<1>1. PICK e : e = Encode(s, url)
  OBVIOUS
<1>2. /\ Len(e) \in Nat /\ 4 * g + 3 < Len(e)
      /\ e[4 * g + 1] = GroupChar(s, 3 * g, 0, url)
      /\ e[4 * g + 2] = GroupChar(s, 3 * g, 1, url)
      /\ e[4 * g + 3] = GroupChar(s, 3 * g, 2, url)
      /\ e[4 * g + 4] = GroupChar(s, 3 * g, 3, url)
  BY <1>1, EncodedGroup
<1>3. /\ ~(3 * g + 1 < Len(s)) => GroupChar(s, 3 * g, 2, url) = Pad(url)
      /\ ~(3 * g + 2 < Len(s)) => GroupChar(s, 3 * g, 3, url) = Pad(url)
  BY GroupChars
<1>4. 4 * g + 1 < Len(e) /\ 4 * g + 2 < Len(e)
  BY <1>2
<1>5. HasGroup(e, s, url, g)
  BY <1>2, <1>3, <1>4, Zenon DEF HasGroup
<1>6. QED BY <1>1, <1>5, Zenon

(* base64.cpp:229, one round of the loop: of a string that base64_encode    *)
(* returned, in either alphabet, every chunk is decoded without an          *)
(* exception to the bytes it encodes -- the last one too, whether it is     *)
(* full or padded.                                                          *)
THEOREM ChunksInvert ==
    ASSUME NEW s \in Seq(Byte), NEW url \in BOOLEAN, NEW g \in Nat, 3 * g < Len(s)
    PROVE  /\ ~BadChunk(Encode(s, url), 4 * g)
           /\ Chunk(Encode(s, url), 4 * g) = GroupBytes(s, g)
<1>1. Len(Encode(s, url)) \in Nat
  BY EncodedGroup
<1>2. QED BY <1>1, EncodingHasGroup, GroupDecodes, Zenon

-----------------------------------------------------------------------------
(* Percent encoding *)

LEMMA HexDigit ==
    ASSUME NEW d \in 0 .. 15
    PROVE  Hex(ToHex(d)) /\ FromHex(ToHex(d)) = d
<1>1. CASE d > 9
  <2>1. ToHex(d) = d + 55 /\ d + 55 \in 65 .. 90
    BY <1>1 DEF ToHex
  <2>2. FromHex(d + 55) = d
    BY <2>1 DEF FromHex, Upper
  <2>3. QED BY <2>1, <2>2 DEF Hex, Upper
<1>2. CASE ~(d > 9)
  <2>1. ToHex(d) = d + 48 /\ d + 48 \in 48 .. 57
    BY <1>2 DEF ToHex
  <2>2. FromHex(d + 48) = d
    BY <2>1 DEF FromHex, Upper, Lower
  <2>3. QED BY <2>1, <2>2 DEF Hex, Digit
<1>3. QED BY <1>1, <1>2

(* An escape is two digits that stand for the byte. *)
LEMMA PercentInverts ==
    ASSUME NEW c \in Byte
    PROVE  \E h, l \in Nat : /\ Percent(c) = <<37, h, l>>
                             /\ Hex(h) /\ Hex(l)
                             /\ TwoHex(Percent(c), 2) = c
<1>1. PICK x \in 0 .. 15, y \in 0 .. 15 : x = c \div 16 /\ y = c % 16
  BY DEF Byte
<1>2. (x * 16 + y) % 256 = c
  BY <1>1 DEF Byte
<1>3. PICK h, l : h = ToHex(x) /\ l = ToHex(y)
  OBVIOUS
<1>4. h \in Nat /\ l \in Nat
  BY <1>3 DEF ToHex
<1>5. Hex(h) /\ Hex(l) /\ FromHex(h) = x /\ FromHex(l) = y
  BY <1>3, HexDigit, Zenon
<1>6. Percent(c) = <<37, h, l>>
  BY <1>1, <1>3 DEF Percent
<1>7. TwoHex(<<37, h, l>>, 2) = (FromHex(h) * 16 + FromHex(l)) % 256
  <2>1. <<37, h, l>>[2] = h /\ <<37, h, l>>[2 + 1] = l
    OBVIOUS
  <2>2. QED BY <2>1 DEF TwoHex
<1>8. TwoHex(Percent(c), 2) = c
  BY <1>2, <1>5, <1>6, <1>7
<1>9. QED BY <1>4, <1>5, <1>6, <1>8

(* HttpConnection.cpp:88: whatever the byte, UrlDecode takes what UrlEncode *)
(* made of it back to the byte, in whichever of its three branches: a '+'   *)
(* stands for a space only, a '%' starts only an escape, whose two digits   *)
(* pass the asserts, and every other byte stands for itself.                *)
THEOREM BytesRoundTrip ==
    ASSUME NEW c \in Byte
    PROVE  \/ EncodeChar(c) = <<43>> /\ c = 32
           \/ EncodeChar(c) = <<c>> /\ c \notin {37, 43}
           \/ \E h, l \in Nat : /\ EncodeChar(c) = <<37, h, l>>
                                /\ Hex(h) /\ Hex(l)
                                /\ TwoHex(EncodeChar(c), 2) = c
<1>1. CASE c \in Digit \cup Upper \cup Lower \cup {45, 95, 46, 126}
  <2>1. EncodeChar(c) = <<c>>
    BY <1>1 DEF EncodeChar
  <2>2. c \notin {37, 43}
    BY <1>1 DEF Digit, Upper, Lower
  <2>3. QED BY <2>1, <2>2
<1>2. CASE c = 32
  BY <1>2 DEF EncodeChar, Digit, Upper, Lower
<1>3. CASE c \notin Digit \cup Upper \cup Lower \cup {45, 95, 46, 126} /\ c # 32
  <2>1. EncodeChar(c) = Percent(c)
    BY <1>3 DEF EncodeChar
  <2>2. QED BY <2>1, PercentInverts
<1>4. QED BY <1>1, <1>2, <1>3

(* UrlEncode puts what EncodeChar makes of each byte one behind the other.  *)
UrlPieces(f, g, n, s) == /\ Joins(f, g, n) /\ UrlEncode(s) = f[n]
                         /\ \A i \in 1 .. n : g[i] = EncodeChar(s[i])

LEMMA UrlEncodeJoins ==
    ASSUME NEW n, NEW s \in Seq(Byte), n = Len(s)
    PROVE  \E f, g : UrlPieces(f, g, n, s)
<1>1. n = Len(s) /\ n \in Nat
  OBVIOUS
<1>2. PICK g : g = [i \in 1 .. n |-> EncodeChar(s[i])]
  OBVIOUS
<1>3. PICK f : Joins(f, g, n)
  BY <1>1, JoinsExists, Zenon
<1>4. \A i \in 1 .. n : g[i] = EncodeChar(s[i])
  BY <1>2
<1>5. ASSUME NEW e, NEW i \in 0 .. n
      PROVE  (IF i = 0 THEN <<>> ELSE Cat(e[i - 1], g[i]))
             = IF i = 0 THEN <<>> ELSE e[i - 1] \o EncodeChar(s[i])
  <2>1. CASE i = 0
    BY <2>1, Zenon
  <2>2. CASE i # 0
    <3>1. i \in 1 .. n
      BY <2>2
    <3>2. QED BY <1>4, <3>1, Zenon DEF Cat
  <2>3. QED BY <2>1, <2>2
<1>6. \A e : Joins(e, g, n) <=> e = [i \in 0 .. n |-> IF i = 0 THEN <<>>
                                                     ELSE e[i - 1] \o EncodeChar(s[i])]
  BY <1>5, Zenon DEF Joins
<1>7. \E e : Joins(e, g, n) /\ UrlEncode(s) = e[n]
  BY <1>1, <1>3, <1>6, Zenon DEF UrlEncode
<1>8. QED BY <1>4, <1>7, Zenon DEF UrlPieces

(* The steps of UrlDecode that do not stop at an assert: f[i] is what is    *)
(* made of e from i on.                                                     *)
UrlReads(f, e) ==
    /\ f[Len(e) + 1] = <<>>
    /\ \A i \in 1 .. Len(e) :
          /\ e[i] = 43 => f[i] = Cat(<<32>>, f[i + 1])
          /\ e[i] \notin {37, 43} => f[i] = Cat(<<e[i]>>, f[i + 1])
          /\ e[i] = 37 /\ i + 2 <= Len(e) /\ Hex(e[i + 1]) /\ Hex(e[i + 2])
                => f[i] = Cat(<<TwoHex(e, i + 1)>>, f[i + 3])

LEMMA UrlDecodeReads ==
    ASSUME NEW e \in Seq(Nat)
    PROVE  \E f : /\ UrlReads(f, e)
                  /\ (\A i \in DOMAIN f[1] : f[1][i] # -1) => UrlDecode(e) = f[1]
<1> DEFINE n == Len(e)
<1>1. n \in Nat
  OBVIOUS
<1> DEFINE Good(i) == i + 2 <= n /\ Hex(e[i + 1]) /\ Hex(e[i + 2])
<1>2. PICK bad : bad = {i \in 1 .. n : e[i] = 37 /\ ~Good(i)}
  OBVIOUS
<1>3. PICK h : h = [i \in 1 .. n |-> IF e[i] = 43 THEN <<32>>
                                     ELSE IF e[i] # 37 THEN <<e[i]>>
                                     ELSE <<TwoHex(e, i + 1)>>]
  OBVIOUS
<1>4. PICK k : k = [i \in 1 .. n |-> IF e[i] = 37 THEN i + 3 ELSE i + 1]
  OBVIOUS
<1>5. \A i \in 1 .. n : i \notin bad => k[i] \in i + 1 .. n + 1
  <2> HIDE DEF n
  <2>1. QED BY <1>1, <1>2, <1>4
<1>6. PICK f : Decodes(f, 1, n, h, k, bad)
  BY <1>1, <1>5, DecodesExists, Zenon
<1> DEFINE Step(d, i) == IF i > n THEN <<>>
                         ELSE IF e[i] = 43 THEN <<32>> \o d[i + 1]
                         ELSE IF e[i] # 37 THEN <<e[i]>> \o d[i + 1]
                         ELSE IF Good(i) THEN <<TwoHex(e, i + 1)>> \o d[i + 3]
                         ELSE Aborts
<1>7. ASSUME NEW d, NEW i \in 1 .. n + 1
      PROVE  (IF i > n THEN <<>> ELSE IF i \in bad THEN Aborts ELSE Cat(h[i], d[k[i]]))
             = Step(d, i)
  <2>1. CASE i > n
    BY <2>1, Zenon
  <2>2. CASE ~(i > n) /\ e[i] = 43
    <3>1. i \in 1 .. n /\ i \notin bad /\ h[i] = <<32>> /\ k[i] = i + 1
      BY <1>2, <1>3, <1>4, <2>2
    <3>2. QED BY <2>2, <3>1, Zenon DEF Cat
  <2>3. CASE ~(i > n) /\ e[i] # 43 /\ e[i] # 37
    <3>1. i \in 1 .. n /\ i \notin bad /\ h[i] = <<e[i]>> /\ k[i] = i + 1
      BY <1>2, <1>3, <1>4, <2>3
    <3>2. QED BY <2>3, <3>1, Zenon DEF Cat
  <2>4. CASE ~(i > n) /\ e[i] = 37 /\ Good(i)
    <3>n. i \in 1 .. n /\ e[i] # 43
      BY <2>4
    <3>h. h[i] = <<TwoHex(e, i + 1)>> /\ k[i] = i + 3
      BY <1>3, <1>4, <2>4, <3>n, Zenon
    <3>1. i \in 1 .. n /\ i \notin bad /\ h[i] = <<TwoHex(e, i + 1)>> /\ k[i] = i + 3
          /\ e[i] # 43
      BY <1>2, <2>4, <3>n, <3>h, Zenon
    <3>2. QED BY <2>4, <3>1, Zenon DEF Cat
  <2>5. CASE ~(i > n) /\ e[i] = 37 /\ ~Good(i)
    <3>1. i \in 1 .. n /\ i \in bad /\ e[i] # 43
      BY <1>2, <2>5
    <3>2. QED BY <2>5, <3>1, Zenon
  <2>6. QED BY <2>1, <2>2, <2>3, <2>4, <2>5
<1>8. \A d : Decodes(d, 1, n, h, k, bad) <=> d = [i \in 1 .. n + 1 |-> Step(d, i)]
  <2> HIDE DEF Step
  <2>1. QED BY <1>7, Zenon DEF Decodes
<1>9. PICK d : /\ d = [i \in 1 .. n + 1 |-> Step(d, i)]
               /\ UrlDecode(e) = IF \E i \in DOMAIN d[1] : d[1][i] = -1 THEN Aborts ELSE d[1]
  <2>1. \E d : d = [i \in 1 .. n + 1 |-> Step(d, i)]
    <3> HIDE DEF n, Step
    <3>1. QED BY <1>6, <1>8, Zenon
  <2>2. QED BY <2>1, Zenon DEF UrlDecode
<1>10. /\ \A i \in 1 .. n : i \in 1 .. n + 1 /\ ~(i > n)
       /\ n + 1 \in 1 .. n + 1 /\ n + 1 > n /\ 37 # 43
  BY <1>1
<1>11. \A i \in 1 .. n + 1 : d[i] = Step(d, i)
  <2> HIDE DEF Step
  <2>1. QED BY <1>9, Zenon
<1>12. ASSUME NEW i \in 1 .. n
       PROVE  /\ e[i] = 43 => d[i] = Cat(<<32>>, d[i + 1])
              /\ e[i] \notin {37, 43} => d[i] = Cat(<<e[i]>>, d[i + 1])
              /\ e[i] = 37 /\ Good(i) => d[i] = Cat(<<TwoHex(e, i + 1)>>, d[i + 3])
  BY <1>10, <1>11, Zenon DEF Cat
<1>13. d[n + 1] = <<>>
  BY <1>10, <1>11, Zenon
<1>14. UrlReads(d, e)
  BY <1>12, <1>13, Zenon DEF UrlReads
<1>15. QED BY <1>9, <1>14, Zenon

(* A decoder that takes the i-th of the strings put together in up to the   *)
(* i-th element of s takes all of them to s.                                *)
LEMMA Unjoins ==
    ASSUME NEW X, NEW up, NEW f, NEW n, NEW s \in Seq(X), n = Len(s),
           up[0] = <<>>, f[Len(up[n]) + 1] = <<>>,
           \A i \in 1 .. n : f[Len(up[i - 1]) + 1] = Cat(<<s[i]>>, f[Len(up[i]) + 1])
    PROVE  f[1] = s
<1>1. n = Len(s) /\ n \in Nat
  OBVIOUS
<1> DEFINE Rest(i) == SubSeq(s, i, n)
           S == {d \in Nat : d <= n => f[Len(up[n - d]) + 1] = Rest(n - d + 1)}
<1>2. 0 \in S
  <2>1. n - 0 = n /\ n - 0 + 1 = n + 1 /\ Rest(n + 1) = <<>>
    BY <1>1
  <2>2. f[Len(up[n - 0]) + 1] = Rest(n - 0 + 1)
    BY <1>1, <2>1, Zenon
  <2>3. QED BY <2>2
<1>3. ASSUME NEW d \in S PROVE d + 1 \in S
  <2> SUFFICES ASSUME d + 1 <= n
               PROVE  f[Len(up[n - (d + 1)]) + 1] = Rest(n - (d + 1) + 1)
    BY d + 1 \in Nat
  <2>1. PICK i \in 1 .. n : i = n - d /\ n - (d + 1) = i - 1 /\ n - (d + 1) + 1 = i
                            /\ d <= n /\ n - d + 1 = i + 1
    OBVIOUS
  <2>2. f[Len(up[n - d]) + 1] = Rest(n - d + 1)
    BY <2>1
  <2>3. f[Len(up[i - 1]) + 1] = Cat(<<s[i]>>, Rest(i + 1))
    BY <1>1, <2>1, <2>2, Zenon
  <2>4. Cat(<<s[i]>>, Rest(i + 1)) = Rest(i)
    <3>1. i \in 1 .. Len(s) /\ n \in i .. Len(s)
      BY <1>1
    <3>2. QED BY <3>1, SubSeqRecursiveFirst, Zenon DEF Cat
  <2>5. QED BY <2>1, <2>3, <2>4, Zenon
<1>4. S = Nat
  <2> HIDE DEF S
  <2>1. S \in SUBSET Nat
    BY DEF S
  <2>2. QED BY <1>2, <1>3, <2>1, SetInduction
<1>5. n \in S /\ n - n = 0 /\ n - n + 1 = 1 /\ n <= n
  <2> HIDE DEF S
  <2>1. QED BY <1>4
<1>6. f[Len(up[0]) + 1] = Rest(1)
  BY <1>5, Zenon
<1>7. Len(up[0]) + 1 = 1 /\ Rest(1) = s
  BY <1>1
<1>8. QED BY <1>6, <1>7, Zenon

LEMMA UrlRoundTrips ==
    ASSUME NEW s \in Seq(Byte)
    PROVE  UrlDecode(UrlEncode(s)) = s
<1>1. PICK n \in Nat : n = Len(s)
  OBVIOUS
<1>p. PICK up, g : UrlPieces(up, g, n, s)
  BY <1>1, UrlEncodeJoins, Zenon
<1>2. /\ Joins(up, g, n) /\ UrlEncode(s) = up[n]
      /\ \A i \in 1 .. n : g[i] = EncodeChar(s[i])
  BY <1>p DEF UrlPieces
<1>3. PICK e : e = UrlEncode(s)
  OBVIOUS
<1>4. \A i \in 1 .. n : s[i] \in Byte
  BY <1>1
<1>5. Strings(g, n, Nat)
  <2>1. ASSUME NEW c \in Byte PROVE EncodeChar(c) \in Seq(Nat)
    <3>1. c \in Nat
      BY DEF Byte
    <3>2. CASE EncodeChar(c) = <<43>>
      BY <3>2
    <3>3. CASE EncodeChar(c) = <<c>>
      BY <3>1, <3>3
    <3>4. CASE \E h, l \in Nat : EncodeChar(c) = <<37, h, l>>
      BY <3>4
    <3>5. QED BY <3>2, <3>3, <3>4, BytesRoundTrip
  <2>2. QED BY <1>2, <1>4, <2>1, Zenon DEF Strings
<1>6. n \in 0 .. n /\ e = up[n] /\ e \in Seq(Nat)
  <2>1. n \in 0 .. n
    OBVIOUS
  <2>2. QED BY <1>2, <1>3, <1>5, <2>1, JoinsType, Zenon
<1>7. PICK f : /\ UrlReads(f, e)
               /\ (\A i \in DOMAIN f[1] : f[1][i] # -1) => UrlDecode(e) = f[1]
  BY <1>6, UrlDecodeReads, Zenon
<1>8. ASSUME NEW i \in 1 .. n
      PROVE  f[Len(up[i - 1]) + 1] = Cat(<<s[i]>>, f[Len(up[i]) + 1])
  <2>1. PICK b : b = g[i]
    OBVIOUS
  <2>p. up[i - 1] \in Seq(Nat) /\ g[i] \in Seq(Nat) /\ IsPiece(up, g, n, i)
    BY <1>2, <1>5, JoinsPlaces, Zenon
  <2>2. PICK c \in Byte : c = s[i] /\ b = EncodeChar(c)
    BY <1>2, <1>4, <2>1
  <2>3. /\ up[i - 1] \in Seq(Nat) /\ b \in Seq(Nat)
        /\ Len(up[i]) = Len(up[i - 1]) + Len(b)
        /\ Holds(up[n], Len(up[i - 1]), b)
    BY <2>1, <2>p, Zenon DEF IsPiece
  <2>4. PICK m \in Nat : m = Len(up[i - 1])
    BY <2>3
  <2>5. /\ m + Len(b) <= Len(e) /\ Len(up[i]) = m + Len(b)
        /\ \A r \in 1 .. Len(b) : e[m + r] = b[r]
    BY <1>6, <2>3, <2>4, Zenon DEF Holds
  <2>6. Len(e) \in Nat
    BY <1>6
  <2>7. CASE b = <<43>> /\ c = 32
    <3>1. Len(b) = 1 /\ b[1] = 43
      BY <2>7
    <3>2. m + 1 \in 1 .. Len(e) /\ e[m + 1] = 43 /\ Len(up[i]) = m + 1
      BY <2>5, <2>6, <3>1
    <3>3. f[m + 1] = Cat(<<32>>, f[m + 1 + 1])
      BY <1>7, <3>2, Zenon DEF UrlReads
    <3>4. QED BY <2>2, <2>4, <2>7, <3>2, <3>3, Zenon
  <2>8. CASE b = <<c>> /\ c \notin {37, 43}
    <3>1. Len(b) = 1 /\ b[1] = c
      BY <2>8
    <3>2. m + 1 \in 1 .. Len(e) /\ e[m + 1] = c /\ Len(up[i]) = m + 1
      BY <2>5, <2>6, <3>1
    <3>3. f[m + 1] = Cat(<<c>>, f[m + 1 + 1])
      BY <1>7, <2>8, <3>2, Zenon DEF UrlReads
    <3>4. QED BY <2>2, <2>4, <3>2, <3>3, Zenon
  <2>9. CASE \E h, l \in Nat : b = <<37, h, l>> /\ Hex(h) /\ Hex(l) /\ TwoHex(b, 2) = c
    <3>1. PICK h, l \in Nat : b = <<37, h, l>> /\ Hex(h) /\ Hex(l) /\ TwoHex(b, 2) = c
      BY <2>9
    <3>2. Len(b) = 3 /\ b[1] = 37 /\ b[2] = h /\ b[3] = l
      BY <3>1
    <3>3. /\ m + 1 \in 1 .. Len(e) /\ m + 1 + 2 <= Len(e)
          /\ e[m + 1] = 37 /\ e[m + 1 + 1] = h /\ e[m + 1 + 2] = l
          /\ Len(up[i]) = m + 3 /\ m + 1 + 3 = m + 3 + 1
      <4>1. m + 1 + 1 = m + 2 /\ m + 1 + 2 = m + 3
        OBVIOUS
      <4>2. QED BY <2>5, <2>6, <3>2, <4>1
    <3>4. TwoHex(e, m + 1 + 1) = TwoHex(b, 2)
      <4>1. m + 1 + 1 + 1 = m + 1 + 2 /\ 2 + 1 = 3
        OBVIOUS
      <4>2. QED BY <3>2, <3>3, <4>1, Zenon DEF TwoHex
    <3>5. f[m + 1] = Cat(<<TwoHex(e, m + 1 + 1)>>, f[m + 1 + 3])
      BY <1>7, <3>1, <3>3, Zenon DEF UrlReads
    <3>6. QED BY <2>2, <2>4, <3>1, <3>3, <3>4, <3>5, Zenon
  <2>10. \/ EncodeChar(c) = <<43>> /\ c = 32
         \/ EncodeChar(c) = <<c>> /\ c \notin {37, 43}
         \/ \E h, l \in Nat : /\ EncodeChar(c) = <<37, h, l>>
                              /\ Hex(h) /\ Hex(l)
                              /\ TwoHex(EncodeChar(c), 2) = c
    BY BytesRoundTrip
  <2>11. \/ b = <<43>> /\ c = 32
         \/ b = <<c>> /\ c \notin {37, 43}
         \/ \E h, l \in Nat : b = <<37, h, l>> /\ Hex(h) /\ Hex(l) /\ TwoHex(b, 2) = c
    BY <2>2, <2>10, Zenon
  <2>12. QED BY <2>7, <2>8, <2>9, <2>11, Zenon
<1>9. up[0] = <<>> /\ f[Len(up[n]) + 1] = <<>>
  BY <1>2, <1>6, <1>7, JoinsStep, Zenon DEF UrlReads
<1>10. f[1] = s
  BY <1>1, <1>8, <1>9, Unjoins, Zenon
<1>11. ASSUME NEW i \in DOMAIN s PROVE s[i] # -1
  <2>1. s[i] \in Byte
    OBVIOUS
  <2>2. -1 \notin Byte
    BY DEF Byte
  <2>3. QED BY <2>1, <2>2, Zenon
<1>12. QED BY <1>3, <1>7, <1>10, <1>11, Zenon

(* HttpConnection.cpp:88-133: whatever the text, of any length and any      *)
(* bytes, UrlDecode undoes UrlEncode and meets none of its asserts.         *)
THEOREM UrlRoundTripHolds == Spec => []UrlRoundTrip
<1>1. TextOK => UrlRoundTrip
  BY TextBytes, UrlRoundTrips DEF UrlRoundTrip
<1>2. QED BY <1>1, TextType, PTL

-----------------------------------------------------------------------------
(* The link of a file *)

(* What a browser makes of a byte of a link. *)
LinkChar(c) == IF c \in 33 .. 126 \ {34, 60, 62, 96, 123, 125} THEN <<c>> ELSE Percent(c)

LinkPieces(f, g, n, s) == /\ Joins(f, g, n) /\ BrowserTarget(s) = f[n]
                          /\ \A i \in 1 .. n : g[i] = LinkChar(s[i])

LEMMA BrowserTargetJoins ==
    ASSUME NEW n, NEW s \in Seq(Byte), n = Len(s), At(s, 35) = {}
    PROVE  \E f, g : LinkPieces(f, g, n, s)
<1> DEFINE m == Min(At(s, 35) \cup {Len(s) + 1}) - 1
           Step(e, i) == IF i = 0 THEN <<>>
                         ELSE e[i - 1] \o (IF s[i] \in 33 .. 126 \ {34, 60, 62, 96, 123, 125}
                                           THEN <<s[i]>> ELSE Percent(s[i]))
<1>1. m = n /\ m \in Nat
  <2>1. n \in Nat /\ {n + 1} \in SUBSET Nat /\ {n + 1} # {}
    OBVIOUS
  <2>2. Min({n + 1}) \in {n + 1}
    BY <2>1, MinIs, Zenon
  <2>3. At(s, 35) \cup {Len(s) + 1} = {n + 1}
    OBVIOUS
  <2>4. Min(At(s, 35) \cup {Len(s) + 1}) = n + 1
    BY <2>2, <2>3
  <2>5. QED BY <2>1, <2>4
<1>2. PICK g : g = [i \in 1 .. m |-> LinkChar(s[i])]
  OBVIOUS
<1>3. PICK f : Joins(f, g, m)
  <2> HIDE DEF m
  <2>1. QED BY <1>1, JoinsExists, Zenon
<1>4. \A i \in 1 .. m : g[i] = LinkChar(s[i])
  BY <1>2, Zenon
<1>5. ASSUME NEW e, NEW i \in 0 .. m
      PROVE  (IF i = 0 THEN <<>> ELSE Cat(e[i - 1], g[i])) = Step(e, i)
  <2>1. CASE i = 0
    BY <2>1, Zenon
  <2>2. CASE i # 0
    <3>1. i \in 1 .. m
      <4> HIDE DEF m
      <4>1. QED BY <1>1, <2>2
    <3>2. g[i] = LinkChar(s[i])
      BY <1>4, <3>1, Zenon
    <3>3. Cat(e[i - 1], g[i]) = e[i - 1] \o LinkChar(s[i])
      BY <3>2, Zenon DEF Cat
    <3>4. QED BY <2>2, <3>3, Zenon DEF LinkChar
  <2>3. QED BY <2>1, <2>2
<1>6. \A e : Joins(e, g, m) <=> e = [i \in 0 .. m |-> Step(e, i)]
  <2> HIDE DEF m, Step
  <2>1. QED BY <1>5, Zenon DEF Joins
<1>7. \E e : e = [i \in 0 .. m |-> Step(e, i)]
  <2> HIDE DEF m, Step
  <2>1. QED BY <1>3, <1>6, Zenon
<1>8. \E e : e = [i \in 0 .. m |-> Step(e, i)] /\ BrowserTarget(s) = e[m]
  BY <1>7, Zenon DEF BrowserTarget
<1>9. PICK e : Joins(e, g, m) /\ BrowserTarget(s) = e[m]
  <2> HIDE DEF m, Step
  <2>1. QED BY <1>6, <1>8, Zenon
<1>10. LinkPieces(e, g, m, s)
  BY <1>4, <1>9, Zenon DEF LinkPieces
<1> HIDE DEF m
<1>11. QED BY <1>1, <1>10, Zenon

(* The steps of storage::UrlDecode. *)
StorageReads(f, e) ==
    /\ f[Len(e) + 1] = <<>>
    /\ \A i \in 1 .. Len(e) :
          /\ e[i] = 37 /\ i + 2 <= Len(e) => f[i] = Cat(<<TwoHex(e, i + 1)>>, f[i + 3])
          /\ e[i] # 37 => f[i] = Cat(<<e[i]>>, f[i + 1])

LEMMA StorageDecodeReads ==
    ASSUME NEW e \in Seq(Nat)
    PROVE  \E f : StorageReads(f, e) /\ StorageUrlDecode(e) = f[1]
<1> DEFINE n == Len(e)
<1>1. n \in Nat
  OBVIOUS
<1> DEFINE Escape(i) == e[i] = 37 /\ i + 2 <= n
<1>2. PICK h : h = [i \in 1 .. n |-> IF Escape(i) THEN <<TwoHex(e, i + 1)>> ELSE <<e[i]>>]
  OBVIOUS
<1>3. PICK k : k = [i \in 1 .. n |-> IF Escape(i) THEN i + 3 ELSE i + 1]
  OBVIOUS
<1>4. \A i \in 1 .. n : i \notin {} => k[i] \in i + 1 .. n + 1
  <2> HIDE DEF n
  <2>1. QED BY <1>1, <1>3
<1>5. PICK f : Decodes(f, 1, n, h, k, {})
  BY <1>1, <1>4, DecodesExists, Zenon
<1> DEFINE Step(d, i) == IF i > n THEN <<>>
                         ELSE IF Escape(i) THEN <<TwoHex(e, i + 1)>> \o d[i + 3]
                         ELSE <<e[i]>> \o d[i + 1]
<1>6. ASSUME NEW d, NEW i \in 1 .. n + 1
      PROVE  (IF i > n THEN <<>> ELSE IF i \in {} THEN Aborts ELSE Cat(h[i], d[k[i]]))
             = Step(d, i)
  <2>1. CASE i > n
    BY <2>1, Zenon
  <2>2. CASE ~(i > n) /\ Escape(i)
    <3>1. i \in 1 .. n /\ h[i] = <<TwoHex(e, i + 1)>> /\ k[i] = i + 3
      BY <1>2, <1>3, <2>2
    <3>2. QED BY <2>2, <3>1, Zenon DEF Cat
  <2>3. CASE ~(i > n) /\ ~Escape(i)
    <3>1. i \in 1 .. n /\ h[i] = <<e[i]>> /\ k[i] = i + 1
      BY <1>2, <1>3, <2>3
    <3>2. QED BY <2>3, <3>1, Zenon DEF Cat
  <2>4. QED BY <2>1, <2>2, <2>3
<1>7. \A d : Decodes(d, 1, n, h, k, {}) <=> d = [i \in 1 .. n + 1 |-> Step(d, i)]
  <2> HIDE DEF Step
  <2>1. QED BY <1>6, Zenon DEF Decodes
<1>8. PICK d : d = [i \in 1 .. n + 1 |-> Step(d, i)] /\ StorageUrlDecode(e) = d[1]
  <2>1. \E d : d = [i \in 1 .. n + 1 |-> Step(d, i)]
    <3> HIDE DEF n, Step
    <3>1. QED BY <1>5, <1>7, Zenon
  <2>2. QED BY <2>1, Zenon DEF StorageUrlDecode
<1>9. /\ \A i \in 1 .. n : i \in 1 .. n + 1 /\ ~(i > n)
      /\ n + 1 \in 1 .. n + 1 /\ n + 1 > n
  BY <1>1
<1>10. \A i \in 1 .. n + 1 : d[i] = Step(d, i)
  <2> HIDE DEF Step
  <2>1. QED BY <1>8, Zenon
<1>11. ASSUME NEW i \in 1 .. n
       PROVE  /\ Escape(i) => d[i] = Cat(<<TwoHex(e, i + 1)>>, d[i + 3])
              /\ e[i] # 37 => d[i] = Cat(<<e[i]>>, d[i + 1])
  BY <1>9, <1>10, Zenon DEF Cat
<1>12. d[n + 1] = <<>>
  BY <1>9, <1>10, Zenon
<1>13. StorageReads(d, e)
  BY <1>11, <1>12, Zenon DEF StorageReads
<1>14. QED BY <1>8, <1>13, Zenon

LEMMA LinkLeadsBack ==
    ASSUME NEW s \in Seq(Byte), At(s, 37) = {}, At(s, 35) = {}
    PROVE  StorageUrlDecode(BrowserTarget(s)) = s
<1>1. PICK n \in Nat : n = Len(s)
  OBVIOUS
<1>2. PICK up, g : LinkPieces(up, g, n, s)
  BY <1>1, BrowserTargetJoins, Zenon
<1>3. /\ Joins(up, g, n) /\ BrowserTarget(s) = up[n]
      /\ \A i \in 1 .. n : g[i] = LinkChar(s[i])
  BY <1>2 DEF LinkPieces
<1>4. PICK e : e = BrowserTarget(s)
  OBVIOUS
<1>5. \A i \in 1 .. n : s[i] \in Byte /\ s[i] # 37
  BY <1>1 DEF At
<1>6. ASSUME NEW c \in Byte, c # 37
      PROVE  \/ LinkChar(c) = <<c>>
             \/ \E h, l \in Nat : LinkChar(c) = <<37, h, l>> /\ TwoHex(LinkChar(c), 2) = c
  BY PercentInverts, Zenon DEF LinkChar
<1>7. Strings(g, n, Nat)
  <2>1. ASSUME NEW c \in Byte, c # 37 PROVE LinkChar(c) \in Seq(Nat)
    <3>1. c \in Nat
      BY DEF Byte
    <3>2. CASE LinkChar(c) = <<c>>
      BY <3>1, <3>2
    <3>3. CASE \E h, l \in Nat : LinkChar(c) = <<37, h, l>>
      BY <3>3
    <3>4. QED BY <1>6, <2>1, <3>2, <3>3
  <2>2. QED BY <1>3, <1>5, <2>1, Zenon DEF Strings
<1>8. n \in 0 .. n /\ e = up[n] /\ e \in Seq(Nat)
  <2>1. n \in 0 .. n
    OBVIOUS
  <2>2. QED BY <1>3, <1>4, <1>7, <2>1, JoinsType, Zenon
<1>9. PICK f : StorageReads(f, e) /\ StorageUrlDecode(e) = f[1]
  BY <1>8, StorageDecodeReads, Zenon
<1>10. ASSUME NEW i \in 1 .. n
       PROVE  f[Len(up[i - 1]) + 1] = Cat(<<s[i]>>, f[Len(up[i]) + 1])
  <2>1. PICK b : b = g[i]
    OBVIOUS
  <2>2. PICK c \in Byte : c = s[i] /\ b = LinkChar(c) /\ c # 37
    BY <1>3, <1>5, <2>1
  <2>3. up[i - 1] \in Seq(Nat) /\ g[i] \in Seq(Nat) /\ IsPiece(up, g, n, i)
    BY <1>3, <1>7, JoinsPlaces, Zenon
  <2>4. PICK m \in Nat : m = Len(up[i - 1])
    BY <2>3
  <2>5. /\ m + Len(b) <= Len(e) /\ Len(up[i]) = m + Len(b)
        /\ \A r \in 1 .. Len(b) : e[m + r] = b[r]
    BY <1>8, <2>1, <2>3, <2>4, Zenon DEF IsPiece, Holds
  <2>6. Len(e) \in Nat
    BY <1>8
  <2>7. CASE b = <<c>>
    <3>1. Len(b) = 1 /\ b[1] = c
      BY <2>7
    <3>2. m + 1 \in 1 .. Len(e) /\ e[m + 1] = c /\ Len(up[i]) = m + 1
      BY <2>5, <2>6, <3>1
    <3>3. f[m + 1] = Cat(<<c>>, f[m + 1 + 1])
      BY <1>9, <2>2, <3>2, Zenon DEF StorageReads
    <3>4. QED BY <2>2, <2>4, <3>2, <3>3, Zenon
  <2>8. CASE \E h, l \in Nat : b = <<37, h, l>> /\ TwoHex(b, 2) = c
    <3>1. PICK h, l \in Nat : b = <<37, h, l>> /\ TwoHex(b, 2) = c
      BY <2>8
    <3>2. Len(b) = 3 /\ b[1] = 37 /\ b[2] = h /\ b[3] = l
      BY <3>1
    <3>3. /\ m + 1 \in 1 .. Len(e) /\ m + 1 + 2 <= Len(e)
          /\ e[m + 1] = 37 /\ e[m + 1 + 1] = h /\ e[m + 1 + 2] = l
          /\ Len(up[i]) = m + 3 /\ m + 1 + 3 = m + 3 + 1
      <4>1. m + 1 + 1 = m + 2 /\ m + 1 + 2 = m + 3
        OBVIOUS
      <4>2. QED BY <2>5, <2>6, <3>2, <4>1
    <3>4. TwoHex(e, m + 1 + 1) = TwoHex(b, 2)
      <4>1. m + 1 + 1 + 1 = m + 1 + 2 /\ 2 + 1 = 3
        OBVIOUS
      <4>2. QED BY <3>2, <3>3, <4>1, Zenon DEF TwoHex
    <3>5. f[m + 1] = Cat(<<TwoHex(e, m + 1 + 1)>>, f[m + 1 + 3])
      BY <1>9, <3>3, Zenon DEF StorageReads
    <3>6. QED BY <2>2, <2>4, <3>1, <3>3, <3>4, <3>5, Zenon
  <2>9. QED BY <1>6, <2>2, <2>7, <2>8, Zenon
<1>11. up[0] = <<>> /\ f[Len(up[n]) + 1] = <<>>
  BY <1>3, <1>8, <1>9, JoinsStep, Zenon DEF StorageReads
<1>12. f[1] = s
  BY <1>1, <1>10, <1>11, Unjoins, Zenon
<1>13. QED BY <1>4, <1>9, <1>12, Zenon

(* Util.h:41 at Service.cpp:248: whatever the name of a file, of any length *)
(* and any characters, if it comes through the page as it is its button on   *)
(* the list page leads to its url.                                           *)
THEOREM LinksFindFiles == Spec => []LinkFindsFile
<1>1. TextOK => LinkFindsFile
  <2> SUFFICES ASSUME TextOK, Linkable(text)
               PROVE  StorageUrlDecode(BrowserTarget(text)) = text
    BY DEF LinkFindsFile
  <2>1. At(text, 37) = {} /\ At(text, 35) = {}
    BY DEF Linkable, At
  <2>2. QED BY <2>1, TextBytes, LinkLeadsBack
<1>2. QED BY <1>1, TextType, PTL

-----------------------------------------------------------------------------
(* base64_decode of a whole string *)

ChunkPieces(f, g, n, e) == /\ Joins(f, g, n) /\ DecodeLine(e) = f[n]
                           /\ \A i \in 1 .. n : g[i] = Chunk(e, 4 * (i - 1))

LEMMA DecodeLineJoins ==
    ASSUME NEW e, Len(e) \in Nat,
           \A i \in 0 .. (Len(e) + 3) \div 4 - 1 : ~BadChunk(e, 4 * i)
    PROVE  \E f, g : ChunkPieces(f, g, (Len(e) + 3) \div 4, e)
<1> DEFINE n == (Len(e) + 3) \div 4
           Step(d, i) == IF i = 0 THEN <<>> ELSE d[i - 1] \o Chunk(e, 4 * (i - 1))
<1>1. n \in Nat
  OBVIOUS
<1>2. PICK g : g = [i \in 1 .. n |-> Chunk(e, 4 * (i - 1))]
  OBVIOUS
<1>3. PICK f : Joins(f, g, n)
  <2> HIDE DEF n
  <2>1. QED BY <1>1, JoinsExists, Zenon
<1>4. \A i \in 1 .. n : g[i] = Chunk(e, 4 * (i - 1))
  BY <1>2, Zenon
<1>5. ASSUME NEW d, NEW i \in 0 .. n
      PROVE  (IF i = 0 THEN <<>> ELSE Cat(d[i - 1], g[i])) = Step(d, i)
  <2>1. CASE i = 0
    BY <2>1, Zenon
  <2>2. CASE i # 0
    <3>1. i \in 1 .. n
      <4> HIDE DEF n
      <4>1. QED BY <1>1, <2>2
    <3>2. QED BY <1>4, <2>2, <3>1, Zenon DEF Cat
  <2>3. QED BY <2>1, <2>2
<1>6. \A d : Joins(d, g, n) <=> d = [i \in 0 .. n |-> Step(d, i)]
  <2> HIDE DEF n, Step
  <2>1. QED BY <1>5, Zenon DEF Joins
<1>7. \E d : d = [i \in 0 .. n |-> Step(d, i)]
  <2> HIDE DEF n, Step
  <2>1. QED BY <1>3, <1>6, Zenon
<1>8. \E d : d = [i \in 0 .. n |-> Step(d, i)] /\ DecodeLine(e) = d[n]
  BY <1>7, Zenon DEF DecodeLine
<1>9. PICK d : Joins(d, g, n) /\ DecodeLine(e) = d[n]
  <2> HIDE DEF n, Step
  <2>1. QED BY <1>6, <1>8, Zenon
<1>10. ChunkPieces(d, g, n, e)
  BY <1>4, <1>9, Zenon DEF ChunkPieces
<1>11. QED BY <1>10, Zenon

(* The bytes of a group are the next three of the string, or the rest.      *)
LEMMA GroupIsNext ==
    ASSUME NEW s \in Seq(Byte), NEW g \in Nat, NEW b \in Nat, 3 * g < Len(s),
           b = IF 3 * g + 3 <= Len(s) THEN 3 * g + 3 ELSE Len(s)
    PROVE  GroupBytes(s, g) = SubSeq(s, 3 * g + 1, b)
<1>1. PICK q \in Nat, n \in Nat : q = 3 * g /\ n = Len(s)
  OBVIOUS
<1>2. \A i \in q + 1 .. b : s[i] \in Byte
  BY <1>1
<1>3. PICK t : t = SubSeq(s, q + 1, b)
  OBVIOUS
<1>4. /\ t \in Seq(Byte) /\ Len(t) = b - q
      /\ \A i \in 1 .. b - q : t[i] = s[q + i]
  <2>1. q + 1 \in Int /\ b \in Int /\ q + 1 <= b
    BY <1>1
  <2>2. /\ t \in Seq(Byte) /\ Len(t) = IF q + 1 <= b THEN b - (q + 1) + 1 ELSE 0
        /\ \A i \in 1 .. b - (q + 1) + 1 : t[i] = s[q + 1 + i - 1]
    BY <1>2, <1>3, <2>1, SubSeqProperties
  <2>3. b - (q + 1) + 1 = b - q /\ \A i \in 1 .. b - q : q + 1 + i - 1 = q + i
    BY <2>1
  <2>4. QED BY <2>1, <2>2, <2>3
<1>5. CASE q + 2 < n
  <2>1. b - q = 3
    BY <1>1, <1>5
  <2>2. Len(t) = 3 /\ t[1] = s[q + 1] /\ t[2] = s[q + 2] /\ t[3] = s[q + 3]
    BY <1>4, <2>1
  <2>3. t = <<s[q + 1], s[q + 2], s[q + 3]>>
    BY <1>4, <2>2
  <2>4. QED BY <1>1, <1>3, <1>5, <2>3, Zenon DEF GroupBytes
<1>6. CASE q + 1 < n /\ ~(q + 2 < n)
  <2>1. b - q = 2
    BY <1>1, <1>6
  <2>2. Len(t) = 2 /\ t[1] = s[q + 1] /\ t[2] = s[q + 2]
    BY <1>4, <2>1
  <2>3. t = <<s[q + 1], s[q + 2]>>
    BY <1>4, <2>2
  <2>4. QED BY <1>1, <1>3, <1>6, <2>3, Zenon DEF GroupBytes
<1>7. CASE ~(q + 1 < n)
  <2>1. b - q = 1 /\ ~(q + 2 < n)
    BY <1>1, <1>7
  <2>2. Len(t) = 1 /\ t[1] = s[q + 1]
    BY <1>4, <2>1
  <2>3. t = <<s[q + 1]>>
    BY <1>4, <2>2
  <2>4. QED BY <1>1, <1>3, <1>7, <2>1, <2>3, Zenon DEF GroupBytes
<1>8. QED BY <1>5, <1>6, <1>7

(* A string that has every group of an encoding is decoded to what was      *)
(* encoded.                                                                 *)
LEMMA GroupsDecode ==
    ASSUME NEW e, NEW s \in Seq(Byte), NEW url \in BOOLEAN, Len(e) \in Nat,
           (Len(e) + 3) \div 4 = (Len(s) + 2) \div 3,
           \A g \in Nat : 3 * g < Len(s) => HasGroup(e, s, url, g)
    PROVE  DecodeLine(e) = s
<1>1. PICK n \in Nat, L \in Nat : n = (Len(e) + 3) \div 4 /\ L = Len(s) /\ n = (L + 2) \div 3
  OBVIOUS
<1>2. \A g \in Nat : g < n <=> 3 * g < L
  BY <1>1
<1>3. ASSUME NEW g \in Nat, g < n
      PROVE  ~BadChunk(e, 4 * g) /\ Chunk(e, 4 * g) = GroupBytes(s, g)
  <2>1. 3 * g < Len(s) /\ HasGroup(e, s, url, g)
    BY <1>1, <1>2, <1>3
  <2>2. QED BY <2>1, GroupDecodes, Zenon
<1>4. PICK f, h : ChunkPieces(f, h, n, e)
  <2>1. \A i \in 0 .. (Len(e) + 3) \div 4 - 1 : i \in Nat /\ i < n
    BY <1>1
  <2>2. \A i \in 0 .. (Len(e) + 3) \div 4 - 1 : ~BadChunk(e, 4 * i)
    BY <1>3, <2>1, Zenon
  <2>3. QED BY <1>1, <2>2, DecodeLineJoins, Zenon
<1>5. /\ Joins(f, h, n) /\ DecodeLine(e) = f[n]
      /\ \A i \in 1 .. n : h[i] = Chunk(e, 4 * (i - 1))
  BY <1>4 DEF ChunkPieces
<1> DEFINE End(i) == IF 3 * i <= L THEN 3 * i ELSE L
           S == {i \in Nat : i <= n => f[i] = SubSeq(s, 1, End(i))}
<1>6. 0 \in S
  <2>1. f[0] = <<>>
    BY <1>5, JoinsStep, Zenon
  <2>2. SubSeq(s, 1, 0) = <<>>
    OBVIOUS
  <2>3. End(0) = 0
    OBVIOUS
  <2>4. QED BY <2>1, <2>2, <2>3
<1>7. ASSUME NEW i \in S PROVE i + 1 \in S
  <2> SUFFICES ASSUME i + 1 <= n PROVE f[i + 1] = SubSeq(s, 1, End(i + 1))
    BY i + 1 \in Nat
  <2>k. PICK k \in 1 .. n : k = i + 1 /\ k - 1 = i /\ i \in Nat /\ i < n /\ i <= n
    OBVIOUS
  <2>l. 3 * i < L
    BY <1>2, <2>k
  <2>m. 3 * i < Len(s)
    BY <1>1, <2>l
  <2>n. End(i) = 3 * i /\ End(i + 1) = IF 3 * i + 3 <= L THEN 3 * i + 3 ELSE L
    BY <2>l
  <2>1. i \in Nat /\ i < n /\ 3 * i < Len(s) /\ End(i) = 3 * i
    BY <2>k, <2>m, <2>n
  <2>2. f[i] = SubSeq(s, 1, 3 * i)
    <3>1. f[i] = SubSeq(s, 1, End(i))
      BY <2>k
    <3>2. QED BY <2>n, <3>1, Zenon
  <2>3. f[i + 1] = Cat(f[i], h[i + 1]) /\ h[i + 1] = GroupBytes(s, i)
    <3>1. f[k] = Cat(f[k - 1], h[k])
      BY <1>5, JoinsStep, Zenon
    <3>2. h[k] = Chunk(e, 4 * (k - 1))
      BY <1>5, Zenon
    <3>3. QED BY <1>3, <2>k, <3>1, <3>2, Zenon
  <2>4. PICK b \in Nat : b = IF 3 * i + 3 <= L THEN 3 * i + 3 ELSE L
    OBVIOUS
  <2>5. b = (IF 3 * i + 3 <= Len(s) THEN 3 * i + 3 ELSE Len(s)) /\ b = End(i + 1)
    BY <1>1, <2>4, <2>n, Zenon
  <2>6. GroupBytes(s, i) = SubSeq(s, 3 * i + 1, b)
    BY <2>1, <2>5, GroupIsNext, Zenon
  <2>7. SubSeq(s, 1, 3 * i) \o SubSeq(s, 3 * i + 1, b) = SubSeq(s, 1, b)
    <3>1. 1 \in 1 .. Len(s) + 1 /\ 3 * i \in 1 - 1 .. Len(s) /\ b \in 3 * i .. Len(s)
      BY <1>1, <2>4, <2>l
    <3>2. QED BY <3>1, ConcatAdjacentSubSeq, Zenon
  <2>8. QED BY <2>2, <2>3, <2>5, <2>6, <2>7, Zenon DEF Cat
<1>8. S = Nat
  <2> HIDE DEF S
  <2>1. S \in SUBSET Nat
    BY DEF S
  <2>2. QED BY <1>6, <1>7, <2>1, SetInduction
<1>9. f[n] = SubSeq(s, 1, End(n))
  <2>1. n \in S /\ n <= n
    <3> HIDE DEF S
    <3>1. QED BY <1>8
  <2> HIDE DEF End
  <2>2. QED BY <2>1
<1>10. End(n) = Len(s)
  <2>1. 3 * n >= L
    BY <1>1
  <2>2. End(n) = L
    BY <2>1
  <2>3. QED BY <1>1, <2>2
<1>11. SubSeq(s, 1, Len(s)) = s
  BY SubSeqFull, Zenon
<1> HIDE DEF End, S
<1>12. QED BY <1>5, <1>9, <1>10, <1>11, Zenon

(* No digit of an encoding is padding, and no character of it a line break. *)
LEMMA EncodedChars ==
    ASSUME NEW s \in Seq(Byte), NEW url \in BOOLEAN, NEW e, NEW n,
           e = Encode(s, url), n = 4 * ((Len(s) + 2) \div 3)
    PROVE  /\ n \in Nat /\ Len(e) = n /\ e \in Seq(Nat)
           /\ \A j \in 1 .. n : /\ e[j] # 10
                                /\ e[j] = Pad(url) <=> ~(j <= (8 * Len(s) + 5) \div 6)
<1>1. Len(s) \in Nat /\ n \in Nat /\ n = ((Len(s) + 2) \div 3) * 4
  OBVIOUS
<1>2. PICK digits \in Nat : digits = (8 * Len(s) + 5) \div 6
  BY <1>1
<1>3. e = [j \in 1 .. n |-> IF j <= digits THEN Char(Sextet(s, j - 1), url) ELSE Pad(url)]
  BY <1>1, <1>2, EncodeIs
<1>4. \A i \in Nat : Sextet(s, i) \in 0 .. 63
  BY SextetType
<1>5. ASSUME NEW j \in 1 .. n
      PROVE  e[j] \in Nat /\ e[j] # 10 /\ (e[j] = Pad(url) <=> ~(j <= digits))
  <2>1. CASE j <= digits
    <3>1. PICK k \in 0 .. 63 : k = Sextet(s, j - 1)
      <4>1. j - 1 \in Nat
        OBVIOUS
      <4>2. QED BY <1>4, <4>1, Zenon
    <3>2. PICK c : c = Char(k, url)
      OBVIOUS
    <3>3. Valid(c) /\ c \notin {61, 46}
      BY <3>2, CharPos, Zenon
    <3>4. c \in Nat /\ c # 10 /\ c # Pad(url)
      BY <3>3 DEF Valid, Pad
    <3>5. e[j] = c
      BY <1>3, <2>1, <3>1, <3>2, Zenon
    <3>6. QED BY <2>1, <3>4, <3>5
  <2>2. CASE ~(j <= digits)
    <3>1. e[j] = Pad(url)
      BY <1>3, <2>2, Zenon
    <3>2. QED BY <2>2, <3>1 DEF Pad
  <2>3. QED BY <2>1, <2>2
<1>6. Len(e) = n
  BY <1>1, <1>3
<1>7. e \in Seq(Nat)
  <2>1. e = [j \in 1 .. n |-> e[j]]
    BY <1>3, Zenon
  <2>2. \A j \in 1 .. n : e[j] \in Nat
    BY <1>5
  <2>3. [j \in 1 .. n |-> e[j]] \in Seq(Nat)
    BY <1>1, <2>2
  <2>4. QED BY <2>1, <2>3, Zenon
<1>8. QED BY <1>1, <1>2, <1>5, <1>6, <1>7

WithoutPieces(f, g, n, e, c) ==
    /\ Joins(f, g, n) /\ Without(e, c) = f[n]
    /\ \A i \in 1 .. n : g[i] = IF e[i] = c THEN <<>> ELSE <<e[i]>>

LEMMA WithoutJoins ==
    ASSUME NEW e, NEW c, Len(e) \in Nat
    PROVE  \E f, g : WithoutPieces(f, g, Len(e), e, c)
<1> DEFINE n == Len(e)
           Step(d, i) == IF i = 0 THEN <<>>
                         ELSE d[i - 1] \o (IF e[i] = c THEN <<>> ELSE <<e[i]>>)
           Kept(i) == IF e[i] = c THEN <<>> ELSE <<e[i]>>
<1>2. PICK g : g = [i \in 1 .. n |-> Kept(i)]
  OBVIOUS
<1>3. PICK f : Joins(f, g, n)
  <2> HIDE DEF n
  <2>1. QED BY n \in Nat, JoinsExists, Zenon DEF n
<1>4. \A i \in 1 .. n : g[i] = Kept(i)
  <2> HIDE DEF Kept
  <2>1. QED BY <1>2, Zenon
<1>5. ASSUME NEW d, NEW i \in 0 .. n
      PROVE  (IF i = 0 THEN <<>> ELSE Cat(d[i - 1], g[i])) = Step(d, i)
  <2>1. CASE i = 0
    BY <2>1, Zenon
  <2>2. CASE i # 0
    <3>1. i \in 1 .. n
      BY <2>2
    <3>2. Cat(d[i - 1], g[i]) = d[i - 1] \o Kept(i)
      <4> HIDE DEF Kept
      <4>1. QED BY <1>4, <3>1, Zenon DEF Cat
    <3>3. QED BY <2>2, <3>2, Zenon
  <2>3. QED BY <2>1, <2>2
<1>6. \A d : Joins(d, g, n) <=> d = [i \in 0 .. n |-> Step(d, i)]
  <2> HIDE DEF n, Step
  <2>1. QED BY <1>5, Zenon DEF Joins
<1>7. \E d : d = [i \in 0 .. n |-> Step(d, i)]
  <2> HIDE DEF n, Step
  <2>1. QED BY <1>3, <1>6, Zenon
<1>8. \E d : d = [i \in 0 .. n |-> Step(d, i)] /\ Without(e, c) = d[n]
  BY <1>7, Zenon DEF Without
<1>9. PICK d : Joins(d, g, n) /\ Without(e, c) = d[n]
  <2> HIDE DEF n, Step
  <2>1. QED BY <1>6, <1>8, Zenon
<1>10. WithoutPieces(d, g, n, e, c)
  BY <1>4, <1>9, Zenon DEF WithoutPieces
<1>11. QED BY <1>10, Zenon

(* q counts the bytes of e that are not c, and d has the q[i]-th of them at *)
(* q[i].                                                                    *)
Counts(q, e, c, d) ==
    /\ Len(e) \in Nat /\ q[0] = 0 /\ q[Len(e)] = Len(d)
    /\ \A i \in 0 .. Len(e) : q[i] \in Nat
    /\ \A i \in 1 .. Len(e) :
          IF e[i] = c THEN q[i] = q[i - 1]
          ELSE q[i] \in 1 .. Len(d) /\ q[i] = q[i - 1] + 1 /\ d[q[i]] = e[i]

(* Then d is e without every c. *)
LEMMA WithoutIs ==
    ASSUME NEW X, NEW c, NEW q, NEW e, NEW d \in Seq(X), Counts(q, e, c, d)
    PROVE  Without(e, c) = d
<1>c. /\ Len(e) \in Nat /\ q[0] = 0 /\ q[Len(e)] = Len(d)
      /\ \A i \in 0 .. Len(e) : q[i] \in Nat
      /\ \A i \in 1 .. Len(e) :
            IF e[i] = c THEN q[i] = q[i - 1]
            ELSE q[i] \in 1 .. Len(d) /\ q[i] = q[i - 1] + 1 /\ d[q[i]] = e[i]
  BY Zenon DEF Counts
<1>1. PICK n \in Nat : n = Len(e)
  BY <1>c, Zenon
<1>2. PICK f, g : WithoutPieces(f, g, n, e, c)
  BY <1>1, <1>c, WithoutJoins, Zenon
<1>3. /\ Joins(f, g, n) /\ Without(e, c) = f[n]
      /\ \A i \in 1 .. n : g[i] = IF e[i] = c THEN <<>> ELSE <<e[i]>>
  BY <1>2, Zenon DEF WithoutPieces
<1> DEFINE S == {i \in Nat : i <= n => f[i] = SubSeq(d, 1, q[i])}
<1>4. 0 \in S
  <2>1. f[0] = <<>>
    BY <1>3, JoinsStep, Zenon
  <2>2. SubSeq(d, 1, 0) = <<>>
    OBVIOUS
  <2>3. f[0] = SubSeq(d, 1, q[0])
    BY <1>c, <2>1, <2>2, Zenon
  <2>4. QED BY <2>3
<1>5. ASSUME NEW j \in S PROVE j + 1 \in S
  <2> SUFFICES ASSUME j + 1 <= n PROVE f[j + 1] = SubSeq(d, 1, q[j + 1])
    BY j + 1 \in Nat
  <2>1. PICK i \in 1 .. n : i = j + 1 /\ i - 1 = j /\ j \in Nat /\ j <= n
    OBVIOUS
  <2>2. f[j] = SubSeq(d, 1, q[j])
    BY <2>1
  <2>3. f[i] = Cat(f[i - 1], g[i])
    BY <1>3, JoinsStep, Zenon
  <2>4. CASE e[i] = c
    <3>1. q[i] = q[i - 1] /\ g[i] = <<>>
      BY <1>1, <1>3, <1>c, <2>4, Zenon
    <3>2. f[i] = SubSeq(d, 1, q[i]) \o <<>>
      BY <2>1, <2>2, <2>3, <3>1, Zenon DEF Cat
    <3>3. PICK t : t = SubSeq(d, 1, q[i])
      OBVIOUS
    <3>4. f[i - 1] \in Seq(X)
      <4>1. Strings(g, n, X)
        <5>1. ASSUME NEW k \in 1 .. n PROVE g[k] \in Seq(X)
          <6>1. CASE e[k] = c
            <7>1. g[k] = <<>>
              BY <1>3, <6>1, Zenon
            <7>2. <<>> \in Seq(X)
              OBVIOUS
            <7>3. QED BY <7>1, <7>2, Zenon
          <6>2. CASE e[k] # c
            <7>1. g[k] = <<e[k]>>
              BY <1>3, <6>2, Zenon
            <7>2. q[k] \in 1 .. Len(d) /\ d[q[k]] = e[k]
              BY <1>1, <1>c, <6>2, Zenon
            <7>3. e[k] \in X
              <8>1. \A p \in 1 .. Len(d) : d[p] \in X
                OBVIOUS
              <8>2. QED BY <7>2, <8>1, Zenon
            <7>4. <<e[k]>> \in Seq(X)
              BY <7>3
            <7>5. QED BY <7>1, <7>4, Zenon
          <6>3. QED BY <6>1, <6>2
        <5>2. QED BY <5>1, Zenon DEF Strings
      <4>2. i - 1 \in 0 .. n
        OBVIOUS
      <4>3. QED BY <1>3, <4>1, <4>2, JoinsType, Zenon
    <3>5. t \in Seq(X)
      BY <2>1, <2>2, <3>1, <3>3, <3>4, Zenon
    <3>6. t \o <<>> = t
      BY <3>5, ConcatEmptySeq, Zenon
    <3>7. QED BY <2>1, <3>2, <3>3, <3>6, Zenon
  <2>5. CASE e[i] # c
    <3>1. q[i] \in 1 .. Len(d) /\ q[i] = q[i - 1] + 1 /\ d[q[i]] = e[i] /\ g[i] = <<e[i]>>
      BY <1>1, <1>3, <1>c, <2>5, Zenon
    <3>2. PICK b \in 1 .. Len(d) : b = q[i] /\ 1 \in 1 .. Len(d) /\ b \in 1 .. Len(d)
      BY <3>1
    <3>3. q[i - 1] = b - 1
      <4>1. f[i - 1] = SubSeq(d, 1, q[i - 1])
        BY <2>1, <2>2, Zenon
      <4>2. i - 1 \in 0 .. n
        OBVIOUS
      <4>3. PICK a \in Nat : a = q[i - 1]
        BY <1>1, <1>c, <4>2, Zenon
      <4>4. b = a + 1
        BY <3>1, <3>2, <4>3, Zenon
      <4>5. a = b - 1
        BY <4>4
      <4>6. QED BY <4>3, <4>5, Zenon
    <3>4. SubSeq(d, 1, b) = SubSeq(d, 1, b - 1) \o <<d[b]>>
      BY <3>2, SubSeqRecursiveSecond, Zenon
    <3>5. QED BY <2>1, <2>2, <2>3, <3>1, <3>2, <3>3, <3>4, Zenon DEF Cat
  <2>6. QED BY <2>4, <2>5
<1>6. S = Nat
  <2> HIDE DEF S
  <2>1. S \in SUBSET Nat
    BY DEF S
  <2>2. QED BY <1>4, <1>5, <2>1, SetInduction
<1>7. f[n] = SubSeq(d, 1, q[n])
  <2>1. \A i \in S : i <= n => f[i] = SubSeq(d, 1, q[i])
    OBVIOUS
  <2> HIDE DEF S
  <2>2. n \in S /\ n <= n
    BY <1>6
  <2>3. QED BY <2>1, <2>2, Zenon
<1>8. SubSeq(d, 1, Len(d)) = d
  BY SubSeqFull, Zenon
<1>9. QED BY <1>1, <1>3, <1>c, <1>7, <1>8, Zenon

LEMMA HeadOf ==
    ASSUME NEW e \in Seq(Nat), NEW m \in 0 .. Len(e)
    PROVE  \E d \in Seq(Nat) : /\ d = SubSeq(e, 1, m) /\ Len(d) = m
                                /\ \A j \in 1 .. m : d[j] = e[j]
<1>1. PICK d : d = SubSeq(e, 1, m)
  OBVIOUS
<1>2. d = [j \in 1 .. m |-> e[j]]
  BY <1>1
<1>3. \A j \in 1 .. m : e[j] \in Nat
  OBVIOUS
<1>4. d \in Seq(Nat) /\ Len(d) = m /\ \A j \in 1 .. m : d[j] = e[j]
  BY <1>2, <1>3
<1>5. QED BY <1>1, <1>4

(* A whole encoding is decoded, with its padding ... *)
LEMMA PaddedDecodes ==
    ASSUME NEW s \in Seq(Byte), NEW url \in BOOLEAN
    PROVE  DecodeLine(Encode(s, url)) = s
<1>e. PICK e : e = Encode(s, url)
  OBVIOUS
<1>n. PICK n \in Nat : n = 4 * ((Len(s) + 2) \div 3)
  OBVIOUS
<1>1. e = Encode(s, url) /\ n = 4 * ((Len(s) + 2) \div 3)
  BY <1>e, <1>n
<1>2. Len(e) = n
  BY <1>1, EncodedChars
<1>3. Len(e) \in Nat /\ (Len(e) + 3) \div 4 = (Len(s) + 2) \div 3
  BY <1>1, <1>2
<1>4. \A g \in Nat : 3 * g < Len(s) => HasGroup(e, s, url, g)
  BY <1>1, EncodingHasGroup, Zenon
<1>5. DecodeLine(e) = s
  BY <1>3, <1>4, GroupsDecode, Zenon
<1>6. QED BY <1>1, <1>5, Zenon

(* What is left of an encoding without its padding. *)
Unpadded(e, s) == SubSeq(e, 1, (8 * Len(s) + 5) \div 6)

LEMMA UnpaddedIs ==
    ASSUME NEW s \in Seq(Byte), NEW url \in BOOLEAN, NEW e, e = Encode(s, url)
    PROVE  Without(e, Pad(url)) = Unpadded(e, s)
<1>1. PICK n \in Nat, m \in Nat : n = 4 * ((Len(s) + 2) \div 3) /\ m = (8 * Len(s) + 5) \div 6
  OBVIOUS
<1>2. /\ Len(e) = n /\ e \in Seq(Nat)
      /\ \A j \in 1 .. n : e[j] = Pad(url) <=> ~(j <= m)
  BY <1>1, EncodedChars
<1>3. m <= n
  BY <1>1
<1>4. PICK d \in Seq(Nat) : d = SubSeq(e, 1, m) /\ Len(d) = m /\ \A j \in 1 .. m : d[j] = e[j]
  <2>1. m \in 0 .. Len(e)
    BY <1>2, <1>3
  <2>2. QED BY <1>2, <2>1, HeadOf, Zenon
<1>5. PICK q : q = [i \in 0 .. n |-> IF i <= m THEN i ELSE m]
  OBVIOUS
<1>6. q[0] = 0 /\ q[n] = m /\ \A i \in 0 .. n : q[i] \in Nat
  BY <1>3, <1>5
<1>7. ASSUME NEW i \in 1 .. n
      PROVE  IF e[i] = Pad(url) THEN q[i] = q[i - 1]
             ELSE q[i] \in 1 .. m /\ q[i] = q[i - 1] + 1 /\ d[q[i]] = e[i]
  <2>1. i \in 0 .. n /\ i - 1 \in 0 .. n
    OBVIOUS
  <2>2. q[i] = (IF i <= m THEN i ELSE m) /\ q[i - 1] = IF i - 1 <= m THEN i - 1 ELSE m
    BY <1>5, <2>1
  <2>3. CASE i <= m
    <3>1. q[i] = i /\ q[i - 1] = i - 1 /\ i = i - 1 + 1 /\ i \in 1 .. m
      BY <2>2, <2>3
    <3>2. e[i] # Pad(url) /\ d[i] = e[i]
      BY <1>2, <1>4, <2>3, <3>1
    <3>3. QED BY <3>1, <3>2, Zenon
  <2>4. CASE ~(i <= m)
    <3>1. q[i] = m /\ q[i - 1] = m
      BY <2>2, <2>4
    <3>2. e[i] = Pad(url)
      BY <1>2, <2>4, Zenon
    <3>3. QED BY <3>1, <3>2, Zenon
  <2>5. QED BY <2>3, <2>4, Zenon
<1>8. Without(e, Pad(url)) = d
  <2>1. Len(e) \in Nat /\ q[Len(e)] = Len(d) /\ \A i \in 0 .. Len(e) : q[i] \in Nat
    BY <1>2, <1>4, <1>6, Zenon
  <2>2. \A i \in 1 .. Len(e) :
           IF e[i] = Pad(url) THEN q[i] = q[i - 1]
           ELSE q[i] \in 1 .. Len(d) /\ q[i] = q[i - 1] + 1 /\ d[q[i]] = e[i]
    BY <1>2, <1>4, <1>7, Zenon
  <2>3. Counts(q, e, Pad(url), d)
    BY <1>6, <2>1, <2>2, Zenon DEF Counts
  <2>4. QED BY <2>3, WithoutIs, Zenon
<1>9. QED BY <1>1, <1>4, <1>8, Zenon DEF Unpadded

(* ... and without it. *)
LEMMA UnpaddedDecodes ==
    ASSUME NEW s \in Seq(Byte), NEW url \in BOOLEAN
    PROVE  DecodeLine(Without(Encode(s, url), Pad(url))) = s
<1>e. PICK e : e = Encode(s, url)
  OBVIOUS
<1>L. PICK L \in Nat : L = Len(s)
  OBVIOUS
<1>1. e = Encode(s, url) /\ L = Len(s)
  BY <1>e, <1>L
<1>2. PICK n \in Nat, m \in Nat : n = 4 * ((L + 2) \div 3) /\ m = (8 * L + 5) \div 6
  OBVIOUS
<1>3. Len(e) = n /\ e \in Seq(Nat)
  BY <1>1, <1>2, EncodedChars
<1>4. m <= n
  BY <1>2
<1>5. PICK d \in Seq(Nat) : d = SubSeq(e, 1, m) /\ Len(d) = m /\ \A j \in 1 .. m : d[j] = e[j]
  <2>1. m \in 0 .. Len(e)
    BY <1>3, <1>4
  <2>2. QED BY <1>3, <2>1, HeadOf, Zenon
<1>6. Without(e, Pad(url)) = d
  BY <1>1, <1>2, <1>5, UnpaddedIs, Zenon DEF Unpadded
<1>7. Len(d) \in Nat /\ (Len(d) + 3) \div 4 = (Len(s) + 2) \div 3
  <2>1. (m + 3) \div 4 = (L + 2) \div 3
    BY <1>2
  <2>2. QED BY <1>1, <1>5, <2>1, Zenon
<1>8. ASSUME NEW g \in Nat, 3 * g < Len(s) PROVE HasGroup(d, s, url, g)
  <2>1. /\ e[4 * g + 1] = GroupChar(s, 3 * g, 0, url)
        /\ e[4 * g + 2] = GroupChar(s, 3 * g, 1, url)
        /\ e[4 * g + 3] = GroupChar(s, 3 * g, 2, url)
        /\ e[4 * g + 4] = GroupChar(s, 3 * g, 3, url)
    BY <1>1, <1>8, EncodedGroup
  <2>2. 3 * g < L
    BY <1>1, <1>8
  <2>3. /\ 4 * g + 1 < m /\ 4 * g + 1 \in 1 .. m /\ 4 * g + 2 \in 1 .. m
        /\ 3 * g + 1 < L <=> 4 * g + 2 < m
        /\ 3 * g + 2 < L <=> 4 * g + 3 < m
        /\ 4 * g + 2 < m => 4 * g + 3 \in 1 .. m
        /\ 4 * g + 3 < m => 4 * g + 4 \in 1 .. m
    BY <1>2, <2>2
  <2>4. QED BY <1>1, <1>5, <2>1, <2>3, Zenon DEF HasGroup
<1>9. DecodeLine(d) = s
  BY <1>7, <1>8, GroupsDecode, Zenon
<1>10. QED BY <1>1, <1>6, <1>9, Zenon

(* Lines of d characters: the character at j of them is at Unbroken(j, d)   *)
(* of the encoding.                                                         *)
Unbroken(j, d) == j - j \div (d + 1)

LinesAt(n, N, d) ==
    /\ N \in Nat /\ Unbroken(0, d) = 0 /\ Unbroken(N, d) = n
    /\ \A j \in 0 .. N : Unbroken(j, d) \in Nat
    /\ \A j \in 1 .. N :
          /\ j % (d + 1) = 0 => Unbroken(j, d) = Unbroken(j - 1, d)
          /\ j % (d + 1) # 0 => /\ Unbroken(j, d) \in 1 .. n
                                /\ Unbroken(j, d) = Unbroken(j - 1, d) + 1

LEMMA Lines64 ==
    ASSUME NEW a \in Nat, NEW b \in 0 .. 63, NEW n, NEW N,
           n = 64 * a + b + 1, N = 65 * a + b + 1
    PROVE  LinesAt(n, N, 64)
<1>1. 64 + 1 = 65
  OBVIOUS
<1>2. \A j : Unbroken(j, 64) = j - (j \div 65)
  BY <1>1, Zenon DEF Unbroken
<1>3. N \in Nat
  OBVIOUS
<1>4. N - (N \div 65) = n
  <2>1. N \div 65 = a
    OBVIOUS
  <2>2. QED BY <2>1
<1>5. 0 - (0 \div 65) = 0
  <2>1. 0 \div 65 = 0
    OBVIOUS
  <2>2. QED BY <2>1
<1>6. ASSUME NEW j \in 0 .. N PROVE j - (j \div 65) \in Nat
  <2>1. j \in Nat
    BY <1>3
  <2>2. j \div 65 <= j /\ j \div 65 \in Nat
    BY <2>1
  <2>3. QED BY <2>1, <2>2
<1>7. ASSUME NEW j \in 1 .. N
      PROVE  /\ j % 65 = 0 => j - (j \div 65) = (j - 1) - ((j - 1) \div 65)
             /\ j % 65 # 0 => /\ j - (j \div 65) \in 1 .. n
                              /\ j - (j \div 65) = (j - 1) - ((j - 1) \div 65) + 1
  <2>1. PICK x \in Nat, y \in 0 .. 64 : j = 65 * x + y
    <3>1. j \in Nat
      BY <1>3
    <3>2. /\ j \div 65 \in Nat /\ j % 65 \in 0 .. 64
          /\ j = 65 * (j \div 65) + (j % 65)
      BY <3>1
    <3>3. QED BY <3>2
  <2>2. j \div 65 = x /\ j % 65 = y
    BY <2>1
  <2>3. CASE y = 0
    <3>1. (j - 1) \div 65 = x - 1
      BY <2>1, <2>3
    <3>2. QED BY <2>1, <2>2, <2>3, <3>1
  <2>4. CASE y # 0
    <3>1. (j - 1) \div 65 = x
      BY <2>1, <2>4
    <3>2. x <= a /\ (x = a => y <= b + 1)
      BY <2>1
    <3>3. j - x \in 1 .. n
      BY <2>1, <2>4, <3>2
    <3>4. QED BY <2>1, <2>2, <2>4, <3>1, <3>3
  <2>5. QED BY <2>3, <2>4
<1>8. Unbroken(0, 64) = 0 /\ Unbroken(N, 64) = n
  BY <1>2, <1>4, <1>5, Zenon
<1>9. \A j \in 0 .. N : Unbroken(j, 64) \in Nat
  BY <1>2, <1>6, Zenon
<1>10. \A j : j % (64 + 1) = j % 65
  BY <1>1, Zenon
<1>11. ASSUME NEW j \in 1 .. N
       PROVE  /\ j % (64 + 1) = 0 => Unbroken(j, 64) = Unbroken(j - 1, 64)
              /\ j % (64 + 1) # 0 => /\ Unbroken(j, 64) \in 1 .. n
                                     /\ Unbroken(j, 64) = Unbroken(j - 1, 64) + 1
  <2>1. PICK u, v, y :
           u = j - (j \div 65) /\ v = (j - 1) - ((j - 1) \div 65) /\ y = j % 65
    OBVIOUS
  <2>2. /\ y = 0 => u = v
        /\ y # 0 => u \in 1 .. n /\ u = v + 1
    BY <1>7, <2>1
  <2>3. Unbroken(j, 64) = u /\ Unbroken(j - 1, 64) = v
    BY <1>2, <2>1
  <2>4. j % (64 + 1) = y
    BY <1>10, <2>1, Zenon
  <2>5. QED BY <2>2, <2>3, <2>4, Zenon
<1>12. QED BY <1>3, <1>8, <1>9, <1>11, Zenon DEF LinesAt

LEMMA Lines76 ==
    ASSUME NEW a \in Nat, NEW b \in 0 .. 75, NEW n, NEW N,
           n = 76 * a + b + 1, N = 77 * a + b + 1
    PROVE  LinesAt(n, N, 76)
<1>1. 76 + 1 = 77
  OBVIOUS
<1>2. \A j : Unbroken(j, 76) = j - (j \div 77)
  BY <1>1, Zenon DEF Unbroken
<1>3. N \in Nat
  OBVIOUS
<1>4. N - (N \div 77) = n
  <2>1. N \div 77 = a
    OBVIOUS
  <2>2. QED BY <2>1
<1>5. 0 - (0 \div 77) = 0
  <2>1. 0 \div 77 = 0
    OBVIOUS
  <2>2. QED BY <2>1
<1>6. ASSUME NEW j \in 0 .. N PROVE j - (j \div 77) \in Nat
  <2>1. j \in Nat
    BY <1>3
  <2>2. j \div 77 <= j /\ j \div 77 \in Nat
    BY <2>1
  <2>3. QED BY <2>1, <2>2
<1>7. ASSUME NEW j \in 1 .. N
      PROVE  /\ j % 77 = 0 => j - (j \div 77) = (j - 1) - ((j - 1) \div 77)
             /\ j % 77 # 0 => /\ j - (j \div 77) \in 1 .. n
                              /\ j - (j \div 77) = (j - 1) - ((j - 1) \div 77) + 1
  <2>1. PICK x \in Nat, y \in 0 .. 76 : j = 77 * x + y
    <3>1. j \in Nat
      BY <1>3
    <3>2. /\ j \div 77 \in Nat /\ j % 77 \in 0 .. 76
          /\ j = 77 * (j \div 77) + (j % 77)
      BY <3>1
    <3>3. QED BY <3>2
  <2>2. j \div 77 = x /\ j % 77 = y
    BY <2>1
  <2>3. CASE y = 0
    <3>1. (j - 1) \div 77 = x - 1
      BY <2>1, <2>3
    <3>2. QED BY <2>1, <2>2, <2>3, <3>1
  <2>4. CASE y # 0
    <3>1. (j - 1) \div 77 = x
      BY <2>1, <2>4
    <3>2. x <= a /\ (x = a => y <= b + 1)
      BY <2>1
    <3>3. j - x \in 1 .. n
      BY <2>1, <2>4, <3>2
    <3>4. QED BY <2>1, <2>2, <2>4, <3>1, <3>3
  <2>5. QED BY <2>3, <2>4
<1>8. Unbroken(0, 76) = 0 /\ Unbroken(N, 76) = n
  BY <1>2, <1>4, <1>5, Zenon
<1>9. \A j \in 0 .. N : Unbroken(j, 76) \in Nat
  BY <1>2, <1>6, Zenon
<1>10. \A j : j % (76 + 1) = j % 77
  BY <1>1, Zenon
<1>11. ASSUME NEW j \in 1 .. N
       PROVE  /\ j % (76 + 1) = 0 => Unbroken(j, 76) = Unbroken(j - 1, 76)
              /\ j % (76 + 1) # 0 => /\ Unbroken(j, 76) \in 1 .. n
                                     /\ Unbroken(j, 76) = Unbroken(j - 1, 76) + 1
  <2>1. PICK u, v, y :
           u = j - (j \div 77) /\ v = (j - 1) - ((j - 1) \div 77) /\ y = j % 77
    OBVIOUS
  <2>2. /\ y = 0 => u = v
        /\ y # 0 => u \in 1 .. n /\ u = v + 1
    BY <1>7, <2>1
  <2>3. Unbroken(j, 76) = u /\ Unbroken(j - 1, 76) = v
    BY <1>2, <2>1
  <2>4. j % (76 + 1) = y
    BY <1>10, <2>1, Zenon
  <2>5. QED BY <2>2, <2>3, <2>4, Zenon
<1>12. QED BY <1>3, <1>8, <1>9, <1>11, Zenon DEF LinesAt

(* EncodePem and EncodeMime *)
LineLengths == {64, 76}

LEMMA LinesPlace ==
    ASSUME NEW d \in LineLengths, NEW n \in Nat \ {0}
    PROVE  LinesAt(n, n + ((n - 1) \div d), d)
<1>1. CASE d = 64
  <2>1. PICK a \in Nat, b \in 0 .. 63 : n - 1 = 64 * a + b
    <3>1. /\ (n - 1) \div 64 \in Nat /\ (n - 1) % 64 \in 0 .. 63
          /\ n - 1 = 64 * ((n - 1) \div 64) + ((n - 1) % 64)
      OBVIOUS
    <3>2. QED BY <3>1
  <2>2. PICK N : N = n + ((n - 1) \div d)
    OBVIOUS
  <2>3. (n - 1) \div 64 = a
    BY <2>1
  <2>4. n = 64 * a + b + 1 /\ N = 65 * a + b + 1
    BY <1>1, <2>1, <2>2, <2>3
  <2>5. LinesAt(n, N, 64)
    BY <2>4, Lines64
  <2>6. QED BY <1>1, <2>2, <2>5, Zenon
<1>2. CASE d = 76
  <2>1. PICK a \in Nat, b \in 0 .. 75 : n - 1 = 76 * a + b
    <3>1. /\ (n - 1) \div 76 \in Nat /\ (n - 1) % 76 \in 0 .. 75
          /\ n - 1 = 76 * ((n - 1) \div 76) + ((n - 1) % 76)
      OBVIOUS
    <3>2. QED BY <3>1
  <2>2. PICK N : N = n + ((n - 1) \div d)
    OBVIOUS
  <2>3. (n - 1) \div 76 = a
    BY <2>1
  <2>4. n = 76 * a + b + 1 /\ N = 77 * a + b + 1
    BY <1>2, <2>1, <2>2, <2>3
  <2>5. LinesAt(n, N, 76)
    BY <2>4, Lines76
  <2>6. QED BY <1>2, <2>2, <2>5, Zenon
<1>3. QED BY <1>1, <1>2, Zenon DEF LineLengths

LEMMA UnbrokenLines ==
    ASSUME NEW e \in Seq(Nat), NEW d \in LineLengths, \A j \in 1 .. Len(e) : e[j] # 10
    PROVE  Without(InsertLinebreaks(e, d), 10) = e
<1>1. CASE e = <<>>
  <2>1. InsertLinebreaks(e, d) = <<>>
    BY <1>1, Zenon DEF InsertLinebreaks
  <2>2. PICK q : q = [i \in 0 .. 0 |-> 0]
    OBVIOUS
  <2>3. /\ q[0] = 0 /\ Len(<<>>) = 0 /\ 0 \in Nat
        /\ \A i \in 0 .. 0 : q[i] \in Nat
        /\ 1 .. 0 = {} /\ <<>> \in Seq(Nat)
    BY <2>2
  <2>4. PICK w : w = InsertLinebreaks(e, d) /\ w = <<>> /\ e = w
    BY <1>1, <2>1, Zenon
  <2>5. Without(w, 10) = e
    <3>1. Counts(q, <<>>, 10, <<>>)
      BY <2>3 DEF Counts
    <3>2. Counts(q, w, 10, e)
      BY <2>4, <3>1, Zenon
    <3>3. QED BY <3>2, WithoutIs
  <2>6. QED BY <2>4, <2>5, Zenon
<1>2. CASE e # <<>>
  <2>1. PICK n \in Nat \ {0} : n = Len(e)
    BY <1>2
  <2>2. PICK N : N = n + ((n - 1) \div d)
    OBVIOUS
  <2>3. /\ N \in Nat /\ Unbroken(0, d) = 0 /\ Unbroken(N, d) = n
        /\ \A j \in 0 .. N : Unbroken(j, d) \in Nat
        /\ \A j \in 1 .. N :
              /\ j % (d + 1) = 0 => Unbroken(j, d) = Unbroken(j - 1, d)
              /\ j % (d + 1) # 0 => /\ Unbroken(j, d) \in 1 .. n
                                    /\ Unbroken(j, d) = Unbroken(j - 1, d) + 1
    <3>1. LinesAt(n, N, d)
      <4>1. LinesAt(n, n + ((n - 1) \div d), d)
        BY LinesPlace
      <4>2. QED BY <2>2, <4>1, Zenon
    <3>2. QED BY <3>1, Zenon DEF LinesAt
  <2>4. PICK w : w = InsertLinebreaks(e, d)
    OBVIOUS
  <2>5. w = [j \in 1 .. N |-> IF j % (d + 1) = 0 THEN 10 ELSE e[Unbroken(j, d)]]
    BY <1>2, <2>1, <2>2, <2>4, Zenon DEF InsertLinebreaks, Unbroken
  <2>6. Len(w) = N
    BY <2>3, <2>5
  <2>7. PICK q : q = [j \in 0 .. N |-> Unbroken(j, d)]
    OBVIOUS
  <2>8. 0 \in 0 .. N /\ N \in 0 .. N
    BY <2>3
  <2>9. q[0] = 0 /\ q[N] = n /\ \A j \in 0 .. N : q[j] \in Nat
    BY <2>3, <2>7, <2>8, Zenon
  <2>10. ASSUME NEW j \in 1 .. N
         PROVE  IF w[j] = 10 THEN q[j] = q[j - 1]
                ELSE q[j] \in 1 .. n /\ q[j] = q[j - 1] + 1 /\ e[q[j]] = w[j]
    <3>1. j \in 0 .. N /\ j - 1 \in 0 .. N
      BY <2>3
    <3>2. q[j] = Unbroken(j, d) /\ q[j - 1] = Unbroken(j - 1, d)
      BY <2>7, <3>1, Zenon
    <3>3. w[j] = IF j % (d + 1) = 0 THEN 10 ELSE e[Unbroken(j, d)]
      BY <2>5, Zenon
    <3>4. CASE j % (d + 1) = 0
      BY <2>3, <3>2, <3>3, <3>4, Zenon
    <3>5. CASE j % (d + 1) # 0
      <4>1. Unbroken(j, d) \in 1 .. n /\ Unbroken(j, d) = Unbroken(j - 1, d) + 1
        BY <2>3, <3>5, Zenon
      <4>2. w[j] = e[Unbroken(j, d)] /\ w[j] # 10
        BY <2>1, <3>3, <3>5, <4>1, Zenon
      <4>3. QED BY <3>2, <4>1, <4>2, Zenon
    <3>6. QED BY <3>4, <3>5, Zenon
  <2>11. Without(w, 10) = e
    <3>1. Counts(q, w, 10, e)
      BY <2>1, <2>3, <2>6, <2>9, <2>10, Zenon DEF Counts
    <3>2. QED BY <3>1, WithoutIs
  <2>12. QED BY <2>4, <2>11, Zenon
<1>3. QED BY <1>1, <1>2, Zenon

LEMMA NoLinebreaks ==
    ASSUME NEW s \in Seq(Byte), NEW url \in BOOLEAN
    PROVE  /\ Encode(s, url) \in Seq(Nat)
           /\ \A j \in 1 .. Len(Encode(s, url)) : Encode(s, url)[j] # 10
<1>1. PICK e : e = Encode(s, url)
  OBVIOUS
<1>2. PICK n \in Nat : n = 4 * ((Len(s) + 2) \div 3)
  OBVIOUS
<1>3. Len(e) = n /\ e \in Seq(Nat) /\ \A j \in 1 .. n : e[j] # 10
  BY <1>1, <1>2, EncodedChars
<1>4. QED BY <1>1, <1>3, Zenon

LEMMA LinesDecode ==
    ASSUME NEW s \in Seq(Byte), NEW d \in LineLengths
    PROVE  Decode(InsertLinebreaks(Encode(s, FALSE), d), TRUE) = s
<1>1. PICK e : e = Encode(s, FALSE)
  OBVIOUS
<1>2. e \in Seq(Nat) /\ \A j \in 1 .. Len(e) : e[j] # 10
  BY <1>1, NoLinebreaks, Zenon
<1>3. Without(InsertLinebreaks(e, d), 10) = e
  BY <1>2, UnbrokenLines, Zenon
<1>4. DecodeLine(e) = s
  BY <1>1, PaddedDecodes
<1>5. QED BY <1>1, <1>3, <1>4, Zenon DEF Decode

(* base64.cpp:178, the Filename header: whatever bytes a name has and       *)
(* however long it is, what any of the encoders makes of it is decoded to   *)
(* the name: from either alphabet, with its padding and without, and a      *)
(* text from lines of 64 and of 76 characters.                              *)
THEOREM DecodingInverts == Spec => []DecodeInverts
<1>1. TextOK => DecodeInverts
  <2> SUFFICES ASSUME TextOK PROVE DecodeInverts
    OBVIOUS
  <2>1. text \in Seq(Byte) /\ Long \in Seq(Byte)
    BY TextBytes, LongBytes, Zenon
  <2>2. ASSUME NEW url \in BOOLEAN
        PROVE  /\ Decode(Encode(text, url), FALSE) = text
               /\ Decode(Without(Encode(text, url), Pad(url)), FALSE) = text
    BY <2>1, PaddedDecodes, UnpaddedDecodes, Zenon DEF Decode
  <2>3. Decode(EncodePem(Long), TRUE) = Long /\ Decode(EncodeMime(Long), TRUE) = Long
    <3>1. 64 \in LineLengths /\ 76 \in LineLengths
      BY Zenon DEF LineLengths
    <3>2. QED BY <2>1, <3>1, LinesDecode, Zenon DEF EncodePem, EncodeMime
  <2>4. QED BY <2>2, <2>3, Zenon DEF DecodeInverts
<1>2. QED BY <1>1, TextType, PTL

-----------------------------------------------------------------------------
(* PreParseGetParam *)

LEMMA SetParamIs ==
    ASSUME NEW params, NEW pair, At(pair, 61) # {}
    PROVE  /\ DOMAIN SetParam(params, pair) = DOMAIN params \cup {Key(pair)}
           /\ SetParam(params, pair)[Key(pair)] = Value(pair)
           /\ \A k \in DOMAIN params :
                 k # Key(pair) => SetParam(params, pair)[k] = params[k]
<1> DEFINE D == DOMAIN params \cup {Key(pair)}
<1>1. SetParam(params, pair) = [k \in D |-> IF k = Key(pair) THEN Value(pair) ELSE params[k]]
  BY Zenon DEF SetParam
<1>2. PICK h : h = SetParam(params, pair)
  OBVIOUS
<1>3. h = [k \in D |-> IF k = Key(pair) THEN Value(pair) ELSE params[k]]
  BY <1>1, <1>2, Zenon
<1>4. DOMAIN h = D
  BY <1>3, Zenon
<1>5. \A k \in D : h[k] = IF k = Key(pair) THEN Value(pair) ELSE params[k]
  BY <1>3, Zenon
<1>6. Key(pair) \in D /\ \A k \in DOMAIN params : k \in D
  BY Zenon
<1> HIDE DEF D
<1>7. h[Key(pair)] = Value(pair) /\ \A k \in DOMAIN params : k # Key(pair) => h[k] = params[k]
  BY <1>5, <1>6, Zenon
<1>8. QED BY <1>2, <1>4, <1>7, Zenon DEF D

(* params has the value of the last of the pairs g[i], i \in T, with a key, *)
(* and no other key.                                                        *)
LatestOf(params, g, T) ==
    /\ DOMAIN params = {Key(g[i]) : i \in T}
    /\ \A i \in T : (\A j \in T : Key(g[j]) = Key(g[i]) => j <= i)
                    => params[Key(g[i])] = Value(g[i])

LEMMA LatestStep ==
    ASSUME NEW params, NEW g, NEW T \in SUBSET Nat, NEW e \in Nat,
           \A i \in T : i < e, LatestOf(params, g, T), At(g[e], 61) # {}
    PROVE  LatestOf(SetParam(params, g[e]), g, T \cup {e})
<1>1. PICK h : h = SetParam(params, g[e])
  OBVIOUS
<1>2. PICK k : k = Key(g[e])
  OBVIOUS
<1>3. /\ DOMAIN h = DOMAIN params \cup {k} /\ h[k] = Value(g[e])
      /\ \A x \in DOMAIN params : x # k => h[x] = params[x]
  BY <1>1, <1>2, SetParamIs, Zenon
<1>4. /\ DOMAIN params = {Key(g[i]) : i \in T}
      /\ \A i \in T : (\A j \in T : Key(g[j]) = Key(g[i]) => j <= i)
                      => params[Key(g[i])] = Value(g[i])
  BY Zenon DEF LatestOf
<1>5. DOMAIN h = {Key(g[i]) : i \in T \cup {e}}
  BY <1>2, <1>3, <1>4, Zenon
<1>6. ASSUME NEW i \in T \cup {e}, \A j \in T \cup {e} : Key(g[j]) = Key(g[i]) => j <= i
      PROVE  h[Key(g[i])] = Value(g[i])
  <2>1. CASE i = e
    BY <1>2, <1>3, <2>1, Zenon
  <2>2. CASE i # e
    <3>1. i \in T /\ i \in Nat /\ i < e
      BY <2>2
    <3>2. ~(e <= i)
      BY <3>1
    <3>3. Key(g[i]) # k
      BY <1>2, <1>6, <3>2, Zenon
    <3>4. \A j \in T : Key(g[j]) = Key(g[i]) => j <= i
      BY <1>6, Zenon
    <3>5. params[Key(g[i])] = Value(g[i]) /\ Key(g[i]) \in DOMAIN params
      BY <1>4, <3>1, <3>4, Zenon
    <3>6. QED BY <1>3, <3>3, <3>5, Zenon
  <2>3. QED BY <2>1, <2>2
<1>7. LatestOf(h, g, T \cup {e})
  BY <1>5, <1>6, Zenon DEF LatestOf
<1>8. QED BY <1>1, <1>7, Zenon

(* The loop: f[e] is what it has made of the pairs g[i], i \in C, up to e.  *)
Sets(f, g, C, n) ==
    f = [e \in 0 .. n |-> IF e = 0 THEN [k \in {} |-> k]
                          ELSE IF e \in C THEN SetParam(f[e - 1], g[e])
                          ELSE f[e - 1]]

LEMMA SetsExists ==
    ASSUME NEW g, NEW C, NEW n \in Nat
    PROVE  \E f : Sets(f, g, C, n)
<1> DEFINE Step(f, e) == IF e = 0 THEN [k \in {} |-> k]
                         ELSE IF e \in C THEN SetParam(f[e - 1], g[e])
                         ELSE f[e - 1]
           S == {m \in Nat : \E f : Sets(f, g, C, m)}
<1>1. 0 \in S
  <2>1. PICK f : f = [e \in 0 .. 0 |-> [k \in {} |-> k]]
    OBVIOUS
  <2>2. \A e \in 0 .. 0 : e = 0
    OBVIOUS
  <2>3. f = [e \in 0 .. 0 |-> Step(f, e)]
    BY <2>1, <2>2
  <2>4. Sets(f, g, C, 0)
    BY <2>3, Zenon DEF Sets
  <2>5. QED BY <2>4
<1>2. ASSUME NEW m \in S PROVE m + 1 \in S
  <2>1. PICK f : Sets(f, g, C, m)
    OBVIOUS
  <2>2. \A e \in 0 .. m : f[e] = Step(f, e)
    BY <2>1 DEF Sets
  <2>3. PICK h : h = [e \in 0 .. m + 1 |-> IF e = m + 1 THEN Step(f, e) ELSE f[e]]
    OBVIOUS
  <2> HIDE DEF Step
  <2>4. ASSUME NEW e \in 0 .. m + 1 PROVE h[e] = Step(f, e) /\ Step(h, e) = Step(f, e)
    <3>1. e # 0 => h[e - 1] = f[e - 1]
      <4>1. e # 0 => e - 1 \in 0 .. m + 1 /\ e - 1 # m + 1
        OBVIOUS
      <4>2. QED BY <2>3, <4>1, Zenon
    <3>2. Step(h, e) = Step(f, e)
      BY <3>1, Zenon DEF Step
    <3>3. h[e] = Step(f, e)
      <4>1. e = m + 1 \/ e \in 0 .. m
        OBVIOUS
      <4>2. h[e] = IF e = m + 1 THEN Step(f, e) ELSE f[e]
        BY <2>3, Zenon
      <4>3. QED BY <2>2, <4>1, <4>2, Zenon
    <3>4. QED BY <3>2, <3>3
  <2>5. \A e \in 0 .. m + 1 : h[e] = Step(h, e)
    BY <2>4, Zenon
  <2>6. h = [e \in 0 .. m + 1 |-> h[e]]
    BY <2>3
  <2>7. h = [e \in 0 .. m + 1 |-> Step(h, e)]
    BY <2>5, <2>6
  <2>8. Sets(h, g, C, m + 1)
    BY <2>7, Zenon DEF Sets, Step
  <2>9. QED BY <2>8, m + 1 \in Nat
<1>3. n \in S
  <2> HIDE DEF S
  <2>1. S \in SUBSET Nat
    BY DEF S
  <2>2. QED BY <1>1, <1>2, <2>1, SetInduction
<1>4. QED BY <1>3

SetsSteps(f, g, C, n) ==
    /\ f[0] = [k \in {} |-> k]
    /\ \A e \in 1 .. n : f[e] = IF e \in C THEN SetParam(f[e - 1], g[e]) ELSE f[e - 1]

LEMMA SetsStep ==
    ASSUME NEW f, NEW g, NEW C, NEW n \in Nat, Sets(f, g, C, n)
    PROVE  SetsSteps(f, g, C, n)
<1>1. 0 \in 0 .. n /\ \A e \in 1 .. n : e \in 0 .. n /\ e # 0
  OBVIOUS
<1>2. \A e \in 0 .. n : f[e] = IF e = 0 THEN [k \in {} |-> k]
                               ELSE IF e \in C THEN SetParam(f[e - 1], g[e])
                               ELSE f[e - 1]
  BY Zenon DEF Sets
<1>3. QED BY <1>1, <1>2, Zenon DEF SetsSteps

(* The pairs up to e, with a '=' to cut them at. *)
UpTo(g, C, e) == {i \in 1 .. e : i \in C /\ At(g[i], 61) # {}}

LEMMA SetsLatest ==
    ASSUME NEW f, NEW g, NEW C, NEW n \in Nat, Sets(f, g, C, n)
    PROVE  LatestOf(f[n], g, UpTo(g, C, n))
<1> DEFINE S == {e \in Nat : e <= n => LatestOf(f[e], g, UpTo(g, C, e))}
<1>s. SetsSteps(f, g, C, n)
  BY SetsStep
<1>1. 0 \in S
  <2>1. UpTo(g, C, 0) = {}
    BY DEF UpTo
  <2>2. f[0] = [k \in {} |-> k]
    BY <1>s, Zenon DEF SetsSteps
  <2>3. LatestOf(f[0], g, {})
    BY <2>2 DEF LatestOf
  <2>4. QED BY <2>1, <2>3
<1>2. ASSUME NEW d \in S PROVE d + 1 \in S
  <2> SUFFICES ASSUME d + 1 <= n PROVE LatestOf(f[d + 1], g, UpTo(g, C, d + 1))
    BY d + 1 \in Nat
  <2>1. PICK e \in 1 .. n : e = d + 1 /\ e - 1 = d /\ d \in Nat /\ d <= n
    OBVIOUS
  <2>2. LatestOf(f[d], g, UpTo(g, C, d))
    BY <2>1
  <2>3. f[e] = IF e \in C THEN SetParam(f[d], g[e]) ELSE f[d]
    BY <1>s, <2>1, Zenon DEF SetsSteps
  <2>4. CASE e \in C /\ At(g[e], 61) # {}
    <3>1. UpTo(g, C, e) = UpTo(g, C, d) \cup {e}
      <4>1. \A i : i \in 1 .. e <=> i \in 1 .. d \/ i = e
        BY <2>1
      <4>2. QED BY <2>4, <4>1, Zenon DEF UpTo
    <3>2. UpTo(g, C, d) \in SUBSET Nat /\ \A i \in UpTo(g, C, d) : i < e
      BY <2>1 DEF UpTo
    <3>3. f[e] = SetParam(f[d], g[e]) /\ e \in Nat
      BY <2>3, <2>4
    <3>4. LatestOf(SetParam(f[d], g[e]), g, UpTo(g, C, d) \cup {e})
      BY <2>2, <2>4, <3>2, <3>3, LatestStep, Zenon
    <3>5. QED BY <2>1, <3>1, <3>3, <3>4, Zenon
  <2>5. CASE ~(e \in C /\ At(g[e], 61) # {})
    <3>1. UpTo(g, C, e) = UpTo(g, C, d)
      <4>1. \A i : i \in 1 .. e <=> i \in 1 .. d \/ i = e
        BY <2>1
      <4>2. QED BY <2>5, <4>1, Zenon DEF UpTo
    <3>2. f[e] = f[d]
      BY <2>3, <2>5, Zenon DEF SetParam
    <3>3. QED BY <2>1, <2>2, <3>1, <3>2, Zenon
  <2>6. QED BY <2>4, <2>5
<1>3. n \in S
  <2> HIDE DEF S
  <2>1. S \in SUBSET Nat
    BY DEF S
  <2>2. QED BY <1>1, <1>2, <2>1, SetInduction
<1>4. QED BY <1>3

(* The ends of the pairs of a query, where the pair that ends at e starts,  *)
(* and the pair.                                                            *)
Ends(q)    == {e \in 1 .. Len(q) + 1 : e = Len(q) + 1 \/ q[e] = 38}
Start(q, e) == 1 + Max({0} \cup {i \in At(q, 38) : i < e})
Part(q, e) == SubSeq(q, Start(q, e), e - 1)

(* The loop of GetParams, over a query. *)
ParamsOf(q) ==
    LET start(e) == 1 + Max({0} \cup {i \in At(q, 38) : i < e})
        upTo[e \in 0 .. Len(q) + 1] ==
            IF e = 0 THEN [k \in {} |-> k]
            ELSE IF e = Len(q) + 1 \/ q[e] = 38
                 THEN SetParam(upTo[e - 1], SubSeq(q, start(e), e - 1))
            ELSE upTo[e - 1]
    IN  upTo[Len(q) + 1]

LEMMA GetParamsOf ==
    ASSUME NEW target
    PROVE  GetParams(target) = ParamsOf(Query(target))
BY Zenon DEF GetParams, ParamsOf

Loop(f, g, q) ==
    /\ Sets(f, g, Ends(q), Len(q) + 1) /\ ParamsOf(q) = f[Len(q) + 1]
    /\ \A e \in 1 .. Len(q) + 1 : g[e] = Part(q, e)

LEMMA ParamsSets ==
    ASSUME NEW q, Len(q) \in Nat
    PROVE  \E f, g : Loop(f, g, q)
<1> DEFINE n == Len(q) + 1
           Step(d, e) == IF e = 0 THEN [k \in {} |-> k]
                         ELSE IF e = Len(q) + 1 \/ q[e] = 38
                              THEN SetParam(d[e - 1],
                                            SubSeq(q, 1 + Max({0} \cup {i \in At(q, 38) : i < e}),
                                                   e - 1))
                         ELSE d[e - 1]
<1>1. n \in Nat
  OBVIOUS
<1>2. PICK g : g = [e \in 1 .. n |-> Part(q, e)]
  OBVIOUS
<1>3. \A e \in 1 .. n : g[e] = Part(q, e)
  BY <1>2, Zenon
<1>4. PICK f : Sets(f, g, Ends(q), n)
  <2> HIDE DEF n
  <2>1. QED BY <1>1, SetsExists, Zenon
<1>5. ASSUME NEW d, NEW e \in 0 .. n
      PROVE  (IF e = 0 THEN [k \in {} |-> k]
              ELSE IF e \in Ends(q) THEN SetParam(d[e - 1], g[e])
              ELSE d[e - 1]) = Step(d, e)
  <2>1. CASE e = 0
    BY <2>1, Zenon
  <2>2. CASE e # 0
    <3>1. e \in 1 .. n
      BY <2>2
    <3>2. e \in Ends(q) <=> e = Len(q) + 1 \/ q[e] = 38
      BY <3>1, Zenon DEF Ends
    <3>3. g[e] = SubSeq(q, 1 + Max({0} \cup {i \in At(q, 38) : i < e}), e - 1)
      BY <1>3, <3>1, Zenon DEF Part, Start
    <3>4. QED BY <2>2, <3>2, <3>3, Zenon
  <2>3. QED BY <2>1, <2>2
<1>6. \A d : Sets(d, g, Ends(q), n) <=> d = [e \in 0 .. n |-> Step(d, e)]
  <2> HIDE DEF n, Step
  <2>1. QED BY <1>5, Zenon DEF Sets
<1>7. \E d : d = [e \in 0 .. n |-> Step(d, e)]
  <2> HIDE DEF n, Step
  <2>1. QED BY <1>4, <1>6, Zenon
<1>8. \E d : d = [e \in 0 .. n |-> Step(d, e)] /\ ParamsOf(q) = d[n]
  BY <1>7, Zenon DEF ParamsOf
<1>9. PICK d : Sets(d, g, Ends(q), n) /\ ParamsOf(q) = d[n]
  <2> HIDE DEF n, Step
  <2>1. QED BY <1>6, <1>8, Zenon
<1>10. Loop(d, g, q)
  BY <1>3, <1>9, Zenon DEF Loop
<1>11. QED BY <1>10, Zenon

(* The pairs, as the property has them: from one cut of the query to the    *)
(* next.                                                                    *)
Cuts(q) == At(q, 38) \cup {0, Len(q) + 1}

Between(q, p) == /\ p[1] < p[2] /\ \A k \in Cuts(q) : ~(p[1] < k /\ k < p[2])
                 /\ \E k \in p[1] + 1 .. p[2] - 1 : q[k] = 61

Pairs(q) == {p \in Cuts(q) \X Cuts(q) : Between(q, p)}

PairEnds(q) == {e \in Ends(q) : At(Part(q, e), 61) # {}}

LEMMA StartIs ==
    ASSUME NEW q \in Seq(Byte), NEW e \in 1 .. Len(q) + 1
    PROVE  /\ Start(q, e) - 1 \in Cuts(q) /\ Start(q, e) - 1 < e /\ Start(q, e) \in Nat
           /\ \A k \in Cuts(q) : ~(Start(q, e) - 1 < k /\ k < e)
           /\ \A a \in Cuts(q) : a < e /\ (\A k \in Cuts(q) : ~(a < k /\ k < e))
                                 => a = Start(q, e) - 1
<1> DEFINE S == {0} \cup {i \in At(q, 38) : i < e}
<1>1. PICK n \in Nat : n = Len(q)
  OBVIOUS
<1>2. At(q, 38) \subseteq 1 .. n
  BY <1>1 DEF At
<1>3. S \in SUBSET Nat /\ S # {} /\ \A k \in S : k <= n + 1 /\ k < e
  BY <1>1, <1>2
<1>4. PICK m \in Nat : m = Max(S) /\ m \in S /\ \A k \in S : k <= m
  <2> HIDE DEF S
  <2>1. Max(S) \in S /\ \A k \in S : k <= Max(S)
    BY <1>3, MaxIs, n + 1 \in Nat
  <2>2. QED BY <1>3, <2>1
<1>5. Start(q, e) = 1 + m
  BY <1>4, Zenon DEF Start
<1>6. Start(q, e) - 1 = m /\ Start(q, e) \in Nat
  BY <1>5
<1>7. m \in Cuts(q) /\ m < e
  BY <1>3, <1>4 DEF Cuts
<1>8. ASSUME NEW k \in Cuts(q) PROVE ~(m < k /\ k < e)
  <2>1. k \in At(q, 38) \/ k = 0 \/ k = n + 1
    BY <1>1 DEF Cuts
  <2>2. CASE k \in At(q, 38)
    BY <1>2, <1>4, <2>2
  <2>3. CASE k = 0
    BY <2>3
  <2>4. CASE k = n + 1
    BY <1>1, <2>4
  <2>5. QED BY <2>1, <2>2, <2>3, <2>4
<1>9. ASSUME NEW a \in Cuts(q), a < e, \A k \in Cuts(q) : ~(a < k /\ k < e)
      PROVE  a = m
  <2>1. a \in Nat /\ a \in S
    BY <1>1, <1>2, <1>9 DEF Cuts
  <2>2. a <= m
    BY <1>4, <2>1
  <2>3. ~(a < m)
    BY <1>7, <1>9
  <2>4. QED BY <2>1, <2>2, <2>3
<1>10. QED BY <1>6, <1>7, <1>8, <1>9

Pair(q, p) == SubSeq(q, p[1] + 1, p[2] - 1)

IsPair(pair) == At(pair, 61) # {}

HasEquals(q, a, b) == \E k \in a + 1 .. b - 1 : q[k] = 61

LEMMA CutAtEquals ==
    ASSUME NEW q \in Seq(Byte), NEW a \in 0 .. Len(q), NEW b \in 1 .. Len(q) + 1, a < b
    PROVE  IsPair(SubSeq(q, a + 1, b - 1)) <=> HasEquals(q, a, b)
<1>1. PICK s : s = SubSeq(q, a + 1, b - 1)
  OBVIOUS
<1>2. PICK L \in Nat : L = b - 1 - a
  OBVIOUS
<1>3. s = [i \in 1 .. L |-> q[a + i]]
  BY <1>1, <1>2
<1>4. At(s, 61) = {i \in 1 .. L : q[a + i] = 61}
  <2>1. DOMAIN s = 1 .. L /\ \A i \in 1 .. L : s[i] = q[a + i]
    BY <1>3, Zenon
  <2>2. QED BY <2>1, Zenon DEF At
<1>5. ASSUME NEW i \in 1 .. L, q[a + i] = 61 PROVE \E k \in a + 1 .. b - 1 : q[k] = 61
  <2>1. a + i \in a + 1 .. b - 1
    BY <1>2
  <2>2. QED BY <1>5, <2>1, Zenon
<1>6. ASSUME NEW k \in a + 1 .. b - 1, q[k] = 61 PROVE \E i \in 1 .. L : q[a + i] = 61
  <2>1. PICK i \in 1 .. L : a + i = k
    <3>1. k - a \in 1 .. L /\ a + (k - a) = k
      BY <1>2
    <3>2. QED BY <3>1, Zenon
  <2>2. QED BY <1>6, <2>1, Zenon
<1>7. At(s, 61) # {} <=> \E i \in 1 .. L : q[a + i] = 61
  BY <1>4, Zenon
<1>8. QED BY <1>1, <1>5, <1>6, <1>7, Zenon DEF IsPair, HasEquals

(* A pair is the part that ends where it does. *)
PairIs(q, p) == /\ p[2] \in PairEnds(q) /\ Pair(q, p) = Part(q, p[2])
                /\ p[1] = Start(q, p[2]) - 1

LEMMA PairsAreParts ==
    ASSUME NEW q \in Seq(Byte), NEW p \in Pairs(q)
    PROVE  PairIs(q, p)
<1>1. PICK n \in Nat : n = Len(q)
  OBVIOUS
<1>2. p \in Cuts(q) \X Cuts(q) /\ Between(q, p)
  BY Zenon DEF Pairs
<1>3. PICK a \in Cuts(q), b \in Cuts(q) : p = <<a, b>> /\ a = p[1] /\ b = p[2]
  BY <1>2
<1>4. /\ a < b /\ \A k \in Cuts(q) : ~(a < k /\ k < b)
      /\ \E k \in a + 1 .. b - 1 : q[k] = 61
  BY <1>2, <1>3, Zenon DEF Between
<1>5. At(q, 38) \subseteq 1 .. n /\ \A k \in At(q, 38) : q[k] = 38
  BY <1>1 DEF At
<1>6. /\ a \in Nat /\ b \in 1 .. n + 1 /\ a \in 0 .. n
      /\ b = n + 1 \/ q[b] = 38
  BY <1>1, <1>4, <1>5 DEF Cuts
<1>7. b \in Ends(q)
  BY <1>1, <1>6 DEF Ends
<1>8. a = Start(q, b) - 1 /\ Start(q, b) \in Nat
  BY <1>1, <1>4, <1>6, StartIs
<1>9. a + 1 = Start(q, b)
  BY <1>8
<1>10. Pair(q, p) = SubSeq(q, a + 1, b - 1)
  BY <1>3, Zenon DEF Pair
<1>11. Pair(q, p) = Part(q, b)
  BY <1>9, <1>10, Zenon DEF Part
<1>12. At(Part(q, b), 61) # {}
  <2>1. HasEquals(q, a, b)
    BY <1>4, Zenon DEF HasEquals
  <2>2. a \in 0 .. Len(q) /\ b \in 1 .. Len(q) + 1
    BY <1>1, <1>6, Zenon
  <2>3. IsPair(SubSeq(q, a + 1, b - 1))
    BY <1>4, <2>1, <2>2, CutAtEquals, Zenon
  <2>4. QED BY <1>10, <1>11, <2>3, Zenon DEF IsPair
<1>13. b \in PairEnds(q)
  BY <1>7, <1>12, Zenon DEF PairEnds
<1>14. QED BY <1>3, <1>8, <1>11, <1>13, Zenon DEF PairIs

LEMMA PartsArePairs ==
    ASSUME NEW q \in Seq(Byte), NEW e \in PairEnds(q)
    PROVE  \E p \in Pairs(q) : p[2] = e
<1>1. PICK n \in Nat : n = Len(q)
  OBVIOUS
<1>2. e \in Ends(q) /\ At(Part(q, e), 61) # {}
  BY Zenon DEF PairEnds
<1>3. e \in 1 .. n + 1 /\ (e = n + 1 \/ q[e] = 38)
  BY <1>1, <1>2 DEF Ends
<1>4. e \in Cuts(q)
  BY <1>1, <1>3 DEF Cuts, At
<1>5. PICK a \in Cuts(q) : a = Start(q, e) - 1 /\ a < e /\ Start(q, e) \in Nat
                           /\ \A k \in Cuts(q) : ~(a < k /\ k < e)
  BY <1>1, <1>3, StartIs
<1>6. a \in 0 .. n
  BY <1>1, <1>3, <1>5 DEF Cuts, At
<1>7. a + 1 = Start(q, e)
  BY <1>5
<1>8. Part(q, e) = SubSeq(q, a + 1, e - 1)
  BY <1>7, Zenon DEF Part
<1>9. \E k \in a + 1 .. e - 1 : q[k] = 61
  <2>1. IsPair(SubSeq(q, a + 1, e - 1))
    BY <1>2, <1>8, Zenon DEF IsPair
  <2>2. a \in 0 .. Len(q) /\ e \in 1 .. Len(q) + 1 /\ a < e
    BY <1>1, <1>3, <1>5, <1>6, Zenon
  <2>3. HasEquals(q, a, e)
    BY <2>1, <2>2, CutAtEquals, Zenon
  <2>4. QED BY <2>3, Zenon DEF HasEquals
<1>10. PICK p : p[1] = a /\ p[2] = e /\ p \in Cuts(q) \X Cuts(q)
  <2>1. <<a, e>>[1] = a /\ <<a, e>>[2] = e
    OBVIOUS
  <2>2. <<a, e>> \in Cuts(q) \X Cuts(q)
    BY <1>4
  <2>3. QED BY <2>1, <2>2, Zenon
<1>11. Between(q, p)
  <2>1. \E k \in p[1] + 1 .. p[2] - 1 : q[k] = 61
    BY <1>9, <1>10, Zenon
  <2>2. p[1] < p[2] /\ \A k \in Cuts(q) : ~(p[1] < k /\ k < p[2])
    BY <1>5, <1>10, Zenon
  <2>3. QED BY <2>1, <2>2, Zenon DEF Between
<1>12. p \in Pairs(q)
  BY <1>10, <1>11, Zenon DEF Pairs
<1>13. QED BY <1>10, <1>12, Zenon

(* Of two pairs, the one that starts later ends later. *)
LEMMA PairsInOrder ==
    ASSUME NEW q \in Seq(Byte), NEW p \in Pairs(q), NEW r \in Pairs(q), r[1] <= p[1]
    PROVE  r[2] <= p[2]
<1>1. PICK n \in Nat : n = Len(q)
  OBVIOUS
<1>2. /\ p \in Cuts(q) \X Cuts(q) /\ Between(q, p)
      /\ r \in Cuts(q) \X Cuts(q) /\ Between(q, r)
  BY Zenon DEF Pairs
<1>3. Cuts(q) \subseteq Nat
  BY <1>1 DEF Cuts, At
<1>4. PICK a \in Nat, b \in Nat : a = p[1] /\ b = p[2] /\ b \in Cuts(q)
  BY <1>2, <1>3
<1>5. PICK c \in Nat, d \in Nat : c = r[1] /\ d = r[2]
  BY <1>2, <1>3
<1>6. a < b /\ ~(c < b /\ b < d) /\ c <= a
  BY <1>2, <1>4, <1>5, Zenon DEF Between
<1>7. d <= b
  BY <1>6
<1>8. QED BY <1>4, <1>5, <1>7, Zenon

(* The target is put together again from what was cut out of it. *)
LEMMA TargetIs ==
    ASSUME NEW t \in Seq(Byte)
    PROVE  GetUrl(t) \o (IF At(t, 63) = {} THEN <<>> ELSE <<63>> \o Query(t)) = t
<1>1. CASE At(t, 63) = {}
  <2>1. GetUrl(t) = t
    BY <1>1, Zenon DEF GetUrl
  <2>2. t \o <<>> = t
    BY ConcatEmptySeq, Zenon
  <2>3. QED BY <1>1, <2>1, <2>2, Zenon
<1>2. CASE At(t, 63) # {}
  <2>1. At(t, 63) \in SUBSET Nat /\ At(t, 63) \subseteq 1 .. Len(t)
    BY DEF At
  <2>2. PICK m \in 1 .. Len(t) : m = Min(At(t, 63)) /\ m \in At(t, 63)
    BY <1>2, <2>1, MinIs
  <2>3. t[m] = 63
    BY <2>2 DEF At
  <2>4. GetUrl(t) = SubSeq(t, 1, m - 1) /\ Query(t) = SubSeq(t, m + 1, Len(t))
    BY <1>2, <2>2, Zenon DEF GetUrl, Query
  <2>5. SubSeq(t, m, Len(t)) = <<t[m]>> \o SubSeq(t, m + 1, Len(t))
    <3>1. /\ m \in 1 .. Len(t) /\ Len(t) \in m .. Len(t)
      OBVIOUS
    <3>2. QED BY <3>1, SubSeqRecursiveFirst
  <2>6. SubSeq(t, 1, m - 1) \o SubSeq(t, m, Len(t)) = SubSeq(t, 1, Len(t))
    <3>1. PICK k : k = m - 1 /\ m = k + 1
      OBVIOUS
    <3>2. 1 \in 1 .. Len(t) + 1 /\ k \in 1 - 1 .. Len(t) /\ Len(t) \in k .. Len(t)
      BY <3>1
    <3>3. SubSeq(t, 1, k) \o SubSeq(t, k + 1, Len(t)) = SubSeq(t, 1, Len(t))
      BY <3>2, ConcatAdjacentSubSeq, Zenon
    <3>4. QED BY <3>1, <3>3, Zenon
  <2>7. SubSeq(t, 1, Len(t)) = t
    BY SubSeqFull, Zenon
  <2>8. QED BY <1>2, <2>3, <2>4, <2>5, <2>6, <2>7, Zenon
<1>3. QED BY <1>1, <1>2

LEMMA QueryType ==
    ASSUME NEW t \in Seq(Byte)
    PROVE  Query(t) \in Seq(Byte)
<1>1. CASE At(t, 63) = {}
  <2>1. Query(t) = <<>>
    BY <1>1, Zenon DEF Query
  <2>2. QED BY <2>1
<1>2. CASE At(t, 63) # {}
  <2>1. At(t, 63) \in SUBSET Nat /\ At(t, 63) \subseteq 1 .. Len(t)
    BY DEF At
  <2>2. PICK m \in 1 .. Len(t) : m = Min(At(t, 63))
    BY <1>2, <2>1, MinIs
  <2>3. Query(t) = SubSeq(t, m + 1, Len(t))
    BY <1>2, <2>2, Zenon DEF Query
  <2>4. \A i \in m + 1 .. Len(t) : t[i] \in Byte
    OBVIOUS
  <2>5. SubSeq(t, m + 1, Len(t)) \in Seq(Byte)
    BY <2>4, SubSeqProperties
  <2>6. QED BY <2>3, <2>5, Zenon
<1>3. QED BY <1>1, <1>2

LEMMA LastPairsHold ==
    ASSUME NEW target \in Seq(Byte)
    PROVE  LastPairs(target)
<1>1. PICK q \in Seq(Byte) : q = Query(target)
  BY QueryType
<1>2. PICK N \in Nat : N = Len(q) + 1 /\ Len(q) \in Nat
  OBVIOUS
<1>3. PICK f, g : Loop(f, g, q)
  BY <1>2, ParamsSets, Zenon
<1>4. /\ Sets(f, g, Ends(q), N) /\ GetParams(target) = f[N]
      /\ \A e \in 1 .. N : g[e] = Part(q, e)
  <2>1. GetParams(target) = ParamsOf(q)
    BY <1>1, GetParamsOf, Zenon
  <2>2. QED BY <1>2, <1>3, <2>1, Zenon DEF Loop
<1>5. UpTo(g, Ends(q), N) = PairEnds(q)
  <2>1. \A e \in Ends(q) : e \in 1 .. N
    BY <1>2, Zenon DEF Ends
  <2>2. QED BY <1>4, <2>1, Zenon DEF UpTo, PairEnds
<1>6. LatestOf(GetParams(target), g, PairEnds(q))
  <2>1. LatestOf(f[N], g, UpTo(g, Ends(q), N))
    BY <1>4, SetsLatest, Zenon
  <2>2. QED BY <1>4, <1>5, <2>1, Zenon
<1>7. \A e \in PairEnds(q) : g[e] = Part(q, e)
  <2>1. \A e \in PairEnds(q) : e \in 1 .. N
    BY <1>2, Zenon DEF PairEnds, Ends
  <2>2. QED BY <1>4, <2>1, Zenon
<1>8. ASSUME NEW p \in Pairs(q)
      PROVE  p[2] \in PairEnds(q) /\ g[p[2]] = Pair(q, p)
  <2>1. PairIs(q, p)
    BY PairsAreParts, Zenon
  <2>2. QED BY <1>7, <2>1, Zenon DEF PairIs
<1>9. \A e \in PairEnds(q) : \E p \in Pairs(q) : p[2] = e
  BY PartsArePairs, Zenon
<1>10. DOMAIN GetParams(target) = {Key(Pair(q, p)) : p \in Pairs(q)}
  <2>1. DOMAIN GetParams(target) = {Key(g[e]) : e \in PairEnds(q)}
    BY <1>6, Zenon DEF LatestOf
  <2>2. ASSUME NEW k \in {Key(g[e]) : e \in PairEnds(q)}
        PROVE  k \in {Key(Pair(q, p)) : p \in Pairs(q)}
    <3>1. PICK e \in PairEnds(q) : k = Key(g[e])
      BY Zenon
    <3>2. PICK p \in Pairs(q) : p[2] = e
      BY <1>9, Zenon
    <3>3. k = Key(Pair(q, p))
      BY <1>8, <3>1, <3>2, Zenon
    <3>4. QED BY <3>3, Zenon
  <2>3. ASSUME NEW p \in Pairs(q)
        PROVE  Key(Pair(q, p)) \in {Key(g[e]) : e \in PairEnds(q)}
    <3>1. p[2] \in PairEnds(q) /\ Key(Pair(q, p)) = Key(g[p[2]])
      BY <1>8, Zenon
    <3>2. QED BY <3>1, Zenon
  <2>4. QED BY <2>1, <2>2, <2>3, Zenon
<1>11. ASSUME NEW p \in Pairs(q),
              \A r \in Pairs(q) : Key(Pair(q, r)) = Key(Pair(q, p)) => r[1] <= p[1]
       PROVE  GetParams(target)[Key(Pair(q, p))] = Value(Pair(q, p))
  <2>1. ASSUME NEW j \in PairEnds(q), Key(g[j]) = Key(g[p[2]]) PROVE j <= p[2]
    <3>1. PICK r \in Pairs(q) : r[2] = j
      BY <1>9, Zenon
    <3>2. Key(Pair(q, r)) = Key(Pair(q, p))
      <4>1. g[j] = Pair(q, r)
        BY <1>8, <3>1, Zenon
      <4>2. g[p[2]] = Pair(q, p)
        BY <1>8, Zenon
      <4>3. QED BY <2>1, <4>1, <4>2, Zenon
    <3>3. r[1] <= p[1]
      BY <1>11, <3>2, Zenon
    <3>4. r[2] <= p[2]
      BY <3>3, PairsInOrder, Zenon
    <3>5. QED BY <3>1, <3>4, Zenon
  <2>2. p[2] \in PairEnds(q) /\ g[p[2]] = Pair(q, p)
    BY <1>8, Zenon
  <2>3. GetParams(target)[Key(g[p[2]])] = Value(g[p[2]])
    BY <1>6, <2>1, <2>2, Zenon DEF LatestOf
  <2>4. QED BY <2>2, <2>3, Zenon
<1>12. GetUrl(target) \o (IF At(target, 63) = {} THEN <<>> ELSE <<63>> \o Query(target)) = target
  BY TargetIs, Zenon
<1>13. Pairs(q) =
         {p \in (At(q, 38) \cup {0, Len(q) + 1}) \X (At(q, 38) \cup {0, Len(q) + 1}) :
             /\ p[1] < p[2]
             /\ \A k \in At(q, 38) \cup {0, Len(q) + 1} : ~(p[1] < k /\ k < p[2])
             /\ \E k \in p[1] + 1 .. p[2] - 1 : q[k] = 61}
  BY Zenon DEF Pairs, Cuts, Between
<1>14. /\ DOMAIN GetParams(target) = {Key(SubSeq(q, p[1] + 1, p[2] - 1)) : p \in Pairs(q)}
       /\ \A p \in Pairs(q) :
             (\A r \in Pairs(q) : Key(SubSeq(q, r[1] + 1, r[2] - 1))
                                  = Key(SubSeq(q, p[1] + 1, p[2] - 1)) => r[1] <= p[1])
             => GetParams(target)[Key(SubSeq(q, p[1] + 1, p[2] - 1))]
                = Value(SubSeq(q, p[1] + 1, p[2] - 1))
  BY <1>10, <1>11, Zenon DEF Pair
<1>15. LastPairs(target) <=>
         /\ DOMAIN GetParams(target) = {Key(SubSeq(q, p[1] + 1, p[2] - 1)) : p \in Pairs(q)}
         /\ \A p \in Pairs(q) :
               (\A r \in Pairs(q) : Key(SubSeq(q, r[1] + 1, r[2] - 1))
                                    = Key(SubSeq(q, p[1] + 1, p[2] - 1)) => r[1] <= p[1])
               => GetParams(target)[Key(SubSeq(q, p[1] + 1, p[2] - 1))]
                  = Value(SubSeq(q, p[1] + 1, p[2] - 1))
         /\ GetUrl(target) \o (IF At(target, 63) = {} THEN <<>> ELSE <<63>> \o q) = target
  BY <1>1, <1>13 DEF LastPairs
<1>16. QED BY <1>1, <1>12, <1>14, <1>15, Zenon

(* HttpConnection.cpp:135: whatever the target of a GET, however long it is *)
(* and however often a key comes back, PreParseGetParam gives each key the  *)
(* value of the last pair that has it, has no other key, and loses nothing  *)
(* of the target: what it cuts at the first '?' are its two sides.          *)
THEOREM LastPairsStay == Spec => []ParamsAreLastPairs
<1>1. TextOK => ParamsAreLastPairs
  <2> SUFFICES ASSUME TextOK PROVE ParamsAreLastPairs
    OBVIOUS
  <2>1. text \in Seq(Byte)
    BY TextBytes, Zenon
  <2>2. <<63>> \o text \o <<38>> \o SubSeq(text, 1, Len(text) - 1) \in Seq(Byte)
    <3>1. <<63>> \in Seq(Byte) /\ <<38>> \in Seq(Byte)
      BY DEF Byte
    <3>2. SubSeq(text, 1, Len(text) - 1) \in Seq(Byte)
      <4>1. \A i \in 1 .. Len(text) - 1 : text[i] \in Byte
        BY <2>1
      <4>2. QED BY <2>1, <4>1, SubSeqProperties
    <3>3. \A a, b \in Seq(Byte) : Cat(a, b) \in Seq(Byte)
      BY Concatenated, Zenon
    <3>4. QED BY <2>1, <3>1, <3>2, <3>3, Zenon DEF Cat
  <2>3. QED BY <2>1, <2>2, LastPairsHold, Zenon DEF ParamsAreLastPairs
<1>2. QED BY <1>1, TextType, PTL
===============================================================================
