---------------------------- MODULE AssemblerProofs ----------------------------
(***************************************************************************)
(* The two passes of the assembler, for every source file and destination  *)
(* file: they number instructions alike whatever the encoders do, branches *)
(* back go to the last definition of their label, and literal loads reach  *)
(* the word of the pool that was meant for them.  Before that, each word   *)
(* is decoded as the text it was assembled from.                           *)
(***************************************************************************)
EXTENDS Assembler, InstructionMeaning, SequenceTheorems, FiniteSetTheorems,
        NaturalsInduction, WellFoundedInduction, TLAPS

Known == INSTANCE SymbolTableProofs WITH Addresses <- Nat, ChecksNext <- FALSE

(***************************************************************************)
(* Numbers and their bits come first, for every number and not only for    *)
(* those the runs try: what the emulator's bit operations return, what the *)
(* encoders put into a word and what the decoder takes out of it.          *)
(***************************************************************************)

(***************************************************************************)
(* Sums of a first part of a sequence of numbers                           *)
(***************************************************************************)
LEMMA LeastNatural ==
  ASSUME NEW T \in SUBSET Nat, T # {}
  PROVE  \E x \in T : \A y \in T : ~(y < x)
<1>1. PICK x \in T : \A y \in T : ~ (<<y, x>> \in OpToRel(<, Nat))
  BY NatLessThanWellFounded, WFMin
<1>. QED  BY <1>1 DEF OpToRel

\* f[k] is the sum of the first k numbers of c.
AreSums(f, c, n) ==
  f = [k \in 0 .. n |-> IF k = 0 THEN 0 ELSE f[k - 1] + c[k - 1]]

LEMMA OneMoreSum ==
  ASSUME NEW c, NEW n \in Nat, c[n] \in Int,
         NEW f \in [0 .. n -> Int], AreSums(f, c, n)
  PROVE  \E g \in [0 .. n + 1 -> Int] : AreSums(g, c, n + 1)
<1>. DEFINE g == [k \in 0 .. n + 1 |-> IF k = n + 1 THEN f[n] + c[n] ELSE f[k]]
<1>1. g \in [0 .. n + 1 -> Int]
  <2>1. \A k \in 0 .. n + 1 : k # n + 1 => k \in 0 .. n
    OBVIOUS
  <2>. QED  BY <2>1
<1>2. ASSUME NEW k \in 0 .. n + 1
      PROVE  g[k] = IF k = 0 THEN 0 ELSE g[k - 1] + c[k - 1]
  BY DEF AreSums
<1>. HIDE DEF g
<1>3. g = [k \in 0 .. n + 1 |-> g[k]]
  BY <1>1
<1>. QED  BY <1>1, <1>2, <1>3 DEF AreSums

LEMMA SumsExist ==
  ASSUME NEW c, NEW n \in Nat, \A k \in 0 .. n - 1 : c[k] \in Int
  PROVE  \E f \in [0 .. n -> Int] : AreSums(f, c, n)
<1>. DEFINE T == {m \in 0 .. n : ~ \E f \in [0 .. m -> Int] : AreSums(f, c, m)}
<1>. SUFFICES ASSUME T # {} PROVE FALSE
  OBVIOUS
<1>1. T \in SUBSET Nat
  OBVIOUS
<1>2. PICK m \in T : \A y \in T : ~(y < m)
  <2>. HIDE DEF T
  <2>. QED  BY <1>1, LeastNatural
<1>3. m # 0
  <2>1. [k \in 0 .. 0 |-> 0] \in [0 .. 0 -> Int]
    OBVIOUS
  <2>2. AreSums([k \in 0 .. 0 |-> 0], c, 0)
    BY DEF AreSums
  <2>. QED  BY <2>1, <2>2
<1>4. m - 1 \in Nat /\ m - 1 \in 0 .. n - 1 /\ m - 1 \notin T /\ m - 1 + 1 = m
  BY <1>2, <1>3
<1>5. PICK f \in [0 .. m - 1 -> Int] : AreSums(f, c, m - 1)
  BY <1>4
<1>6. \E g \in [0 .. m - 1 + 1 -> Int] : AreSums(g, c, m - 1 + 1)
  <2>1. c[m - 1] \in Int
    BY <1>4
  <2>. HIDE DEF T
  <2>. QED  BY <1>4, <1>5, <2>1, OneMoreSum
<1>. QED  BY <1>2, <1>4, <1>6

LEMMA SumsAreNumbers ==
  ASSUME NEW c, NEW n \in Nat, \A k \in 0 .. n - 1 : c[k] \in Int,
         NEW f, AreSums(f, c, n)
  PROVE  f \in [0 .. n -> Int]
<1>. DEFINE T == {k \in 0 .. n : f[k] \notin Int}
<1>1. \A k \in 0 .. n : f[k] = IF k = 0 THEN 0 ELSE f[k - 1] + c[k - 1]
  BY DEF AreSums
<1>2. T = {}
  <2>. SUFFICES ASSUME T # {} PROVE FALSE
    OBVIOUS
  <2>1. T \in SUBSET Nat
    OBVIOUS
  <2>2. PICK m \in T : \A y \in T : ~(y < m)
    <3>. HIDE DEF T
    <3>. QED  BY <2>1, LeastNatural
  <2>3. m # 0
    BY <1>1
  <2>4. m - 1 \in 0 .. n - 1 /\ f[m - 1] \in Int
    BY <2>2, <2>3
  <2>. QED  BY <1>1, <2>3, <2>4
<1>3. \E e : f = [k \in 0 .. n |-> e[k]]
  <2>. DEFINE e == [k \in 0 .. n |-> IF k = 0 THEN 0 ELSE f[k - 1] + c[k - 1]]
  <2>1. f = [k \in 0 .. n |-> e[k]]
    BY DEF AreSums
  <2>. QED  BY <2>1
<1>. QED  BY <1>2, <1>3

(***************************************************************************)
(* Numbers and their bits                                                  *)
(***************************************************************************)
LEMMA PowersOfTwo ==
  ASSUME NEW k \in 0 .. 31
  PROVE  2 ^ k \in Nat \ {0} /\ 2 ^ (k + 1) = 2 * 2 ^ k
<1>. DEFINE p == [i \in 0 .. 32 |-> 2 ^ i]
<1>1. /\ p[0] = 1 /\ p[1] = 2 /\ p[2] = 4 /\ p[3] = 8 /\ p[4] = 16 /\ p[5] = 32 /\ p[6] = 64
      /\ p[7] = 128 /\ p[8] = 256 /\ p[9] = 512 /\ p[10] = 1024 /\ p[11] = 2048
      /\ p[12] = 4096 /\ p[13] = 8192 /\ p[14] = 16384 /\ p[15] = 32768
  OBVIOUS
<1>2. /\ p[16] = 65536
      /\ p[17] = 131072 /\ p[18] = 262144 /\ p[19] = 524288 /\ p[20] = 1048576
      /\ p[21] = 2097152 /\ p[22] = 4194304 /\ p[23] = 8388608 /\ p[24] = 16777216
      /\ p[25] = 33554432 /\ p[26] = 67108864 /\ p[27] = 134217728 /\ p[28] = 268435456
      /\ p[29] = 536870912 /\ p[30] = 1073741824 /\ p[31] = 2147483648 /\ p[32] = 4294967296
  OBVIOUS
<1>3. \A i \in 0 .. 32 : p[i] = 2 ^ i
  OBVIOUS
<1>. HIDE DEF p
<1>4. k \in 0 .. 32 /\ k + 1 \in 0 .. 32
  OBVIOUS
<1>5. 2 ^ k = p[k] /\ 2 ^ (k + 1) = p[k + 1]
  BY <1>3, <1>4
<1>6. \/ k = 0 \/ k = 1 \/ k = 2 \/ k = 3 \/ k = 4 \/ k = 5 \/ k = 6 \/ k = 7 \/ k = 8
      \/ k = 9 \/ k = 10 \/ k = 11 \/ k = 12 \/ k = 13 \/ k = 14 \/ k = 15 \/ k = 16
      \/ k = 17 \/ k = 18 \/ k = 19 \/ k = 20 \/ k = 21 \/ k = 22 \/ k = 23 \/ k = 24
      \/ k = 25 \/ k = 26 \/ k = 27 \/ k = 28 \/ k = 29 \/ k = 30 \/ k = 31
  OBVIOUS
<1>7. p[k] \in Nat \ {0} /\ p[k + 1] = 2 * p[k]
  BY <1>1, <1>2, <1>6
<1>. QED  BY <1>5, <1>7

\* The value of a set of positions, by the sums over the positions below k.
LEMMA ValueIsSum ==
  ASSUME NEW bits
  PROVE  \E f \in [0 .. 31 -> Int] :
           /\ f[0] = 0
           /\ \A k \in 0 .. 30 : f[k + 1] = f[k] + (IF k \in bits THEN 2 ^ k ELSE 0)
           /\ Value(bits) = f[31]
<1>. DEFINE c == [k \in 0 .. 30 |-> IF k \in bits THEN 2 ^ k ELSE 0]
            IsBelow(f) ==
              f = [k \in 0 .. 31 |-> IF k = 0 THEN 0
                     ELSE f[k - 1] + (IF k - 1 \in bits THEN 2 ^ (k - 1) ELSE 0)]
            below == CHOOSE f : IsBelow(f)
<1>1. Value(bits) = below[31]
  BY DEF Value
<1>2. \A k \in 0 .. 30 : c[k] = (IF k \in bits THEN 2 ^ k ELSE 0) /\ c[k] \in Int
  OBVIOUS
<1>. HIDE DEF c
<1>3. PICK f \in [0 .. 31 -> Int] : AreSums(f, c, 31)
  <2>1. \A k \in 0 .. 31 - 1 : c[k] \in Int
    BY <1>2
  <2>. QED  BY <2>1, SumsExist
<1>4. ASSUME NEW g PROVE AreSums(g, c, 31) <=> IsBelow(g)
  <2>1. \A k \in 0 .. 31 : k # 0 => k - 1 \in 0 .. 30
    OBVIOUS
  <2>2. [k \in 0 .. 31 |-> IF k = 0 THEN 0 ELSE g[k - 1] + c[k - 1]]
          = [k \in 0 .. 31 |-> IF k = 0 THEN 0
               ELSE g[k - 1] + (IF k - 1 \in bits THEN 2 ^ (k - 1) ELSE 0)]
    BY <1>2, <2>1
  <2>. QED  BY <2>2 DEF AreSums
<1>5. IsBelow(f)
  BY <1>3, <1>4
<1>6. IsBelow(below)
  BY <1>5
<1>7. below \in [0 .. 31 -> Int]
  <2>1. \A k \in 0 .. 31 - 1 : c[k] \in Int
    BY <1>2
  <2>. QED  BY <1>4, <1>6, <2>1, SumsAreNumbers
<1>. HIDE DEF below
<1>8. below[0] = 0
  BY <1>6
<1>9. ASSUME NEW k \in 0 .. 30
      PROVE  below[k + 1] = below[k] + (IF k \in bits THEN 2 ^ k ELSE 0)
  <2>1. k + 1 \in 0 .. 31 /\ k + 1 # 0 /\ k + 1 - 1 = k
    OBVIOUS
  <2>2. AreSums(below, c, 31)
    BY <1>4, <1>6
  <2>3. below[k + 1] = below[k] + c[k]
    BY <2>1, <2>2 DEF AreSums
  <2>. QED  BY <1>2, <2>3
<1>. QED  BY <1>1, <1>7, <1>8, <1>9

LEMMA RemainderIsUnique ==
  ASSUME NEW n \in Nat \ {0}, NEW x \in Int, NEW q \in Int, NEW r \in 0 .. n - 1,
         x = n * q + r
  PROVE  x % n = r /\ x \div n = q
<1>. DEFINE d == x \div n
            e == x % n
<1>1. d \in Int /\ e \in 0 .. n - 1 /\ x = n * d + e
  BY Z3
<1>. HIDE DEF d, e
<1>2. n * (q - d) = e - r
  BY <1>1
<1>3. q - d = 0
  <2>1. CASE q - d >= 1
    <3>1. n * (q - d) >= n
      BY <2>1, <1>1
    <3>. QED  BY <3>1, <1>1, <1>2
  <2>2. CASE q - d <= -1
    <3>1. n * (q - d) <= -n
      BY <2>2, <1>1
    <3>. QED  BY <3>1, <1>1, <1>2
  <2>. QED  BY <2>1, <2>2, <1>1
<1>. QED  BY <1>1, <1>2, <1>3 DEF d, e

\* One more binary digit of a number.
LEMMA NextDigit ==
  ASSUME NEW x \in Nat, NEW p \in Nat \ {0}
  PROVE  x % (2 * p) = (x % p) + p * ((x \div p) % 2)
<1>. DEFINE q == x \div p
            r == x % p
            h == q \div 2
            b == q % 2
<1>1. q \in Int /\ r \in 0 .. p - 1 /\ x = p * q + r
  BY Z3
<1>. HIDE DEF q, r
<1>2. h \in Int /\ b \in 0 .. 1 /\ q = 2 * h + b
  BY <1>1, Z3
<1>. HIDE DEF h, b
<1>3. p * b \in Int /\ 0 <= p * b /\ p * b <= p
  <2>1. b = 0 \/ b = 1
    BY <1>2
  <2>. QED  BY <2>1
<1>4. x = (2 * p) * h + (p * b + r)
  <2>1. p * q = (2 * p) * h + p * b
    BY <1>1, <1>2
  <2>. QED  BY <1>1, <1>2, <1>3, <2>1
<1>5. p * b + r \in 0 .. 2 * p - 1
  BY <1>1, <1>3
<1>6. x % (2 * p) = p * b + r
  <2>. DEFINE n == 2 * p  s == p * b + r
  <2>1. n \in Nat \ {0} /\ s \in 0 .. n - 1 /\ x = n * h + s
    BY <1>4, <1>5
  <2>. HIDE DEF n, s
  <2>2. x % n = s
    BY <1>2, <2>1, RemainderIsUnique
  <2>. QED  BY <2>2 DEF n, s
<1>. QED  BY <1>1, <1>3, <1>6 DEF b, r, q

\* The bits of a number that has 31 of them have its value.
LEMMA ValueOfBits ==
  ASSUME NEW x \in 0 .. 2 ^ 31 - 1
  PROVE  Value(Bits(x)) = x
<1>1. PICK f \in [0 .. 31 -> Int] :
        /\ f[0] = 0
        /\ \A k \in 0 .. 30 : f[k + 1] = f[k] + (IF k \in Bits(x) THEN 2 ^ k ELSE 0)
        /\ Value(Bits(x)) = f[31]
  BY ValueIsSum
<1>2. x \in Nat
  OBVIOUS
<1>. DEFINE T == {k \in 0 .. 31 : f[k] # x % 2 ^ k}
<1>3. T = {}
  <2>. SUFFICES ASSUME T # {} PROVE FALSE
    OBVIOUS
  <2>1. T \in SUBSET Nat
    OBVIOUS
  <2>2. PICK m \in T : \A y \in T : ~(y < m)
    <3>. HIDE DEF T
    <3>. QED  BY <2>1, LeastNatural
  <2>3. m # 0
    <3>1. x % 2 ^ 0 = 0
      BY <1>2
    <3>. QED  BY <1>1, <3>1
  <2>. DEFINE k == m - 1
  <2>4. k \in 0 .. 30 /\ k + 1 = m /\ k \notin T /\ k \in 0 .. 31
    BY <2>2, <2>3
  <2>5. f[k] = x % 2 ^ k /\ f[k] \in Int
    BY <1>1, <2>4
  <2>. HIDE DEF k
  <2>. DEFINE p == 2 ^ k
  <2>6. p \in Nat \ {0} /\ 2 ^ m = 2 * p
    BY <2>4, PowersOfTwo
  <2>7. f[m] = f[k] + (IF k \in Bits(x) THEN p ELSE 0)
    BY <1>1, <2>4
  <2>8. k \in Bits(x) <=> (x \div p) % 2 = 1
    BY <2>4 DEF Bits
  <2>. HIDE DEF p
  <2>9. (x \div p) % 2 \in {0, 1}
    BY <1>2, <2>6, Z3
  <2>10. f[m] = (x % p) + p * ((x \div p) % 2)
    BY <2>5, <2>6, <2>7, <2>8, <2>9 DEF p
  <2>11. f[m] = x % (2 * p)
    BY <1>2, <2>6, <2>10, NextDigit
  <2>. QED  BY <2>2, <2>6, <2>11
<1>. DEFINE w == 31
<1>4. w \in 0 .. 31 /\ x % 2 ^ w = x
  OBVIOUS
<1>. HIDE DEF w
<1>5. f[w] = x % 2 ^ w
  BY <1>3, <1>4
<1>. QED  BY <1>1, <1>4, <1>5 DEF w

LEMMA PowersGrow ==
  ASSUME NEW k \in 0 .. 31, NEW i \in k .. 31
  PROVE  2 ^ k <= 2 ^ i
<1>. DEFINE T == {j \in k .. 31 : ~(2 ^ k <= 2 ^ j)}
<1>1. T = {}
  <2>. SUFFICES ASSUME T # {} PROVE FALSE
    OBVIOUS
  <2>1. T \in SUBSET Nat
    OBVIOUS
  <2>2. PICK m \in T : \A y \in T : ~(y < m)
    <3>. HIDE DEF T
    <3>. QED  BY <2>1, LeastNatural
  <2>3. m # k
    OBVIOUS
  <2>4. m - 1 \in k .. 31 /\ m - 1 \notin T /\ m - 1 \in 0 .. 30 /\ m - 1 + 1 = m
    BY <2>2, <2>3
  <2>5. 2 ^ k <= 2 ^ (m - 1)
    BY <2>2, <2>4
  <2>6. 2 ^ m = 2 * 2 ^ (m - 1) /\ 2 ^ (m - 1) \in Nat
    <3>1. m - 1 \in 0 .. 31
      BY <2>4
    <3>2. m - 1 + 1 = m
      BY <2>4
    <3>. HIDE DEF T
    <3>. QED  BY <3>1, <3>2, PowersOfTwo
  <2>. QED  BY <2>2, <2>5, <2>6
<1>. QED  BY <1>1

\* A number of k bits has none beyond them.
LEMMA BitsBelow ==
  ASSUME NEW k \in 0 .. 31, NEW x \in 0 .. 2 ^ k - 1
  PROVE  Bits(x) \subseteq 0 .. k - 1
<1>. SUFFICES ASSUME NEW i \in Bits(x), i \notin 0 .. k - 1 PROVE FALSE
  OBVIOUS
<1>1. x \in Nat /\ i \in 0 .. 30 /\ (x \div 2 ^ i) % 2 = 1
  BY DEF Bits
<1>2. i \in k .. 31
  BY <1>1
<1>. DEFINE p == 2 ^ i
<1>3. p \in Nat \ {0} /\ x < p
  <2>1. 2 ^ k <= 2 ^ i
    BY <1>2, PowersGrow
  <2>2. 2 ^ i \in Nat \ {0}
    <3>1. i \in 0 .. 31
      BY <1>1
    <3>. QED  BY <3>1, PowersOfTwo
  <2>. QED  BY <2>1, <2>2
<1>4. (x \div p) % 2 = 1
  BY <1>1
<1>. HIDE DEF p
<1>5. x \div p = 0
  BY <1>1, <1>3, Z3
<1>. QED  BY <1>4, <1>5

LEMMA SmallBits ==
  Bits(1) = {0} /\ Bits(2) = {1} /\ Bits(5) = {0, 2}
<1>1. \A x \in {1, 2, 5} : Bits(x) \subseteq 0 .. 2
  <2>1. 3 \in 0 .. 31 /\ {1, 2, 5} \subseteq 0 .. 2 ^ 3 - 1
    OBVIOUS
  <2>2. \A x \in 0 .. 2 ^ 3 - 1 : Bits(x) \subseteq 0 .. 3 - 1
    BY <2>1, BitsBelow
  <2>. QED  BY <2>1, <2>2
<1>2. \A x \in {1, 2, 5} : \A i \in 0 .. 2 : i \in Bits(x) <=> (x \div 2 ^ i) % 2 = 1
  BY DEF Bits
<1>3. 2 ^ 0 = 1 /\ 2 ^ 1 = 2 /\ 2 ^ 2 = 4
  OBVIOUS
<1>4. \A x \in {1, 2, 5} :
        /\ 0 \in Bits(x) <=> (x \div 1) % 2 = 1
        /\ 1 \in Bits(x) <=> (x \div 2) % 2 = 1
        /\ 2 \in Bits(x) <=> (x \div 4) % 2 = 1
  BY <1>2, <1>3
<1>5. \A x \in {1, 2, 5} : \A i \in Bits(x) : i = 0 \/ i = 1 \/ i = 2
  BY <1>1
<1>. QED  BY <1>4, <1>5

(***************************************************************************)
(* The emulator's bit operations: one call of one of them, on words of any *)
(* width up to the code's.                                                 *)
(***************************************************************************)
BitOperations(BITS, word, start, finish) == INSTANCE MCEmulatorUtils

LEMMA PowersAdd ==
  ASSUME NEW a \in Nat, NEW b \in Nat, a + b <= 32
  PROVE  2 ^ (a + b) = 2 ^ a * 2 ^ b /\ 2 ^ a \in Nat \ {0} /\ 2 ^ b \in Nat \ {0}
<1>1. \A k \in 0 .. 32 : 2 ^ k \in Nat \ {0}
  <2>. SUFFICES ASSUME NEW k \in 0 .. 32 PROVE 2 ^ k \in Nat \ {0}
    OBVIOUS
  <2>1. CASE k = 0
    <3>1. 2 ^ 0 = 1
      OBVIOUS
    <3>. QED  BY <2>1, <3>1
  <2>2. CASE k # 0
    <3>1. k - 1 \in 0 .. 31 /\ k - 1 + 1 = k
      BY <2>2
    <3>. DEFINE j == k - 1
    <3>2. 2 ^ j \in Nat \ {0} /\ 2 ^ (j + 1) = 2 * 2 ^ j
      <4>. HIDE DEF j
      <4>. QED  BY <3>1, PowersOfTwo DEF j
    <3>3. j + 1 = k
      BY <3>1
    <3>. HIDE DEF j
    <3>. QED  BY <3>2, <3>3
  <2>. QED  BY <2>1, <2>2
<1>a. a \in 0 .. 32 /\ b \in 0 .. 32 /\ b \in 0 .. b
  OBVIOUS
<1>. DEFINE T == {j \in 0 .. b : 2 ^ (a + j) # 2 ^ a * 2 ^ j}
<1>2. T = {}
  <2>. SUFFICES ASSUME T # {} PROVE FALSE
    OBVIOUS
  <2>1. T \in SUBSET Nat
    OBVIOUS
  <2>2. PICK m \in T : \A y \in T : ~(y < m)
    <3>. HIDE DEF T
    <3>. QED  BY <2>1, LeastNatural
  <2>3. m \in 0 .. b
    OBVIOUS
  <2>4. m # 0
    <3>1. a + 0 = a /\ 2 ^ 0 = 1
      OBVIOUS
    <3>2. 2 ^ a \in Nat
      BY <1>1, <1>a
    <3>3. 2 ^ (a + 0) = 2 ^ a * 2 ^ 0
      BY <3>1, <3>2
    <3>. QED  BY <3>3
  <2>. DEFINE k == m - 1
  <2>5. k \in 0 .. b /\ k \in 0 .. 31 /\ a + k \in 0 .. 31 /\ k + 1 = m /\ a + k + 1 = a + m
    BY <2>3, <2>4
  <2>6. k \notin T
    BY <2>2, <2>3
  <2>7. 2 ^ (a + k) = 2 ^ a * 2 ^ k
    BY <2>5, <2>6
  <2>. HIDE DEF k, T
  <2>8. 2 ^ (a + m) = 2 * 2 ^ (a + k) /\ 2 ^ m = 2 * 2 ^ k
    BY <2>5, PowersOfTwo
  <2>. DEFINE p == 2 ^ a  q == 2 ^ k
  <2>9. p \in Nat /\ q \in Nat
    <3>1. k \in 0 .. 32
      BY <2>5
    <3>. QED  BY <1>1, <1>a, <3>1
  <2>10. 2 ^ (a + m) = 2 * (p * q) /\ 2 ^ m = 2 * q
    BY <2>7, <2>8
  <2>11. 2 ^ (a + m) = p * 2 ^ m
    <3>. HIDE DEF p, q
    <3>1. p * (2 * q) = 2 * (p * q)
      BY <2>9
    <3>. QED  BY <2>10, <3>1
  <2>. QED  BY <2>3, <2>11 DEF T
<1>. QED  BY <1>1, <1>a, <1>2

LEMMA QuotientOfQuotient ==
  ASSUME NEW x \in Nat, NEW p \in Nat \ {0}, NEW q \in Nat \ {0}
  PROVE  (x \div p) \div q = x \div (p * q)
<1>. DEFINE d == x \div p
            e == x % p
            h == d \div q
            g == d % q
            n == p * q
            r == p * g + e
<1>1. d \in Int /\ e \in 0 .. p - 1 /\ x = p * d + e
  BY Z3
<1>. HIDE DEF d, e
<1>2. h \in Int /\ g \in 0 .. q - 1 /\ d = q * h + g
  BY <1>1, Z3
<1>. HIDE DEF h, g
<1>3. n \in Nat \ {0}
  BY Z3
<1>4. p * g \in Nat /\ p * g <= p * (q - 1)
  BY <1>2, Z3
<1>5. p * (q - 1) = n - p
  BY Z3
<1>6. p * d = n * h + p * g
  <2>1. p * d = p * (q * h + g)
    BY <1>2
  <2>2. p * (q * h + g) = (p * q) * h + p * g
    BY <1>1, <1>2, Z3
  <2>. QED  BY <2>1, <2>2
<1>7. n * h \in Int
  BY <1>2, <1>3
<1>. DEFINE pg == p * g
            nh == n * h
            pd == p * d
<1>8. pg \in Nat /\ pg <= n - p /\ nh \in Int /\ pd = nh + pg /\ x = pd + e
  BY <1>1, <1>4, <1>5, <1>6, <1>7
<1>. HIDE DEF n, pg, nh, pd
<1>9. x = nh + (pg + e) /\ pg + e \in 0 .. n - 1
  BY <1>1, <1>3, <1>8
<1>10. x \div n = h
  <2>. DEFINE s == pg + e
  <2>1. x = n * h + s /\ s \in 0 .. n - 1
    BY <1>9 DEF nh
  <2>. HIDE DEF s
  <2>. QED  BY <1>2, <1>3, <2>1, RemainderIsUnique
<1>. QED  BY <1>10 DEF n, h, d

(***************************************************************************)
(* Bits of parts of a number                                               *)
(***************************************************************************)
Bit(n, i) == (n \div 2 ^ i) % 2

LEMMA BitType ==
  ASSUME NEW n \in Nat, NEW i \in 0 .. 32
  PROVE  Bit(n, i) \in {0, 1} /\ n \div 2 ^ i \in Nat /\ n % 2 ^ i \in 0 .. 2 ^ i - 1
<1>1. 2 ^ i \in Nat \ {0}
  <2>1. i \in Nat /\ 0 + i <= 32 /\ 0 \in Nat
    OBVIOUS
  <2>. QED  BY <2>1, PowersAdd
<1>. DEFINE p == 2 ^ i
            q == n \div p
<1>2. p \in Nat \ {0}
  BY <1>1
<1>. HIDE DEF p
<1>3. q \in Nat /\ n % p \in 0 .. p - 1
  BY <1>2, Z3
<1>4. q % 2 \in {0, 1}
  <2>. HIDE DEF q
  <2>. QED  BY <1>3, Z3
<1>. QED  BY <1>3, <1>4 DEF Bit, p, q

LEMMA BitOfQuotient ==
  ASSUME NEW n \in Nat, NEW a \in Nat, NEW i \in Nat, a + i <= 32
  PROVE  Bit(n \div 2 ^ a, i) = Bit(n, a + i)
<1>. DEFINE p == 2 ^ a  q == 2 ^ i
<1>1. p \in Nat \ {0} /\ q \in Nat \ {0} /\ 2 ^ (a + i) = p * q
  BY PowersAdd
<1>. HIDE DEF p, q
<1>2. (n \div p) \div q = n \div (p * q)
  BY <1>1, QuotientOfQuotient
<1>. QED  BY <1>1, <1>2 DEF Bit, p, q

LEMMA BitOfRemainder ==
  ASSUME NEW n \in Nat, NEW k \in 0 .. 32, NEW i \in 0 .. k - 1
  PROVE  Bit(n % 2 ^ k, i) = Bit(n, i)
<1>. DEFINE p == 2 ^ i
            m == 2 ^ (k - i - 1)
            w == 2 ^ k
            h == n \div w
            y == n % w
            t == y \div p
            u == y % p
<1>1. p \in Nat \ {0} /\ m \in Nat \ {0} /\ w = 2 * (p * m)
  <2>1. /\ i \in Nat /\ k - i - 1 \in Nat /\ i + (k - i - 1) <= 32
        /\ 1 \in Nat /\ i + (k - i - 1) \in Nat /\ 1 + (i + (k - i - 1)) <= 32
        /\ 1 + (i + (k - i - 1)) = k
    OBVIOUS
  <2>. DEFINE j == i + (k - i - 1)
  <2>2. 2 ^ j = p * m /\ p \in Nat \ {0} /\ m \in Nat \ {0}
    BY <2>1, PowersAdd
  <2>3. 2 ^ (1 + j) = 2 ^ 1 * 2 ^ j
    <3>. HIDE DEF p, m
    <3>1. j \in Nat /\ 1 + j <= 32
      BY <2>1
    <3>. HIDE DEF j
    <3>. QED  BY <2>1, <3>1, PowersAdd
  <2>4. 2 ^ 1 = 2 /\ 1 + j = k
    BY <2>1
  <2>. HIDE DEF p, m
  <2>. QED  BY <2>2, <2>3, <2>4
<1>. HIDE DEF p, m, w
<1>2. w \in Nat \ {0}
  BY <1>1, Z3
<1>3. h \in Nat /\ y \in Nat /\ n = w * h + y
  BY <1>2, Z3
<1>. HIDE DEF h, y
<1>4. t \in Int /\ u \in 0 .. p - 1 /\ y = p * t + u
  BY <1>1, <1>3, Z3
<1>. HIDE DEF t, u
<1>. DEFINE c == 2 * (m * h)
            q == c + t
<1>5. w * h = p * c
  BY <1>1, <1>3, Z3
<1>6. c \in Int /\ q \in Int
  BY <1>1, <1>3, <1>4, Z3
<1>7. n = p * q + u
  <2>. HIDE DEF c
  <2>1. p * (c + t) = p * c + p * t
    BY <1>1, <1>4, <1>6, Z3
  <2>. DEFINE wh == w * h  pc == p * c  pt == p * t
  <2>2. n = wh + y /\ y = pt + u /\ wh = pc /\ p * q = pc + pt
    BY <1>3, <1>4, <1>5, <2>1
  <2>3. pc \in Int /\ pt \in Int
    BY <1>1, <1>4, <1>6
  <2>. HIDE DEF wh, pc, pt, q
  <2>. QED  BY <1>4, <2>2, <2>3
<1>. HIDE DEF q
<1>8. n \div p = q
  BY <1>1, <1>4, <1>6, <1>7, RemainderIsUnique
<1>9. q % 2 = t % 2
  <2>. DEFINE g == m * h
  <2>1. g \in Int /\ q = 2 * g + t
    BY <1>1, <1>3, <1>4 DEF q
  <2>. HIDE DEF g
  <2>. QED  BY <1>4, <2>1, Z3
<1>. QED  BY <1>8, <1>9 DEF Bit, t, y, w, p

\* A number is known by its bits.
LEMMA SameBits ==
  ASSUME NEW k \in 0 .. 32, NEW x \in 0 .. 2 ^ k - 1, NEW y \in 0 .. 2 ^ k - 1,
         \A i \in 0 .. k - 1 : Bit(x, i) = Bit(y, i)
  PROVE  x = y
<1>0. 2 ^ k \in Nat \ {0}
  <2>1. k \in Nat /\ 0 + k <= 32 /\ 0 \in Nat
    OBVIOUS
  <2>. QED  BY <2>1, PowersAdd
<1>1. x \in Nat /\ y \in Nat
  BY <1>0
<1>. DEFINE T == {j \in 0 .. k : x % 2 ^ j # y % 2 ^ j}
<1>2. T = {}
  <2>. SUFFICES ASSUME T # {} PROVE FALSE
    OBVIOUS
  <2>1. T \in SUBSET Nat
    OBVIOUS
  <2>2. PICK m \in T : \A z \in T : ~(z < m)
    <3>. HIDE DEF T
    <3>. QED  BY <2>1, LeastNatural
  <2>3. m # 0
    <3>1. 2 ^ 0 = 1
      OBVIOUS
    <3>2. x % 1 = 0 /\ y % 1 = 0
      BY <1>1
    <3>. QED  BY <3>1, <3>2
  <2>. DEFINE j == m - 1
  <2>4. j \in 0 .. k - 1 /\ j \in 0 .. 31 /\ j + 1 = m /\ j \notin T /\ j \in 0 .. k
    BY <2>2, <2>3
  <2>5. x % 2 ^ j = y % 2 ^ j
    BY <2>4
  <2>6. x % 2 ^ m # y % 2 ^ m
    OBVIOUS
  <2>. HIDE DEF j, T
  <2>. DEFINE p == 2 ^ j
  <2>7. p \in Nat \ {0} /\ 2 ^ m = 2 * p
    BY <2>4, PowersOfTwo
  <2>8. (x \div p) % 2 = (y \div p) % 2
    BY <2>4 DEF Bit
  <2>9. x % p = y % p
    BY <2>5
  <2>. HIDE DEF p
  <2>10. /\ x % (2 * p) = (x % p) + p * ((x \div p) % 2)
         /\ y % (2 * p) = (y % p) + p * ((y \div p) % 2)
    BY <1>1, <2>7, NextDigit
  <2>. QED  BY <2>6, <2>7, <2>8, <2>9, <2>10
<1>3. x % 2 ^ k = y % 2 ^ k
  <2>1. k \in 0 .. k
    OBVIOUS
  <2>. QED  BY <1>2, <2>1
<1>4. \A z \in 0 .. 2 ^ k - 1 : z % 2 ^ k = z
  <2>. DEFINE p == 2 ^ k
  <2>1. p \in Nat \ {0}
    BY <1>0
  <2>. HIDE DEF p
  <2>2. \A z \in 0 .. p - 1 : z % p = z
    BY <2>1, Z3
  <2>. QED  BY <2>2 DEF p
<1>. QED  BY <1>3, <1>4

(***************************************************************************)
(* reverse_bits, and the fields of a reversed word                         *)
(***************************************************************************)
Reversed(n, k) ==
  LET f[i \in 0 .. k] == IF i = 0 THEN 0 ELSE f[i - 1] + Bit(n, i - 1) * 2 ^ (k - i)
  IN  f[k]

LEMMA ReversedIsSum ==
  ASSUME NEW n \in Nat, NEW k \in 0 .. 32
  PROVE  \E f \in [0 .. k -> Int] :
           /\ f[0] = 0
           /\ \A i \in 0 .. k - 1 : f[i + 1] = f[i] + Bit(n, i) * 2 ^ (k - 1 - i)
           /\ Reversed(n, k) = f[k]
<1>. DEFINE c == [i \in 0 .. k - 1 |-> Bit(n, i) * 2 ^ (k - 1 - i)]
            IsBelow(f) ==
              f = [i \in 0 .. k |-> IF i = 0 THEN 0 ELSE f[i - 1] + Bit(n, i - 1) * 2 ^ (k - i)]
            below == CHOOSE f : IsBelow(f)
<1>1. Reversed(n, k) = below[k]
  BY DEF Reversed
<1>2. \A i \in 0 .. k - 1 : c[i] = Bit(n, i) * 2 ^ (k - 1 - i) /\ c[i] \in Int
  <2>. SUFFICES ASSUME NEW i \in 0 .. k - 1
                PROVE  c[i] = Bit(n, i) * 2 ^ (k - 1 - i) /\ c[i] \in Int
    OBVIOUS
  <2>1. k - 1 - i \in Nat /\ 0 + (k - 1 - i) <= 32 /\ 0 \in Nat /\ i \in 0 .. 32
    OBVIOUS
  <2>. DEFINE j == k - 1 - i
  <2>2. 2 ^ j \in Nat
    <3>. HIDE DEF j
    <3>. QED  BY <2>1, PowersAdd DEF j
  <2>3. Bit(n, i) \in {0, 1}
    BY <2>1, BitType
  <2>4. c[i] = Bit(n, i) * 2 ^ j
    OBVIOUS
  <2>. HIDE DEF c
  <2>. DEFINE p == 2 ^ j  b == Bit(n, i)
  <2>5. b * p \in Int
    <3>1. p \in Nat /\ b \in {0, 1}
      BY <2>2, <2>3
    <3>. HIDE DEF p, b
    <3>. QED  BY <3>1
  <2>. QED  BY <2>4, <2>5
<1>. HIDE DEF c
<1>3. PICK f \in [0 .. k -> Int] : AreSums(f, c, k)
  <2>1. k \in Nat
    OBVIOUS
  <2>. QED  BY <1>2, <2>1, SumsExist
<1>4. ASSUME NEW g PROVE AreSums(g, c, k) <=> IsBelow(g)
  <2>1. ASSUME NEW i \in 0 .. k, i # 0 PROVE c[i - 1] = Bit(n, i - 1) * 2 ^ (k - i)
    <3>1. i - 1 \in 0 .. k - 1 /\ k - 1 - (i - 1) = k - i
      BY <2>1
    <3>2. c[i - 1] = Bit(n, i - 1) * 2 ^ (k - 1 - (i - 1))
      BY <1>2, <3>1
    <3>. QED  BY <3>1, <3>2
  <2>2. [i \in 0 .. k |-> IF i = 0 THEN 0 ELSE g[i - 1] + c[i - 1]]
          = [i \in 0 .. k |-> IF i = 0 THEN 0 ELSE g[i - 1] + Bit(n, i - 1) * 2 ^ (k - i)]
    BY <2>1
  <2>. QED  BY <2>2 DEF AreSums
<1>5. IsBelow(f)
  BY <1>3, <1>4
<1>6. IsBelow(below)
  BY <1>5
<1>7. AreSums(below, c, k)
  BY <1>4, <1>6
<1>8. below \in [0 .. k -> Int]
  <2>1. k \in Nat
    OBVIOUS
  <2>. HIDE DEF below
  <2>. QED  BY <1>2, <1>7, <2>1, SumsAreNumbers
<1>. HIDE DEF below
<1>9. below[0] = 0
  BY <1>7 DEF AreSums
<1>10. ASSUME NEW i \in 0 .. k - 1
       PROVE  below[i + 1] = below[i] + Bit(n, i) * 2 ^ (k - 1 - i)
  <2>1. i + 1 \in 0 .. k /\ i + 1 # 0 /\ i + 1 - 1 = i
    OBVIOUS
  <2>2. below[i + 1] = below[i] + c[i]
    BY <1>7, <2>1 DEF AreSums
  <2>. QED  BY <1>2, <2>2
<1>. QED  BY <1>1, <1>8, <1>9, <1>10

\* A number with one more bit at its low end.
LEMMA BitsOfDouble ==
  ASSUME NEW q \in Nat, NEW b \in {0, 1}
  PROVE  /\ Bit(2 * q + b, 0) = b
         /\ \A j \in 0 .. 31 : Bit(2 * q + b, j + 1) = Bit(q, j)
<1>. DEFINE x == 2 * q + b
<1>1. x \in Nat /\ x % 2 = b /\ x \div 2 = q
  <2>. QED  BY Z3
<1>. HIDE DEF x
<1>2. Bit(x, 0) = b
  <2>1. 2 ^ 0 = 1 /\ x \div 1 = x
    BY <1>1
  <2>. QED  BY <1>1, <2>1 DEF Bit
<1>3. ASSUME NEW j \in 0 .. 31 PROVE Bit(x, j + 1) = Bit(q, j)
  <2>1. j \in Nat /\ 1 \in Nat /\ 1 + j <= 32 /\ 1 + j = j + 1 /\ 2 ^ 1 = 2
    OBVIOUS
  <2>2. Bit(x \div 2 ^ 1, j) = Bit(x, 1 + j)
    BY <1>1, <2>1, BitOfQuotient
  <2>. QED  BY <1>1, <2>1, <2>2
<1>. QED  BY <1>2, <1>3 DEF x

\* What reverse_num holds after i steps: a number of i bits, moved up.
LEMMA ReversedBits ==
  ASSUME NEW n \in Nat, NEW k \in 0 .. 32
  PROVE  /\ Reversed(n, k) \in 0 .. 2 ^ k - 1
         /\ \A j \in 0 .. k - 1 : Bit(Reversed(n, k), k - 1 - j) = Bit(n, j)
<1>1. PICK f \in [0 .. k -> Int] :
        /\ f[0] = 0
        /\ \A i \in 0 .. k - 1 : f[i + 1] = f[i] + Bit(n, i) * 2 ^ (k - 1 - i)
        /\ Reversed(n, k) = f[k]
  BY ReversedIsSum
<1>. DEFINE Upper(i, q) ==
              /\ q \in 0 .. 2 ^ i - 1
              /\ f[i] = 2 ^ (k - i) * q
              /\ \A j \in 0 .. i - 1 : Bit(q, i - 1 - j) = Bit(n, j)
            T == {i \in 0 .. k : ~ \E q \in Nat : Upper(i, q)}
<1>2. T = {}
  <2>. SUFFICES ASSUME T # {} PROVE FALSE
    OBVIOUS
  <2>1. T \in SUBSET Nat
    OBVIOUS
  <2>2. PICK m \in T : \A y \in T : ~(y < m)
    <3>. HIDE DEF T
    <3>. QED  BY <2>1, LeastNatural
  <2>3. m # 0
    <3>1. Upper(0, 0)
      <4>1. 2 ^ 0 = 1
        OBVIOUS
      <4>2. k - 0 = k /\ 2 ^ k * 0 = 0
        <5>1. k \in Nat /\ 0 + k <= 32 /\ 0 \in Nat
          OBVIOUS
        <5>2. 2 ^ k \in Nat
          BY <5>1, PowersAdd
        <5>. DEFINE p == 2 ^ k
        <5>3. p \in Nat
          BY <5>2
        <5>. HIDE DEF p
        <5>4. p * 0 = 0
          BY <5>3
        <5>. QED  BY <5>4 DEF p
      <4>3. f[0] = 2 ^ (k - 0) * 0
        BY <1>1, <4>2
      <4>. QED  BY <4>1, <4>3
    <3>. HIDE DEF Upper
    <3>. QED  BY <3>1
  <2>. DEFINE i == m - 1
  <2>4. /\ i \in 0 .. k /\ i \in 0 .. k - 1 /\ i \in 0 .. 31 /\ i + 1 = m /\ i \notin T
        /\ m \in 0 .. k
    <3>1. m \in 0 .. k
      OBVIOUS
    <3>2. i \in 0 .. k /\ i \in 0 .. k - 1 /\ i \in 0 .. 31 /\ i + 1 = m /\ i < m
      BY <2>3, <3>1
    <3>. HIDE DEF T, i
    <3>. QED  BY <2>2, <3>1, <3>2
  <2>. HIDE DEF Upper
  <2>5. PICK q \in Nat : Upper(i, q)
    BY <2>4
  <2>. HIDE DEF i
  <2>. DEFINE b == Bit(n, i)
              r == 2 * q + b
              p == 2 ^ (k - m)
              w == 2 ^ i
  <2>6. b \in {0, 1}
    <3>1. i \in 0 .. 32
      BY <2>4
    <3>. QED  BY <3>1, BitType
  <2>7. p \in Nat \ {0} /\ 2 ^ (k - i) = 2 * p /\ w \in Nat \ {0} /\ 2 ^ m = 2 * w
    <3>1. k - m \in 0 .. 31 /\ k - m + 1 = k - i
      BY <2>4
    <3>. DEFINE e == k - m
    <3>2. 2 ^ e \in Nat \ {0} /\ 2 ^ (e + 1) = 2 * 2 ^ e
      <4>1. e \in 0 .. 31
        BY <3>1
      <4>. HIDE DEF e
      <4>. QED  BY <4>1, PowersOfTwo
    <3>3. 2 ^ i \in Nat \ {0} /\ 2 ^ (i + 1) = 2 * 2 ^ i
      BY <2>4, PowersOfTwo
    <3>. QED  BY <2>4, <3>1, <3>2, <3>3
  <2>8. k - 1 - i = k - m
    BY <2>4
  <2>9. f[m] = f[i] + b * p
    BY <1>1, <2>4, <2>8
  <2>10. q \in 0 .. w - 1 /\ f[i] = (2 * p) * q
    <3>1. q \in 0 .. 2 ^ i - 1 /\ f[i] = 2 ^ (k - i) * q
      BY <2>5 DEF Upper
    <3>. QED  BY <2>7, <3>1
  <2>11. \A j \in 0 .. i - 1 : Bit(q, i - 1 - j) = Bit(n, j)
    BY <2>5 DEF Upper
  <2>12. /\ Bit(r, 0) = b
         /\ \A j \in 0 .. 31 : Bit(r, j + 1) = Bit(q, j)
    <3>. HIDE DEF b
    <3>. QED  BY <2>6, BitsOfDouble
  <2>13. f[m] = p * r
    <3>. HIDE DEF p, b, w
    <3>1. b = 0 \/ b = 1
      BY <2>6
    <3>. QED  BY <2>7, <2>9, <2>10, <3>1, Z3
  <2>14. r \in 0 .. 2 * w - 1
    <3>. HIDE DEF p, b, w
    <3>. QED  BY <2>6, <2>7, <2>10
  <2>15. ASSUME NEW j \in 0 .. m - 1 PROVE Bit(r, m - 1 - j) = Bit(n, j)
    <3>1. CASE j = i
      <4>1. m - 1 - j = 0
        BY <2>4, <3>1
      <4>. QED  BY <2>12, <3>1, <4>1
    <3>2. CASE j # i
      <4>1. j \in 0 .. i - 1 /\ i - 1 - j \in 0 .. 31 /\ i - 1 - j + 1 = m - 1 - j
        BY <2>4, <3>2
      <4>. DEFINE e == i - 1 - j
      <4>2. Bit(r, e + 1) = Bit(q, e)
        <5>1. e \in 0 .. 31
          BY <4>1
        <5>. HIDE DEF e, r
        <5>. QED  BY <2>12, <5>1
      <4>3. Bit(q, e) = Bit(n, j)
        BY <2>11, <4>1
      <4>4. e + 1 = m - 1 - j
        BY <4>1
      <4>. HIDE DEF e, r
      <4>. QED  BY <4>2, <4>3, <4>4
    <3>. QED  BY <3>1, <3>2
  <2>16. r \in Nat
    <3>. HIDE DEF b
    <3>. QED  BY <2>6
  <2>. HIDE DEF r
  <2>17. Upper(m, r)
    BY <2>7, <2>13, <2>14, <2>15 DEF Upper
  <2>. QED  BY <2>16, <2>17
<1>. HIDE DEF Upper
<1>3. PICK q \in Nat : Upper(k, q)
  <2>1. k \in 0 .. k
    OBVIOUS
  <2>. QED  BY <1>2, <2>1
<1>4. f[k] = q
  <2>1. f[k] = 2 ^ (k - k) * q
    BY <1>3 DEF Upper
  <2>2. k - k = 0 /\ 2 ^ 0 = 1
    OBVIOUS
  <2>3. f[k] = 1 * q
    BY <2>1, <2>2
  <2>. QED  BY <2>3
<1>. QED  BY <1>1, <1>3, <1>4 DEF Upper

LEMMA ReverseBits ==
  ASSUME NEW BITS, NEW word, NEW start, NEW finish, NEW n, NEW k
  PROVE  BitOperations(BITS, word, start, finish)!reverse_bits(n, k) = Reversed(n, k)
BY DEF BitOperations!reverse_bits, BitOperations!bit, Reversed, Bit

\* create_mask and extract_bit read every field narrower than the word, of every
\* word that memory holds with its bits reversed, for words of up to the code's 32
\* bits.
THEOREM FieldsAreRead ==
  ASSUME NEW BITS \in 1 .. 32, NEW word \in 0 .. 2 ^ BITS - 1,
         NEW start \in 0 .. BITS - 1, NEW finish \in start .. BITS - 1
  PROVE  BitOperations(BITS, word, start, finish)!FieldsOfReversedWord
<1>. SUFFICES ASSUME finish - start + 1 < BITS
              PROVE  BitOperations(BITS, word, start, finish)!FieldsOfReversedWord
  BY DEF BitOperations!FieldsOfReversedWord
<1>. DEFINE w == finish - start + 1
            to == BITS - 1 - finish
            reversed == Reversed(word, BITS)
            middle == (reversed \div 2 ^ to) % 2 ^ w
            read == Reversed(middle, w)
            field == (word \div 2 ^ start) % 2 ^ w
<1>1. /\ w \in 1 .. 32 /\ w \in 0 .. 32 /\ to \in Nat /\ to + w <= 32 /\ to \in 0 .. 32
      /\ start \in Nat /\ start + w <= 32 /\ BITS \in 0 .. 32 /\ start \in 0 .. 32
      /\ BITS - 1 - start - to + 1 = w /\ w # BITS
  OBVIOUS
<1>2. word \in Nat /\ reversed \in 0 .. 2 ^ BITS - 1 /\ reversed \in Nat
  <2>1. 2 ^ BITS \in Nat
    <3>1. 0 + BITS <= 32 /\ BITS \in Nat /\ 0 \in Nat
      OBVIOUS
    <3>. QED  BY <3>1, PowersAdd
  <2>2. word \in Nat
    BY <2>1
  <2>3. reversed \in 0 .. 2 ^ BITS - 1
    BY <1>1, <2>2, ReversedBits
  <2>. QED  BY <2>1, <2>2, <2>3
<1>3. middle \in Nat /\ field \in 0 .. 2 ^ w - 1
  <2>. HIDE DEF w, to, reversed
  <2>1. reversed \div 2 ^ to \in Nat /\ word \div 2 ^ start \in Nat
    BY <1>1, <1>2, BitType
  <2>2. middle \in 0 .. 2 ^ w - 1 /\ field \in 0 .. 2 ^ w - 1
    BY <1>1, <2>1, BitType
  <2>3. 2 ^ w \in Nat
    <3>1. 0 + w <= 32 /\ w \in Nat /\ 0 \in Nat
      BY <1>1
    <3>. QED  BY <3>1, PowersAdd
  <2>. QED  BY <2>2, <2>3
<1>4. /\ read \in 0 .. 2 ^ w - 1
      /\ \A j \in 0 .. w - 1 : Bit(read, w - 1 - j) = Bit(middle, j)
  <2>. HIDE DEF w, middle
  <2>. QED  BY <1>1, <1>3, ReversedBits
<1>5. \A j \in 0 .. BITS - 1 : Bit(reversed, BITS - 1 - j) = Bit(word, j)
  BY <1>1, <1>2, ReversedBits
<1>6. ASSUME NEW j \in 0 .. w - 1 PROVE Bit(read, j) = Bit(field, j)
  <2>. DEFINE i == w - 1 - j
  <2>1. i \in 0 .. w - 1 /\ w - 1 - i = j /\ i \in Nat /\ to + i <= 32
    OBVIOUS
  <2>2. j \in Nat /\ start + j <= 32 /\ start + j \in 0 .. BITS - 1
    OBVIOUS
  <2>3. to + i = BITS - 1 - (start + j)
    OBVIOUS
  <2>. HIDE DEF i, read
  <2>4. Bit(read, j) = Bit(middle, i)
    BY <1>4, <2>1
  <2>. HIDE DEF w, to, reversed
  <2>5. Bit(middle, i) = Bit(reversed \div 2 ^ to, i)
    <3>1. reversed \div 2 ^ to \in Nat
      BY <1>1, <1>2, BitType
    <3>. QED  BY <1>1, <2>1, <3>1, BitOfRemainder
  <2>6. Bit(reversed \div 2 ^ to, i) = Bit(reversed, to + i)
    BY <1>1, <1>2, <2>1, BitOfQuotient
  <2>7. Bit(reversed, to + i) = Bit(word, start + j)
    BY <1>5, <2>2, <2>3
  <2>8. Bit(field, j) = Bit(word \div 2 ^ start, j)
    <3>1. word \div 2 ^ start \in Nat
      BY <1>1, <1>2, BitType
    <3>. QED  BY <1>1, <3>1, BitOfRemainder
  <2>9. Bit(word \div 2 ^ start, j) = Bit(word, start + j)
    BY <1>1, <1>2, <2>2, BitOfQuotient
  <2>. QED  BY <2>4, <2>5, <2>6, <2>7, <2>8, <2>9
<1>7. read = field
  <2>. HIDE DEF read, field, w
  <2>. QED  BY <1>1, <1>3, <1>4, <1>6, SameBits
<1>8. \A x : BitOperations(BITS, word, start, finish)!reverse_bits(x, BITS) = Reversed(x, BITS)
  BY ReverseBits
<1>9. BitOperations(BITS, word, start, finish)!create_mask(start, finish, reversed) = read
  <2>. HIDE DEF reversed
  <2>1. BitOperations(BITS, word, start, finish)!create_mask(start, finish, reversed)
          = BitOperations(BITS, word, start, finish)!reverse_bits(
              (reversed \div 2 ^ to) % 2 ^ (BITS - 1 - start - to + 1), BITS - 1 - start - to + 1)
    BY DEF BitOperations!create_mask
  <2>. QED  BY <1>1, <2>1, ReverseBits
<1>10. BitOperations(BITS, word, start, finish)!field = field
  BY DEF BitOperations!field
<1>11. ASSUME start = finish
       PROVE  BitOperations(BITS, word, start, finish)!extract_bit(start, reversed)
                <=> Bit(word, start) = 1
  <2>1. w = 1 /\ 2 ^ 1 = 2
    BY <1>11
  <2>2. field = Bit(word, start)
    BY <2>1 DEF Bit
  <2>. HIDE DEF reversed, read, field
  <2>. QED  BY <1>7, <1>9, <1>11, <2>2 DEF BitOperations!extract_bit
<1>. HIDE DEF reversed, read, field
<1>12. BitOperations(BITS, word, start, finish)!reverse_bits(word, BITS) = reversed
  BY <1>8 DEF reversed
<1>. QED
  BY <1>7, <1>9, <1>10, <1>11, <1>12
  DEF BitOperations!FieldsOfReversedWord, BitOperations!bit, Bit

\* sign_extend keeps the two's complement value of every field.
THEOREM SignExtendIsRight ==
  ASSUME NEW BITS \in 1 .. 32, NEW word \in 0 .. 2 ^ BITS - 1,
         NEW start \in 0 .. BITS - 1, NEW finish \in start .. BITS - 1
  PROVE  BitOperations(BITS, word, start, finish)!SignExtendKeepsValue
<1>. DEFINE w == finish - start + 1
            field == (word \div 2 ^ start) % 2 ^ w
            m == 2 ^ (w - 1)
<1>1. /\ w \in 0 .. 32 /\ w - 1 \in 0 .. w - 1 /\ w - 1 \in Nat /\ w - 1 \in 0 .. 31
      /\ start \in Nat /\ start \in 0 .. 32 /\ start + (w - 1) <= 32 /\ start + (w - 1) = finish
      /\ w - 1 + 1 = w /\ finish - start + 1 = w /\ BITS \in Nat /\ 0 + BITS <= 32 /\ 0 \in Nat
  OBVIOUS
<1>2. word \in Nat
  <2>1. 2 ^ BITS \in Nat
    BY <1>1, PowersAdd
  <2>. QED  BY <2>1
<1>. HIDE DEF w
<1>3. m \in Nat /\ 2 ^ w = 2 * m
  <2>. DEFINE j == w - 1
  <2>1. 2 ^ j \in Nat /\ 2 ^ (j + 1) = 2 * 2 ^ j
    <3>1. j \in 0 .. 31
      BY <1>1
    <3>. HIDE DEF j
    <3>. QED  BY <3>1, PowersOfTwo
  <2>2. j + 1 = w
    BY <1>1
  <2>. HIDE DEF j
  <2>3. 2 ^ j \in Nat /\ 2 ^ w = 2 * 2 ^ j
    BY <2>1, <2>2
  <2>. QED  BY <2>3 DEF j
<1>4. word \div 2 ^ start \in Nat /\ field \in Nat
  <2>1. word \div 2 ^ start \in Nat
    BY <1>1, <1>2, BitType
  <2>2. field \in 0 .. 2 ^ w - 1
    BY <1>1, <2>1, BitType
  <2>. QED  BY <1>3, <2>1, <2>2
<1>5. Bit(field, w - 1) = Bit(word, finish)
  <2>. DEFINE j == w - 1
  <2>1. j \in 0 .. w - 1 /\ j \in Nat /\ start + j <= 32 /\ start + j = finish
    BY <1>1
  <2>. HIDE DEF j
  <2>2. Bit(field, j) = Bit(word \div 2 ^ start, j)
    BY <1>1, <1>4, <2>1, BitOfRemainder
  <2>3. Bit(word \div 2 ^ start, j) = Bit(word, start + j)
    BY <1>1, <1>2, <2>1, BitOfQuotient
  <2>. QED  BY <2>1, <2>2, <2>3 DEF j
<1>. HIDE DEF field, m
<1>6. BitOperations(BITS, word, start, finish)!sign_extend(field, w)
        = (IF Bit(word, finish) = 1 THEN field - m - m ELSE field + m - m) % 2 ^ BITS
  <2>1. BitOperations(BITS, word, start, finish)!bit(field, w - 1) = Bit(word, finish)
    BY <1>5 DEF BitOperations!bit, Bit
  <2>2. BitOperations(BITS, word, start, finish)!sign_extend(field, w)
          = ((IF BitOperations(BITS, word, start, finish)!bit(field, w - 1) = 1
                THEN field - m ELSE field + m) - m) % 2 ^ BITS
    BY DEF BitOperations!sign_extend, m
  <2>. DEFINE flipped == IF BitOperations(BITS, word, start, finish)!bit(field, w - 1) = 1
                           THEN field - m ELSE field + m
  <2>3. /\ Bit(word, finish) = 1 => flipped = field - m
        /\ Bit(word, finish) # 1 => flipped = field + m
    BY <2>1
  <2>4. BitOperations(BITS, word, start, finish)!sign_extend(field, w) = (flipped - m) % 2 ^ BITS
    BY <2>2
  <2>. HIDE DEF flipped
  <2>5. flipped - m = IF Bit(word, finish) = 1 THEN field - m - m ELSE field + m - m
    BY <1>3, <1>4, <2>3
  <2>. QED  BY <2>4, <2>5
<1>7. field - m - m = field - 2 ^ w /\ field + m - m = field
  BY <1>3, <1>4
<1>8. BitOperations(BITS, word, start, finish)!field = field /\ finish - start + 1 = w
  BY <1>1 DEF BitOperations!field, field, w
<1>. QED  BY <1>6, <1>7, <1>8 DEF BitOperations!SignExtendKeepsValue, BitOperations!bit, Bit

\* A number put together from a lower and an upper part.
IsMadeOf(x, low, a, high, b) ==
  /\ x \in 0 .. 2 ^ (a + b) - 1
  /\ \A i \in 0 .. a - 1 : Bit(x, i) = Bit(low, i)
  /\ \A i \in 0 .. b - 1 : Bit(x, a + i) = Bit(high, i)

LEMMA BitsOfParts ==
  ASSUME NEW a \in Nat, NEW b \in Nat, a + b <= 32,
         NEW low \in 0 .. 2 ^ a - 1, NEW high \in 0 .. 2 ^ b - 1,
         NEW x, x = low + 2 ^ a * high
  PROVE  IsMadeOf(x, low, a, high, b)
<1>. DEFINE p == 2 ^ a
            q == 2 ^ b
            w == 2 ^ (a + b)
<1>0. x = low + p * high
  OBVIOUS
<1>1. p \in Nat \ {0} /\ q \in Nat \ {0} /\ w = p * q
  BY PowersAdd
<1>2. low \in 0 .. p - 1 /\ high \in 0 .. q - 1
  OBVIOUS
<1>. HIDE DEF p, q, w
<1>3. x \in 0 .. w - 1 /\ x \in Nat
  <2>1. p * high <= p * (q - 1) /\ p * high \in Nat
    BY <1>1, <1>2, Z3
  <2>2. p * (q - 1) = w - p
    BY <1>1, Z3
  <2>3. w \in Nat
    BY <1>1, Z3
  <2>. DEFINE ph == p * high
  <2>4. ph <= w - p /\ ph \in Nat
    BY <2>1, <2>2
  <2>. HIDE DEF ph
  <2>. QED  BY <1>0, <1>1, <1>2, <2>3, <2>4 DEF ph
<1>4. x % p = low /\ x \div p = high
  <2>1. x = p * high + low
    <3>. DEFINE ph == p * high
    <3>1. ph \in Int
      BY <1>1, <1>2
    <3>. HIDE DEF ph
    <3>. QED  BY <1>0, <1>1, <1>2, <3>1 DEF ph
  <2>2. x \in Int /\ high \in Int
    BY <1>1, <1>2, <1>3
  <2>. QED  BY <1>1, <1>2, <2>1, <2>2, RemainderIsUnique
<1>5. ASSUME NEW i \in 0 .. a - 1 PROVE Bit(x, i) = Bit(low, i)
  <2>1. a \in 0 .. 32
    OBVIOUS
  <2>2. Bit(x % 2 ^ a, i) = Bit(x, i)
    BY <1>3, <2>1, BitOfRemainder
  <2>. QED  BY <1>4, <2>2 DEF p
<1>6. ASSUME NEW i \in 0 .. b - 1 PROVE Bit(x, a + i) = Bit(high, i)
  <2>1. i \in Nat /\ a + i <= 32
    OBVIOUS
  <2>2. Bit(x \div 2 ^ a, i) = Bit(x, a + i)
    BY <1>3, <2>1, BitOfQuotient
  <2>. QED  BY <1>4, <2>2 DEF p
<1>. QED  BY <1>3, <1>5, <1>6 DEF w, IsMadeOf

\* What a left shift keeps of a word.
LEMMA ShiftedLeft ==
  ASSUME NEW n \in Nat, NEW a \in Nat, NEW b \in Nat, a + b <= 32
  PROVE  (n * 2 ^ a) % 2 ^ (a + b) = 2 ^ a * (n % 2 ^ b)
<1>. DEFINE p == 2 ^ a
            q == 2 ^ b
            h == n \div q
            y == n % q
            w == p * q
<1>1. p \in Nat \ {0} /\ q \in Nat \ {0} /\ 2 ^ (a + b) = w
  BY PowersAdd
<1>. HIDE DEF p, q
<1>2. h \in Int /\ y \in 0 .. q - 1 /\ n = q * h + y
  BY <1>1, Z3
<1>. HIDE DEF h, y
<1>3. n * p = w * h + p * y
  BY <1>1, <1>2, Z3
<1>4. p * y <= p * (q - 1) /\ p * y \in Nat /\ p * (q - 1) = w - p /\ w \in Nat \ {0}
  BY <1>1, <1>2, Z3
<1>. DEFINE py == p * y  np == n * p
<1>5. py \in 0 .. w - 1 /\ np = w * h + py /\ np \in Int
  <2>1. py <= w - p /\ py \in Nat /\ np = w * h + py /\ np \in Int
    BY <1>1, <1>3, <1>4
  <2>. HIDE DEF py, np, w
  <2>. QED  BY <1>1, <1>4, <2>1
<1>. HIDE DEF py, np, w
<1>6. np % w = py
  BY <1>2, <1>4, <1>5, RemainderIsUnique
<1>. QED  BY <1>1, <1>6 DEF np, py, y, p, q

\* rotate_right loses and moves no bit the wrong way, for any rotation up to
\* twice the width.
THEOREM RotationIsRight ==
  ASSUME NEW BITS \in 1 .. 32, NEW word \in 0 .. 2 ^ BITS - 1,
         NEW start \in 0 .. BITS - 1, NEW finish \in start .. BITS - 1
  PROVE  BitOperations(BITS, word, start, finish)!RotateMovesEachBit
<1>. DEFINE n == BITS - start
            low == word \div 2 ^ start
            high == word % 2 ^ start
            rotated == low + 2 ^ n * high
<1>1. /\ BITS \in Nat \ {0} /\ start \in Nat /\ n \in Nat /\ n + start = BITS /\ BITS <= 32
      /\ start + n = BITS /\ start \in 0 .. 32 /\ 0 \in Nat /\ 0 + BITS <= 32
  OBVIOUS
<1>2. word \in Nat
  <2>1. 2 ^ BITS \in Nat
    BY <1>1, PowersAdd
  <2>. QED  BY <2>1
<1>3. high \in 0 .. 2 ^ start - 1
  BY <1>1, <1>2, BitType
<1>4. low \in 0 .. 2 ^ n - 1
  <2>. DEFINE p == 2 ^ start  q == 2 ^ n
  <2>1. p \in Nat \ {0} /\ q \in Nat \ {0} /\ word < q * p
    <3>1. 2 ^ (n + start) = 2 ^ n * 2 ^ start /\ p \in Nat \ {0} /\ q \in Nat \ {0}
      BY <1>1, PowersAdd
    <3>2. 2 ^ BITS = q * p
      BY <1>1, <3>1
    <3>3. word < 2 ^ BITS
      BY <1>2
    <3>. QED  BY <3>1, <3>2, <3>3
  <2>. HIDE DEF p, q
  <2>. DEFINE d == word \div p  e == word % p
  <2>2. d \in Nat /\ e \in Nat /\ word = p * d + e
    BY <1>2, <2>1, Z3
  <2>3. d <= q - 1
    <3>. HIDE DEF d, e
    <3>. SUFFICES ASSUME d >= q PROVE FALSE
      BY <2>1, <2>2
    <3>1. p * d >= p * q
      BY <2>1, <2>2, Z3
    <3>2. p * q = q * p /\ p * d \in Int /\ q * p \in Int
      BY <2>1, <2>2, Z3
    <3>. QED  BY <2>1, <2>2, <3>1, <3>2
  <2>. QED  BY <2>1, <2>2, <2>3 DEF p, q
<1>. HIDE DEF n
<1>5. /\ \A i \in 0 .. n - 1 : Bit(rotated, i) = Bit(low, i)
      /\ \A i \in 0 .. start - 1 : Bit(rotated, n + i) = Bit(high, i)
  <2>1. n + start <= 32
    BY <1>1
  <2>. HIDE DEF low, high
  <2>2. rotated = low + 2 ^ n * high
    OBVIOUS
  <2>. HIDE DEF rotated
  <2>3. n \in Nat /\ start \in Nat
    BY <1>1
  <2>4. IsMadeOf(rotated, low, n, high, start)
    BY <1>3, <1>4, <2>1, <2>2, <2>3, BitsOfParts
  <2>. QED  BY <2>4 DEF IsMadeOf
<1>6. ASSUME NEW i \in start .. BITS - 1 PROVE Bit(rotated, i - start) = Bit(word, i)
  <2>. DEFINE j == i - start
  <2>1. j \in 0 .. n - 1 /\ j \in Nat /\ start + j <= 32 /\ start + j = i
    BY <1>1
  <2>. HIDE DEF j
  <2>2. Bit(low, j) = Bit(word, start + j)
    BY <1>1, <1>2, <2>1, BitOfQuotient
  <2>. HIDE DEF rotated, low
  <2>. QED  BY <1>5, <2>1, <2>2 DEF j
<1>7. ASSUME NEW i \in 0 .. start - 1 PROVE Bit(rotated, n + i) = Bit(word, i)
  <2>1. Bit(high, i) = Bit(word, i)
    BY <1>1, <1>2, BitOfRemainder
  <2>. HIDE DEF rotated, high
  <2>. QED  BY <1>5, <2>1
<1>8. ASSUME NEW rot \in {start, start + BITS}
      PROVE  /\ rot % BITS = start
             /\ start # 0 => (-start) % BITS = n
             /\ \A i \in start .. BITS - 1 : (i - rot) % BITS = i - start
             /\ \A i \in 0 .. start - 1 : (i - rot) % BITS = n + i
  <2>1. rot % BITS = start
    <3>1. CASE rot = start
      <4>1. start = BITS * 0 + start
        BY <1>1
      <4>. QED  BY <1>1, <3>1, <4>1, RemainderIsUnique
    <3>2. CASE rot = start + BITS
      <4>1. rot = BITS * 1 + start /\ rot \in Int
        BY <1>1, <3>2
      <4>. QED  BY <1>1, <4>1, RemainderIsUnique
    <3>. QED  BY <3>1, <3>2
  <2>2. ASSUME start # 0 PROVE (-start) % BITS = n
    <3>1. -start = BITS * (-1) + n /\ -start \in Int /\ n \in 0 .. BITS - 1 /\ -1 \in Int
      BY <1>1, <2>2
    <3>. DEFINE x == -start
    <3>2. x = BITS * (-1) + n /\ x \in Int
      BY <3>1
    <3>. HIDE DEF x
    <3>3. x % BITS = n
      BY <1>1, <3>1, <3>2, RemainderIsUnique
    <3>. QED  BY <3>3 DEF x
  <2>3. ASSUME NEW i \in start .. BITS - 1 PROVE (i - rot) % BITS = i - start
    <3>. DEFINE x == i - rot  r == i - start
    <3>1. x \in Int /\ r \in 0 .. BITS - 1 /\ (x = BITS * 0 + r \/ x = BITS * (-1) + r)
      BY <1>1
    <3>. HIDE DEF x, r
    <3>2. x % BITS = r
      BY <1>1, <3>1, RemainderIsUnique
    <3>. QED  BY <3>2 DEF x, r
  <2>4. ASSUME NEW i \in 0 .. start - 1 PROVE (i - rot) % BITS = n + i
    <3>. DEFINE x == i - rot  r == n + i
    <3>1. x \in Int /\ r \in 0 .. BITS - 1 /\ (x = BITS * (-1) + r \/ x = BITS * (-2) + r)
      BY <1>1
    <3>. HIDE DEF x, r
    <3>2. x % BITS = r
      BY <1>1, <3>1, RemainderIsUnique
    <3>. QED  BY <3>2 DEF x, r
  <2>. QED  BY <2>1, <2>2, <2>3, <2>4
<1>9. ASSUME NEW rot \in {start, start + BITS}, start # 0
      PROVE  BitOperations(BITS, word, start, finish)!rotate_right(word, rot) = rotated
  <2>1. rot % BITS = start /\ (-start) % BITS = n
    BY <1>8, <1>9
  <2>2. BitOperations(BITS, word, start, finish)!rotate_right(word, rot)
          = (word \div 2 ^ start) + ((word * 2 ^ n) % 2 ^ BITS)
    BY <1>9, <2>1 DEF BitOperations!rotate_right
  <2>3. (word * 2 ^ n) % 2 ^ (n + start) = 2 ^ n * (word % 2 ^ start)
    BY <1>1, <1>2, ShiftedLeft
  <2>. QED  BY <1>1, <2>2, <2>3
<1>10. ASSUME NEW rot \in {start, start + BITS}, start = 0
       PROVE  BitOperations(BITS, word, start, finish)!rotate_right(word, rot) = word
  <2>1. rot % BITS = 0
    BY <1>8, <1>10
  <2>. QED  BY <2>1 DEF BitOperations!rotate_right
<1>. SUFFICES ASSUME NEW rot \in {start, start + BITS}, NEW i \in 0 .. BITS - 1
              PROVE  Bit(BitOperations(BITS, word, start, finish)!rotate_right(word, rot),
                         (i - rot) % BITS) = Bit(word, i)
  BY DEF BitOperations!RotateMovesEachBit, BitOperations!Positions, BitOperations!bit, Bit
<1>. HIDE DEF rotated
<1>11. CASE start = 0
  <2>1. (i - rot) % BITS = i
    BY <1>8, <1>11
  <2>. QED  BY <1>10, <1>11, <2>1
<1>12. CASE start # 0 /\ i \in start .. BITS - 1
  BY <1>6, <1>8, <1>9, <1>12
<1>13. CASE start # 0 /\ i \in 0 .. start - 1
  BY <1>7, <1>8, <1>9, <1>13
<1>. QED  BY <1>1, <1>11, <1>12, <1>13

(***************************************************************************)
(* Words are made of fields                                                *)
(***************************************************************************)
LEMMA BitsType == \A n : Bits(n) \subseteq Positions
BY DEF Bits, Positions

LEMMA SetBits ==
  ASSUME NEW word, NEW n, NEW at \in Nat
  PROVE  /\ set_bits_to(word, n, at) = word \cup set_bits_to({}, n, at)
         /\ set_bits_to({}, n, at) \subseteq Positions
BY BitsType DEF set_bits_to, Positions

\* A number of k bits, and the places its ones take from `at' on.
Fits(n, k) == n \in 0 .. 2 ^ k - 1
Shifted(n, at) == {i + at : i \in Bits(n)}

LEMMA FieldPlace ==
  ASSUME NEW k \in 0 .. 31, NEW n, Fits(n, k), NEW at \in Nat, at + k <= 32
  PROVE  /\ set_bits_to({}, n, at) = Shifted(n, at)
         /\ Shifted(n, at) \subseteq at .. at + k - 1
<1>1. Bits(n) \subseteq 0 .. k - 1
  BY BitsBelow DEF Fits
<1>. QED  BY <1>1 DEF set_bits_to, Shifted

\* A field that holds the bits of n is read as n.
LEMMA FieldValue ==
  ASSUME NEW k \in 0 .. 31, NEW n, Fits(n, k), NEW start \in Nat, NEW finish, NEW word,
         word \cap (start .. finish) = Shifted(n, start)
  PROVE  create_mask(start, finish, word) = n
<1>1. Bits(n) \subseteq Int
  BY BitsType DEF Positions
<1>2. {i - start : i \in word \cap (start .. finish)} = Bits(n)
  BY <1>1 DEF Shifted
<1>3. n \in 0 .. 2 ^ 31 - 1
  <2>. DEFINE w == 31
  <2>1. 2 ^ k <= 2 ^ w /\ 2 ^ k \in Int /\ 2 ^ w \in Int
    <3>1. w \in k .. 31 /\ 2 ^ w \in Int
      OBVIOUS
    <3>. HIDE DEF w
    <3>2. 2 ^ k <= 2 ^ w
      BY <3>1, PowersGrow
    <3>. QED  BY <3>1, <3>2
  <2>. HIDE DEF w
  <2>2. n \in 0 .. 2 ^ w - 1
    BY <2>1 DEF Fits
  <2>. QED  BY <2>2 DEF w
<1>. QED  BY <1>2, <1>3, ValueOfBits DEF create_mask

(***************************************************************************)
(* The encoders return words                                               *)
(***************************************************************************)
Words == SUBSET Positions

LEMMA SetBitsType ==
  ASSUME NEW word \in Words, NEW n, NEW at \in Nat
  PROVE  set_bits_to(word, n, at) \in Words
BY SetBits DEF Words

LEMMA AlwaysType == ALWAYS \in Words
BY SetBitsType DEF ALWAYS, Words

LEMMA ShiftedRegisterType ==
  ASSUME NEW word \in Words, NEW reg, NEW shift, NEW by
  PROVE  encode_shifted_reg(word, reg, shift, by) \in Words
BY SetBitsType DEF encode_shifted_reg

LEMMA ExpressionType ==
  ASSUME NEW word \in Words, NEW operand
  PROVE  parse_expression(word, operand) \in Words \cup {EXIT}
<1>1. ASSUME NEW n PROVE encode_immediate_op2(word, n) \in Words \cup {EXIT}
  <2>. DEFINE shift == Min(Bits(n))
              odd == {i \in Positions : i + shift \in Bits(n)}
              low == {i + (shift % 2) : i \in odd}
  <2>1. ASSUME \A i \in odd : i <= 7 PROVE low \subseteq Positions
    <3>1. CASE Bits(n) = {}
      BY <3>1
    <3>2. CASE Bits(n) # {}
      <4>1. Bits(n) \in SUBSET Nat
        BY BitsType DEF Positions
      <4>2. shift \in Nat
        <5>1. PICK z \in Bits(n) : \A y \in Bits(n) : ~(y < z)
          BY <3>2, <4>1, LeastNatural
        <5>2. \A y \in Bits(n) : z <= y
          BY <4>1, <5>1
        <5>3. shift \in Bits(n)
          BY <5>2 DEF Min
        <5>. QED  BY <4>1, <5>3
      <4>3. shift % 2 \in {0, 1}
        BY <4>2
      <4>. HIDE DEF shift
      <4>. QED  BY <2>1, <4>3 DEF Positions
    <3>. QED  BY <3>1, <3>2
  <2>2. encode_immediate_op2(word, n)
          = IF \E i \in odd : i > 7 THEN EXIT
            ELSE set_bits_to(word \cup low, 16 - shift \div 2, 8)
    BY DEF encode_immediate_op2
  <2>. HIDE DEF low
  <2>3. (\A i \in odd : i <= 7) => word \cup low \in Words
    BY <2>1 DEF Words
  <2>4. (\A i \in odd : ~(i > 7)) => \A i \in odd : i <= 7
    BY DEF Positions
  <2>. HIDE DEF odd, shift
  <2>. QED  BY <2>2, <2>3, <2>4, SetBitsType
<1>. QED  BY <1>1, SetBitsType DEF parse_expression

LEMMA DataFieldsType == \A t : DataFields(t) \in Words
<1>. SUFFICES ASSUME NEW t PROVE DataFields(t) \in Words
  OBVIOUS
<1>. DEFINE opcode == set_bits_to(ALWAYS, OpcodeBits[t.opcode], 21)
            dest == IF t.opcode \in TestOps THEN set_bits_to(opcode, 1, 20)
                    ELSE set_bits_to(opcode, number(t.operands[1]), 12)
            n == number(t.operands[Operand2Index(t.opcode) - 1])
<1>1. opcode \in Words
  BY AlwaysType, SetBitsType
<1>. HIDE DEF opcode
<1>2. dest \in Words
  BY <1>1, SetBitsType
<1>. HIDE DEF dest
<1>3. set_bits_to(dest, n, 16) \in Words
  BY <1>2, SetBitsType
<1>4. DataFields(t) = IF t.opcode \in {"mov", "lsl"} THEN dest ELSE set_bits_to(dest, n, 16)
  BY DEF DataFields, opcode, dest
<1>. QED  BY <1>2, <1>3, <1>4

LEMMA DataProcessingType == \A t : assemble_data_processing(t) \in Words \cup {EXIT}
<1>. SUFFICES ASSUME NEW t PROVE assemble_data_processing(t) \in Words \cup {EXIT}
  OBVIOUS
<1>. DEFINE w == DataFields(t)
            i == Operand2Index(t.opcode)
            op2 == t.operands[i]
            immediate == parse_expression(w, op2)
<1>1. w \in Words
  BY DataFieldsType
<1>2. /\ encode_shifted_reg(w, t.operands[1], [kind |-> "shift", n |-> 0], op2) \in Words
      /\ encode_shifted_reg(w, op2, t.operands[i + 1], t.operands[i + 2]) \in Words
      /\ set_bits_to(w, number(op2), 0) \in Words
      /\ {} \in Words
  BY <1>1, ShiftedRegisterType, SetBitsType DEF Words
<1>3. immediate # EXIT => set_bits_to(immediate, 1, 25) \in Words
  <2>1. immediate \in Words \cup {EXIT}
    BY <1>1, ExpressionType
  <2>. HIDE DEF immediate
  <2>. QED  BY <2>1, SetBitsType
<1>4. \/ assemble_data_processing(t) = {}
      \/ assemble_data_processing(t) = EXIT
      \/ assemble_data_processing(t)
           = encode_shifted_reg(w, t.operands[1], [kind |-> "shift", n |-> 0], op2)
      \/ immediate # EXIT /\ assemble_data_processing(t) = set_bits_to(immediate, 1, 25)
      \/ assemble_data_processing(t)
           = encode_shifted_reg(w, op2, t.operands[i + 1], t.operands[i + 2])
      \/ assemble_data_processing(t) = set_bits_to(w, number(op2), 0)
  BY DEF assemble_data_processing
<1>. HIDE DEF w, i, op2, immediate
<1>. QED  BY <1>2, <1>3, <1>4

LEMMA MultiplyType == \A t : assemble_multiply(t) \in Words
BY AlwaysType, SetBits DEF assemble_multiply, Words

LEMMA BranchType == \A t, jump, pc : assemble_branch(t, jump, pc) \in Words
BY SetBits DEF assemble_branch, Words

LEMMA SpecialType == \A t : assemble_special(t) \in Words
<1>1. {21, 22, 23} \subseteq Positions
  BY DEF Positions
<1>. QED  BY <1>1, AlwaysType, SetBits DEF assemble_special, Words

LEMMA TransferFieldsType == \A t : TransferFields(t) \in Words
BY AlwaysType, SetBitsType DEF TransferFields

LEMMA OffsetType ==
  ASSUME NEW word \in Words, NEW offset, IsOffset(offset)
  PROVE  encode_offset(word, offset) \in Words
<1>1. \A n \in {1, 5} : set_bits_to(word, n, 23) \in Words
  BY SetBitsType
<1>2. CASE offset = <<>>
  BY <1>1, <1>2 DEF encode_offset
<1>3. CASE offset # <<>> /\ IsConstant(offset[1])
  <2>. DEFINE base == IF offset[1].negative THEN word ELSE set_bits_to(word, 1, 23)
  <2>1. base \in Words
    BY <1>1
  <2>2. encode_offset(word, offset) = set_bits_to(base, number(offset[1]), 0)
    BY <1>3 DEF encode_offset
  <2>. HIDE DEF base
  <2>. QED  BY <2>1, <2>2, SetBitsType
<1>4. CASE offset # <<>> /\ ~IsConstant(offset[1]) /\ Len(offset) = 1
  BY <1>1, <1>4, SetBitsType DEF encode_offset
<1>5. CASE offset # <<>> /\ ~IsConstant(offset[1]) /\ Len(offset) = 3
  BY <1>1, <1>5, ShiftedRegisterType DEF encode_offset
<1>. QED  BY <1>2, <1>3, <1>4, <1>5 DEF IsOffset

LEMMA TransferType ==
  ASSUME NEW t, NEW pc, NEW last_address, NEW before, IsLiteralLoad(t) \/ IsOffset(OffsetOf(t))
  PROVE  assemble_single_data_transfer(t, pc, last_address, before) \in Words \cup {EXIT}
<1>. DEFINE fields == TransferFields(t)
            load == set_bits_to({}, PoolOffset(pc, last_address, before), 0)
                      \cup fields \cup {23, 24} \cup set_bits_to({}, 15, 16)
            move == assemble_data_processing([t EXCEPT !.opcode = "mov"])
            base == set_bits_to(fields, t.operands[2].n, 16)
            indexed == IF Len(t.operands) = 2 THEN set_bits_to(base, 1, 24) ELSE base
<1>1. fields \in Words
  BY TransferFieldsType
<1>. HIDE DEF fields
<1>2. load \in Words
  <2>1. {23, 24} \in Words
    BY DEF Words, Positions
  <2>. QED  BY <1>1, <2>1, SetBits DEF Words
<1>3. move \in Words \cup {EXIT}
  BY DataProcessingType
<1>4. indexed \in Words
  <2>1. base \in Words
    BY <1>1, SetBitsType
  <2>. HIDE DEF base
  <2>. QED  BY <2>1, SetBitsType
<1>5. IsOffset(OffsetOf(t)) => encode_offset(indexed, OffsetOf(t)) \in Words
  <2>. HIDE DEF indexed
  <2>. QED  BY <1>4, OffsetType
<1>6. assemble_single_data_transfer(t, pc, last_address, before)
        = IF UsesPool(t) THEN load
          ELSE IF IsLiteralLoad(t) THEN move ELSE encode_offset(indexed, OffsetOf(t))
  BY DEF assemble_single_data_transfer, fields
<1>. HIDE DEF load, move, indexed
<1>. QED  BY <1>2, <1>3, <1>5, <1>6

(***************************************************************************)
(* A backward branch                                                       *)
(***************************************************************************)
\* Twenty-four bits hold the way back, in words, and the decoder's sign
\* extension returns it.
LEMMA BackwardBranchDecodes ==
  ASSUME NEW t, t.opcode \in BranchOps, NEW pc \in Nat, NEW j \in 0 .. pc,
         pc + 2 - j <= 2 ^ 23
  PROVE  LET word == decode(assemble_branch(t, 4 * j, pc))
         IN  /\ word.type = "BRANCH"
             /\ word.cond = CondBits[t.opcode]
             /\ word.offset = 4 * j - 4 * pc - 8
<1>. DEFINE d == pc + 2 - j
            field == 2 ^ 24 - d
            cond == CondBits[t.opcode]
            word == assemble_branch(t, 4 * j, pc)
<1>1. d \in 2 .. 2 ^ 23
  OBVIOUS
<1>2. field \in 0 .. 2 ^ 24 - 1 /\ field >= 2 ^ 23 /\ field \in 0 .. 2 ^ 31 - 1
  BY <1>1
<1>3. BranchOffset(4 * j, pc) = field
  <2>1. (4 * j - 4 * pc - 8) \div 4 = -d
    BY Z3
  <2>2. (-d) % 2 ^ 24 = field
    <3>. DEFINE n == 2 ^ 24  x == -d
    <3>1. n \in Nat \ {0} /\ x \in Int /\ field \in 0 .. n - 1 /\ x = n * (-1) + field
      BY <1>1
    <3>. HIDE DEF n, x, field
    <3>2. x % n = field
      BY <3>1, RemainderIsUnique
    <3>. QED  BY <3>2 DEF n, x
  <2>. QED  BY <2>1, <2>2 DEF BranchOffset
<1>4. Fits(cond, 4) /\ Fits(field, 24) /\ Fits(2, 2)
  BY <1>2 DEF CondBits, BranchOps, Fits
<1>5. 23 \in Bits(field)
  <2>. DEFINE p == 2 ^ 23
  <2>1. p \in Nat \ {0} /\ field \in p .. 2 * p - 1
    BY <1>2
  <2>2. 23 \in Bits(field) <=> (field \div p) % 2 = 1
    BY DEF Bits
  <2>. HIDE DEF p, field
  <2>3. field \div p = 1
    <3>1. field = p * 1 + (field - p) /\ field - p \in 0 .. p - 1 /\ field \in Int
      BY <2>1
    <3>. QED  BY <2>1, <3>1, RemainderIsUnique
  <2>. QED  BY <2>2, <2>3
<1>. HIDE DEF d, field, cond
<1>6. /\ set_bits_to({}, cond, 28) = Shifted(cond, 28) /\ Shifted(cond, 28) \subseteq 28 .. 31
      /\ set_bits_to({}, field, 0) = Shifted(field, 0) /\ Shifted(field, 0) \subseteq 0 .. 23
  BY <1>4, FieldPlace
<1>7. set_bits_to({}, 5, 25) = {25, 27}
  BY SmallBits DEF set_bits_to
<1>8. word = Shifted(cond, 28) \cup Shifted(field, 0) \cup {25, 27}
  BY <1>3, <1>6, <1>7 DEF assemble_branch, cond
<1>. HIDE DEF word
<1>9. /\ word \cap (28 .. 31) = Shifted(cond, 28)
      /\ word \cap (0 .. 23) = Shifted(field, 0)
      /\ word \cap (26 .. 27) = {27}
  BY <1>6, <1>8
<1>10. create_mask(28, 31, word) = cond /\ create_mask(0, 23, word) = field
  BY <1>4, <1>9, FieldValue
<1>11. create_mask(26, 27, word) = 2
  <2>1. Shifted(2, 26) = {27}
    BY SmallBits DEF Shifted
  <2>. QED  BY <1>4, <1>9, <2>1, FieldValue
<1>12. get_instr_type(word) = "BRANCH"
  BY <1>11 DEF get_instr_type
<1>13. extract_bit(23, word)
  <2>1. 23 \in Shifted(field, 0)
    BY <1>5 DEF Shifted
  <2>. QED  BY <1>8, <2>1 DEF extract_bit
<1>14. sign_extended_offset(word) = 4 * (field - 2 ^ 24)
  BY <1>10, <1>13 DEF sign_extended_offset
<1>15. field - 2 ^ 24 = -d /\ 4 * (-d) = 4 * j - 4 * pc - 8
  BY DEF field, d
<1>. QED  BY <1>10, <1>12, <1>14, <1>15 DEF decode, cond, word

(***************************************************************************)
(* A load from the literal pool                                            *)
(***************************************************************************)
\* The twelve bits below the registers hold the way to the literal, in bytes.
LEMMA PoolLoadDecodes ==
  ASSUME NEW t, UsesPool(t), number(t.operands[1]) \in 0 .. 15,
         NEW pc \in Nat, NEW last_address \in Nat, NEW before \in Nat,
         pc + 1 < last_address, last_address - pc + before <= 1025
  PROVE  LET word == decode(assemble_single_data_transfer(t, pc, last_address, before))
         IN  /\ word.type = "TRANSFER" /\ word.l /\ word.p /\ word.u /\ word.rn = 15
             /\ word.rd = number(t.operands[1])
             /\ Value(word.offset.ones) = 4 * (last_address - pc + before) - 8
<1>. DEFINE offset == PoolOffset(pc, last_address, before)
            rd == number(t.operands[1])
            word == assemble_single_data_transfer(t, pc, last_address, before)
<1>1. offset = 4 * (last_address - pc + before) - 8 /\ offset \in 0 .. 4095
  <2>1. offset = 4 * (last_address - pc + before) - 8
    BY DEF PoolOffset
  <2>. DEFINE d == last_address - pc + before
  <2>2. d \in Int /\ 2 <= d /\ d <= 1025
    OBVIOUS
  <2>. HIDE DEF d, offset
  <2>3. offset = 4 * d - 8
    BY <2>1 DEF d
  <2>. QED  BY <2>1, <2>2, <2>3
<1>2. Fits(offset, 12) /\ Fits(rd, 4) /\ Fits(15, 4) /\ Fits(14, 4) /\ Fits(1, 2)
  BY <1>1 DEF Fits
<1>3. set_bits_to({}, 2, 25) = {26} /\ set_bits_to({}, 1, 20) = {20}
  BY SmallBits DEF set_bits_to
<1>4. TransferFields(t) = ALWAYS \cup {26} \cup set_bits_to({}, rd, 12) \cup {20}
  <2>1. t.opcode = "ldr"
    BY DEF UsesPool, IsLiteralLoad
  <2>2. set_bits_to(ALWAYS, 2, 25) = ALWAYS \cup {26}
    BY <1>3, SetBits
  <2>3. set_bits_to(ALWAYS \cup {26}, rd, 12) = ALWAYS \cup {26} \cup set_bits_to({}, rd, 12)
    BY SetBits
  <2>. DEFINE w == ALWAYS \cup {26} \cup set_bits_to({}, rd, 12)
  <2>4. TransferFields(t) = set_bits_to(w, 1, 20)
    BY <2>1, <2>2, <2>3 DEF TransferFields
  <2>. HIDE DEF w
  <2>5. set_bits_to(w, 1, 20) = w \cup {20}
    BY <1>3, SetBits
  <2>. QED  BY <2>4, <2>5 DEF w
<1>. HIDE DEF offset, rd
<1>5. /\ set_bits_to({}, offset, 0) = Shifted(offset, 0) /\ Shifted(offset, 0) \subseteq 0 .. 11
      /\ set_bits_to({}, rd, 12) = Shifted(rd, 12) /\ Shifted(rd, 12) \subseteq 12 .. 15
      /\ set_bits_to({}, 15, 16) = Shifted(15, 16) /\ Shifted(15, 16) \subseteq 16 .. 19
      /\ set_bits_to({}, 14, 28) = Shifted(14, 28) /\ Shifted(14, 28) \subseteq 28 .. 31
  BY <1>2, FieldPlace
<1>6. word = Shifted(offset, 0) \cup Shifted(rd, 12) \cup Shifted(15, 16)
               \cup {20, 23, 24, 26} \cup Shifted(14, 28)
  BY <1>4, <1>5 DEF assemble_single_data_transfer, ALWAYS, offset
<1>. HIDE DEF word
<1>7. /\ word \cap (0 .. 11) = Shifted(offset, 0)
      /\ word \cap (12 .. 15) = Shifted(rd, 12)
      /\ word \cap (16 .. 19) = Shifted(15, 16)
      /\ word \cap (26 .. 27) = {26}
      /\ 20 \in word /\ 23 \in word /\ 24 \in word /\ 25 \notin word
  BY <1>5, <1>6
<1>8. create_mask(12, 15, word) = rd /\ create_mask(16, 19, word) = 15
  BY <1>2, <1>7, FieldValue
<1>9. create_mask(26, 27, word) = 1
  <2>1. Shifted(1, 26) = {26}
    BY SmallBits DEF Shifted
  <2>. QED  BY <1>2, <1>7, <2>1, FieldValue
<1>10. get_instr_type(word) = "TRANSFER"
  BY <1>9 DEF get_instr_type
<1>11. Value(word \cap (0 .. 11)) = offset
  <2>1. Shifted(offset, 0) = Bits(offset)
    BY BitsType DEF Shifted, Positions
  <2>2. offset \in 0 .. 2 ^ 31 - 1
    <3>1. 2 ^ 31 = 2147483648
      OBVIOUS
    <3>2. offset \in 0 .. 4095
      BY <1>1
    <3>. HIDE DEF word
    <3>. QED  BY <3>1, <3>2
  <2>. QED  BY <1>7, <2>1, <2>2, ValueOfBits
<1>. DEFINE instruction == decode(word)
<1>12. instruction
         = [type |-> "TRANSFER", p |-> TRUE, u |-> TRUE, l |-> TRUE, rn |-> 15, rd |-> rd,
            offset |-> [kind |-> "immediate", ones |-> word \cap (0 .. 11)]]
  BY <1>7, <1>8, <1>10 DEF decode, extract_bit
<1>. HIDE DEF instruction
<1>13. /\ instruction.type = "TRANSFER" /\ instruction.l /\ instruction.p /\ instruction.u
       /\ instruction.rn = 15 /\ instruction.rd = rd
       /\ Value(instruction.offset.ones) = offset
  BY <1>11, <1>12
<1>. QED  BY <1>1, <1>13 DEF instruction, word, rd

(***************************************************************************)
(* Instructions decode as they are written                                 *)
(*                                                                         *)
(* First the fields of a word and the bits of an immediate, then one lemma *)
(* for each encoder.                                                       *)
(***************************************************************************)
\* The two ways of reading a bit agree.
LEMMA BitMember ==
  ASSUME NEW n \in Nat, NEW i \in 0 .. 30
  PROVE  i \in Bits(n) <=> Bit(n, i) = 1
BY DEF Bits, Bit

\* The powers of two a word needs are positive.
LEMMA PowerType ==
  ASSUME NEW k \in 0 .. 32
  PROVE  2 ^ k \in Nat \ {0}
<1>1. k \in Nat /\ 0 + k <= 32 /\ 0 \in Nat
  OBVIOUS
<1>. QED  BY <1>1, PowersAdd

\* The bits of a number that is made of two parts.
LEMMA BitsOfSum ==
  ASSUME NEW a \in Nat, NEW b \in Nat, a + b <= 31,
         NEW low \in 0 .. 2 ^ a - 1, NEW high \in 0 .. 2 ^ b - 1
  PROVE  /\ Bits(low + 2 ^ a * high) = Bits(low) \cup Shifted(high, a)
         /\ low + 2 ^ a * high \in 0 .. 2 ^ (a + b) - 1
         /\ Shifted(high, a) \subseteq a .. (a + b) - 1
<1>. DEFINE x == low + 2 ^ a * high
            p == 2 ^ a
            q == 2 ^ b
            w == 2 ^ (a + b)
<1>1. p \in Nat \ {0} /\ q \in Nat \ {0} /\ w = p * q
  BY PowersAdd
<1>2. low \in 0 .. p - 1 /\ high \in 0 .. q - 1 /\ x = low + p * high
  OBVIOUS
<1>3. x \in 0 .. w - 1 /\ x \in Nat
  <2>. HIDE DEF p, q, w, x
  <2>1. p * high >= 0 /\ p * high <= p * (q - 1) /\ p * high \in Int
    BY <1>1, <1>2, Z3
  <2>2. p * (q - 1) = w - p /\ w \in Int
    BY <1>1, Z3
  <2>. QED  BY <1>1, <1>2, <2>1, <2>2
<1>4. IsMadeOf(x, low, a, high, b)
  BY BitsOfParts
<1>5. low \in Nat /\ high \in Nat
  BY <1>1, <1>2
<1>6. Bits(x) \subseteq 0 .. (a + b) - 1
  <2>. DEFINE k == a + b
  <2>1. x \in 0 .. 2 ^ k - 1
    BY <1>3
  <2>2. k \in 0 .. 31
    OBVIOUS
  <2>. HIDE DEF x, k
  <2>3. Bits(x) \subseteq 0 .. k - 1
    BY <2>1, <2>2, BitsBelow
  <2>. QED  BY <2>3 DEF k
<1>7. Bits(low) \subseteq 0 .. a - 1 /\ Bits(high) \subseteq 0 .. b - 1
  <2>1. a \in 0 .. 31 /\ b \in 0 .. 31
    OBVIOUS
  <2>. QED  BY <2>1, BitsBelow
<1>8. Shifted(high, a) \subseteq a .. (a + b) - 1
  BY <1>7 DEF Shifted
<1>. HIDE DEF p, q, w, x
<1>9. \A i \in 0 .. a - 1 : i \in Bits(x) <=> i \in Bits(low)
  BY <1>3, <1>4, <1>5, BitMember DEF IsMadeOf
<1>10. \A i \in 0 .. b - 1 : a + i \in Bits(x) <=> i \in Bits(high)
  BY <1>3, <1>4, <1>5, BitMember DEF IsMadeOf
<1>11. \A i \in 0 .. b - 1 : a + i \in Shifted(high, a) <=> i \in Bits(high)
  BY <1>7 DEF Shifted
<1>12. ASSUME NEW i \in a .. (a + b) - 1 PROVE i \in Bits(x) <=> i \in Shifted(high, a)
  <2>1. i - a \in 0 .. b - 1 /\ a + (i - a) = i
    OBVIOUS
  <2>. QED  BY <1>10, <1>11, <2>1
<1>13. Bits(x) = Bits(low) \cup Shifted(high, a)
  <2>1. \A i \in 0 .. (a + b) - 1 : i \in Bits(x) <=> i \in Bits(low) \cup Shifted(high, a)
    BY <1>7, <1>8, <1>9, <1>12
  <2>2. Bits(low) \cup Shifted(high, a) \subseteq 0 .. (a + b) - 1
    BY <1>7, <1>8
  <2>. QED  BY <1>6, <2>1, <2>2
<1>. QED  BY <1>3, <1>8, <1>13 DEF x, w

\* The bits of a field of a number.
LEMMA BitsOfField ==
  ASSUME NEW n \in Nat, NEW a \in Nat, NEW k \in Nat, a + k <= 31
  PROVE  /\ Fits((n \div 2 ^ a) % 2 ^ k, k)
         /\ Bits((n \div 2 ^ a) % 2 ^ k) = {i \in 0 .. k - 1 : i + a \in Bits(n)}
<1>. DEFINE h == n \div 2 ^ a
            m == h % 2 ^ k
<1>1. a \in 0 .. 32 /\ k \in 0 .. 32 /\ k \in 0 .. 31
  OBVIOUS
<1>2. h \in Nat
  BY <1>1, BitType
<1>. HIDE DEF h
<1>3. m \in 0 .. 2 ^ k - 1
  BY <1>1, <1>2, BitType
<1>4. m \in Nat
  BY <1>1, <1>3, PowerType
<1>. HIDE DEF m
<1>5. Bits(m) \subseteq 0 .. k - 1
  BY <1>1, <1>3, BitsBelow
<1>6. ASSUME NEW i \in 0 .. k - 1 PROVE i \in Bits(m) <=> i + a \in Bits(n)
  <2>1. Bit(m, i) = Bit(h, i)
    BY <1>1, <1>2, BitOfRemainder DEF m
  <2>2. Bit(h, i) = Bit(n, a + i)
    <3>1. i \in Nat /\ a + i <= 32
      OBVIOUS
    <3>. QED  BY <3>1, BitOfQuotient DEF h
  <2>3. i \in 0 .. 30 /\ i + a \in 0 .. 30 /\ i + a = a + i
    OBVIOUS
  <2>4. i \in Bits(m) <=> Bit(m, i) = 1
    BY <1>4, <2>3, BitMember
  <2>5. i + a \in Bits(n) <=> Bit(n, a + i) = 1
    BY <2>3, BitMember
  <2>. QED  BY <2>1, <2>2, <2>4, <2>5
<1>. QED  BY <1>3, <1>5, <1>6 DEF Fits, m, h

\* The constants the encoders write: no bit, the mark of a multiply, the mark of a print.
LEMMA NineBits == Bits(0) = {} /\ Bits(9) = {0, 3} /\ Bits(7) = {0, 1, 2}
<1>1. \A n \in {0, 7, 9} : Bits(n) \subseteq 0 .. 3
  <2>1. 4 \in 0 .. 31 /\ {0, 7, 9} \subseteq 0 .. 2 ^ 4 - 1
    OBVIOUS
  <2>2. \A n \in 0 .. 2 ^ 4 - 1 : Bits(n) \subseteq 0 .. 4 - 1
    BY <2>1, BitsBelow
  <2>. QED  BY <2>1, <2>2
<1>2. \A n \in {0, 7, 9} : \A i \in 0 .. 3 : i \in Bits(n) <=> (n \div 2 ^ i) % 2 = 1
  BY DEF Bits
<1>3. 2 ^ 0 = 1 /\ 2 ^ 1 = 2 /\ 2 ^ 2 = 4 /\ 2 ^ 3 = 8
  OBVIOUS
<1>. QED  BY <1>1, <1>2, <1>3

\* Whatever four bits hold is a number.
LEMMA FourBits ==
  ASSUME NEW S \in SUBSET (0 .. 3)
  PROVE  \E v \in 0 .. 15 : Bits(v) = S
<1>. DEFINE d(i) == IF i \in S THEN 1 ELSE 0
            v == d(0) + 2 * d(1) + 4 * d(2) + 8 * d(3)
<1>1. v \in 0 .. 15
  OBVIOUS
<1>2. Bits(v) \subseteq 0 .. 3
  <2>1. 4 \in 0 .. 31 /\ v \in 0 .. 2 ^ 4 - 1
    BY <1>1
  <2>. HIDE DEF v
  <2>2. Bits(v) \subseteq 0 .. 4 - 1
    BY <2>1, BitsBelow
  <2>. QED  BY <2>2
<1>3. 2 ^ 0 = 1 /\ 2 ^ 1 = 2 /\ 2 ^ 2 = 4 /\ 2 ^ 3 = 8
  OBVIOUS
<1>4. \A i \in 0 .. 3 : i \in Bits(v) <=> (v \div 2 ^ i) % 2 = 1
  BY DEF Bits
<1>5. /\ v % 2 = d(0) /\ (v \div 2) % 2 = d(1)
      /\ (v \div 4) % 2 = d(2) /\ (v \div 8) % 2 = d(3)
  OBVIOUS
<1>6. v \div 1 = v
  BY <1>1
<1>7. /\ d(0) = 1 <=> 0 \in S
      /\ d(1) = 1 <=> 1 \in S
      /\ d(2) = 1 <=> 2 \in S
      /\ d(3) = 1 <=> 3 \in S
  OBVIOUS
<1>. HIDE DEF v, d
<1>8. \A i \in 0 .. 3 : i \in Bits(v) <=> i \in S
  BY <1>3, <1>4, <1>5, <1>6, <1>7
<1>9. Bits(v) = S
  BY <1>2, <1>8
<1>. QED  BY <1>1, <1>9

\* A register number fits four bits.
LEMMA SmallFits ==
  ASSUME NEW n \in 0 .. 15
  PROVE  Fits(n, 4)
BY DEF Fits

\* A field of four bits, as its place in the word.
LEMMA FourBitField ==
  ASSUME NEW n \in 0 .. 15, NEW at \in 0 .. 28
  PROVE  /\ set_bits_to({}, n, at) = Shifted(n, at)
         /\ Shifted(n, at) \subseteq at .. at + 3
<1>1. 4 \in 0 .. 31 /\ at \in Nat /\ at + 4 <= 32 /\ (at + 4) - 1 = at + 3
  OBVIOUS
<1>2. Shifted(n, at) \subseteq at .. (at + 4) - 1 /\ set_bits_to({}, n, at) = Shifted(n, at)
  BY <1>1, SmallFits, FieldPlace
<1>. QED  BY <1>1, <1>2

\* Such a field is read as it was written.
LEMMA FourBitValue ==
  ASSUME NEW n \in 0 .. 15, NEW at \in 0 .. 28, NEW word,
         word \cap (at .. at + 3) = Shifted(n, at)
  PROVE  create_mask(at, at + 3, word) = n
<1>1. 4 \in 0 .. 31 /\ at \in Nat
  OBVIOUS
<1>. QED  BY <1>1, SmallFits, FieldValue

(***************************************************************************)
(* Data processing                                                         *)
(***************************************************************************)
\* The word but for its second operand.
DataWord(c, s, rn, rd) ==
  Shifted(14, 28) \cup Shifted(c, 21) \cup (IF s THEN {20} ELSE {})
    \cup Shifted(rn, 16) \cup Shifted(rd, 12)

MultiplyMark(low) == low \cap (4 .. 7) = {4, 7}

\* The second operand's bits decide between a multiply and the instruction.
LEMMA MarkIsNine ==
  ASSUME NEW word
  PROVE  create_mask(4, 7, word) = 9 <=> MultiplyMark(word)
<1>. DEFINE S == {i - 4 : i \in word \cap (4 .. 7)}
<1>1. S \in SUBSET (0 .. 3)
  OBVIOUS
<1>2. PICK v \in 0 .. 15 : Bits(v) = S
  BY <1>1, FourBits
<1>3. word \cap (4 .. 7) = Shifted(v, 4)
  <2>1. \A i \in 0 .. 3 : i \in Bits(v) <=> i + 4 \in word
    BY <1>2
  <2>2. \A j \in 4 .. 7 : j - 4 \in 0 .. 3 /\ (j - 4) + 4 = j
    OBVIOUS
  <2>3. Bits(v) \subseteq 0 .. 3
    BY <1>1, <1>2
  <2>. HIDE DEF S
  <2>. QED  BY <2>1, <2>2, <2>3 DEF Shifted
<1>4. create_mask(4, 7, word) = v
  <2>1. 4 + 3 = 7 /\ 4 \in 0 .. 28
    OBVIOUS
  <2>. QED  BY <1>3, <2>1, FourBitValue
<1>5. v = 9 => MultiplyMark(word)
  BY <1>3, NineBits DEF Shifted, MultiplyMark
<1>6. ASSUME MultiplyMark(word) PROVE v = 9
  <2>1. S = {0, 3}
    BY <1>6 DEF MultiplyMark
  <2>2. Value(Bits(v)) = v /\ Value(Bits(9)) = 9
    <3>1. v \in 0 .. 2 ^ 31 - 1 /\ 9 \in 0 .. 2 ^ 31 - 1
      OBVIOUS
    <3>. QED  BY <3>1, ValueOfBits
  <2>. HIDE DEF S
  <2>. QED  BY <1>2, <2>1, <2>2, NineBits
<1>. QED  BY <1>4, <1>5, <1>6

ReadsAsData(word, c, s, rn, rd, low, imm) ==
  IF MultiplyMark(low)
    THEN decode(word).type = "MULTIPLY"
    ELSE decode(word)
           = [type |-> "DATA_PROCESS", opcode |-> c, s |-> s, rn |-> rn, rd |-> rd,
              op2 |-> IF imm THEN immediate_op2(low) ELSE shift_rm_register(low)]

\* The decoder takes it apart as it was put together.
LEMMA DataWordDecodes ==
  ASSUME NEW c \in 0 .. 15, NEW s \in BOOLEAN, NEW rn \in 0 .. 15, NEW rd \in 0 .. 15,
         NEW low \in SUBSET (0 .. 11), NEW imm \in BOOLEAN, NEW word,
         word = DataWord(c, s, rn, rd) \cup low \cup (IF imm THEN {25} ELSE {})
  PROVE  ReadsAsData(word, c, s, rn, rd, low, imm)
<1>1. /\ Shifted(14, 28) \subseteq 28 .. 28 + 3 /\ Shifted(c, 21) \subseteq 21 .. 21 + 3
      /\ Shifted(rn, 16) \subseteq 16 .. 16 + 3 /\ Shifted(rd, 12) \subseteq 12 .. 12 + 3
  <2>1. 14 \in 0 .. 15 /\ 28 \in 0 .. 28 /\ 21 \in 0 .. 28 /\ 16 \in 0 .. 28 /\ 12 \in 0 .. 28
    OBVIOUS
  <2>. QED  BY <2>1, FourBitField
<1>2. /\ word \cap (0 .. 11) = low
      /\ word \cap (12 .. 12 + 3) = Shifted(rd, 12)
      /\ word \cap (16 .. 16 + 3) = Shifted(rn, 16)
      /\ word \cap (21 .. 21 + 3) = Shifted(c, 21)
      /\ 20 \in word <=> s
      /\ 25 \in word <=> imm
      /\ word \cap (26 .. 27) = {}
  <2>. DEFINE fields == Shifted(14, 28) \cup Shifted(c, 21) \cup Shifted(rn, 16)
                          \cup Shifted(rd, 12)
              flags == (IF s THEN {20} ELSE {}) \cup (IF imm THEN {25} ELSE {})
  <2>1. word = fields \cup flags \cup low
    BY DEF DataWord
  <2>2. /\ flags \subseteq {20, 25}
        /\ 20 \in flags <=> s
        /\ 25 \in flags <=> imm
    OBVIOUS
  <2>3. /\ fields \cap (0 .. 11) = {}
        /\ fields \cap (12 .. 12 + 3) = Shifted(rd, 12)
        /\ fields \cap (16 .. 16 + 3) = Shifted(rn, 16)
        /\ fields \cap (21 .. 21 + 3) = Shifted(c, 21)
        /\ fields \cap {20, 25, 26, 27} = {}
    BY <1>1
  <2>. HIDE DEF fields, flags
  <2>4. /\ word \cap (0 .. 11) = low
        /\ word \cap (12 .. 12 + 3) = Shifted(rd, 12)
        /\ word \cap (16 .. 16 + 3) = Shifted(rn, 16)
        /\ word \cap (21 .. 21 + 3) = Shifted(c, 21)
    <3>1. /\ flags \cap (0 .. 11) = {} /\ flags \cap (12 .. 12 + 3) = {}
          /\ flags \cap (16 .. 16 + 3) = {} /\ flags \cap (21 .. 21 + 3) = {}
      BY <2>2
    <3>2. /\ low \cap (0 .. 11) = low /\ low \cap (12 .. 12 + 3) = {}
          /\ low \cap (16 .. 16 + 3) = {} /\ low \cap (21 .. 21 + 3) = {}
      <4>1. \A x \in low : x \in 0 .. 11
        OBVIOUS
      <4>2. \A x \in 0 .. 11 : x \notin 12 .. 15 /\ x \notin 16 .. 19 /\ x \notin 21 .. 24
        OBVIOUS
      <4>3. 12 + 3 = 15 /\ 16 + 3 = 19 /\ 21 + 3 = 24
        OBVIOUS
      <4>. QED  BY <4>1, <4>2, <4>3, Zenon
    <3>. QED  BY <2>1, <2>3, <3>1, <3>2
  <2>5. 20 \notin low /\ 25 \notin low /\ low \cap (26 .. 27) = {}
    OBVIOUS
  <2>6. 20 \in word <=> s
    BY <2>1, <2>2, <2>3, <2>5
  <2>7. 25 \in word <=> imm
    BY <2>1, <2>2, <2>3, <2>5
  <2>8. word \cap (26 .. 27) = {}
    BY <2>1, <2>2, <2>3, <2>5
  <2>. QED  BY <2>4, <2>6, <2>7, <2>8
<1>3. /\ create_mask(12, 15, word) = rd /\ create_mask(16, 19, word) = rn
      /\ create_mask(21, 24, word) = c
  <2>1. 12 + 3 = 15 /\ 16 + 3 = 19 /\ 21 + 3 = 24
        /\ 12 \in 0 .. 28 /\ 16 \in 0 .. 28 /\ 21 \in 0 .. 28
    OBVIOUS
  <2>2. /\ create_mask(12, 12 + 3, word) = rd /\ create_mask(16, 16 + 3, word) = rn
        /\ create_mask(21, 21 + 3, word) = c
    BY <1>2, <2>1, FourBitValue
  <2>. QED  BY <2>1, <2>2
<1>4. create_mask(26, 27, word) = 0
  <2>1. Fits(0, 2) /\ Shifted(0, 26) = {} /\ 2 \in 0 .. 31
    BY NineBits DEF Fits, Shifted
  <2>. QED  BY <1>2, <2>1, FieldValue
<1>5. create_mask(4, 7, word) = 9 <=> MultiplyMark(low)
  <2>1. word \cap (4 .. 7) = low \cap (4 .. 7)
    <3>1. 4 .. 7 \subseteq 0 .. 11
      OBVIOUS
    <3>. QED  BY <1>2, <3>1
  <2>. QED  BY <2>1, MarkIsNine DEF MultiplyMark
<1>6. \A i, j \in 0 .. 11 : create_mask(i, j, word) = create_mask(i, j, low)
  <2>. SUFFICES ASSUME NEW i \in 0 .. 11, NEW j \in 0 .. 11
                PROVE  create_mask(i, j, word) = create_mask(i, j, low)
    OBVIOUS
  <2>1. word \cap (i .. j) = low \cap (i .. j)
    <3>1. i .. j \subseteq 0 .. 11
      OBVIOUS
    <3>. QED  BY <1>2, <3>1
  <2>. QED  BY <2>1 DEF create_mask
<1>7. 4 \in word <=> 4 \in low
  BY <1>2
<1>8. shift_rm_register(word) = shift_rm_register(low)
  BY <1>6, <1>7 DEF shift_rm_register, extract_bit
<1>9. immediate_op2(word) = immediate_op2(low)
  <2>1. word \cap (0 .. 7) = low \cap (0 .. 7)
    <3>1. 0 .. 7 \subseteq 0 .. 11
      OBVIOUS
    <3>. QED  BY <1>2, <3>1
  <2>2. create_mask(8, 11, word) = create_mask(8, 11, low)
    BY <1>6
  <2>. QED  BY <2>1, <2>2 DEF immediate_op2
<1>10. ASSUME MultiplyMark(low) PROVE decode(word).type = "MULTIPLY"
  <2>1. get_instr_type(word) = "MULTIPLY"
    BY <1>4, <1>5, <1>10 DEF get_instr_type
  <2>. QED  BY <2>1 DEF decode
<1>11. ASSUME ~MultiplyMark(low)
       PROVE  decode(word)
                = [type |-> "DATA_PROCESS", opcode |-> c, s |-> s, rn |-> rn, rd |-> rd,
                   op2 |-> IF imm THEN immediate_op2(low) ELSE shift_rm_register(low)]
  <2>1. get_instr_type(word) = "DATA_PROCESS"
    BY <1>4, <1>5, <1>11 DEF get_instr_type
  <2>2. extract_bit(20, word) = s /\ extract_bit(25, word) = imm
    BY <1>2 DEF extract_bit
  <2>. QED  BY <1>3, <1>8, <1>9, <2>1, <2>2 DEF decode
<1>. QED  BY <1>10, <1>11 DEF ReadsAsData

\* The bits of a register operand and of its shift.
OperandBits(reg, type, by) ==
  Shifted(reg.n, 0) \cup Shifted(type, 5)
    \cup (IF IsConstant(by) THEN Shifted(by.n, 7) ELSE {4} \cup Shifted(by.n, 8))

\* Each part of the operand has its own bits.
LEMMA OperandPlaces ==
  ASSUME NEW reg, IsRegister(reg), NEW type \in 0 .. 3, NEW by,
         IsRegister(by) \/ IsNumber(by, 31)
  PROVE  /\ Shifted(reg.n, 0) \subseteq 0 .. 3
         /\ Shifted(type, 5) \subseteq 5 .. 6
         /\ IsConstant(by) => IsNumber(by, 31) /\ Shifted(by.n, 7) \subseteq 7 .. 11
         /\ ~IsConstant(by) => IsRegister(by) /\ Shifted(by.n, 8) \subseteq 8 .. 11
<1>1. Shifted(reg.n, 0) \subseteq 0 .. 3
  <2>1. reg.n \in 0 .. 15 /\ 0 \in 0 .. 28 /\ 0 + 3 = 3
    BY DEF IsRegister
  <2>. QED  BY <2>1, FourBitField
<1>2. Shifted(type, 5) \subseteq 5 .. 6
  <2>1. 2 \in 0 .. 31 /\ Fits(type, 2) /\ 5 \in Nat /\ 5 + 2 <= 32 /\ (5 + 2) - 1 = 6
    BY DEF Fits
  <2>2. Shifted(type, 5) \subseteq 5 .. (5 + 2) - 1
    BY <2>1, FieldPlace
  <2>. QED  BY <2>1, <2>2
<1>3. ASSUME IsConstant(by) PROVE IsNumber(by, 31) /\ Shifted(by.n, 7) \subseteq 7 .. 11
  <2>1. IsNumber(by, 31)
    BY <1>3 DEF IsRegister, IsConstant
  <2>2. 5 \in 0 .. 31 /\ Fits(by.n, 5) /\ 7 \in Nat /\ 7 + 5 <= 32 /\ (7 + 5) - 1 = 11
    BY <2>1 DEF Fits, IsNumber
  <2>3. Shifted(by.n, 7) \subseteq 7 .. (7 + 5) - 1
    BY <2>2, FieldPlace
  <2>. QED  BY <2>1, <2>2, <2>3
<1>4. ASSUME ~IsConstant(by) PROVE IsRegister(by) /\ Shifted(by.n, 8) \subseteq 8 .. 11
  <2>1. IsRegister(by)
    BY <1>4 DEF IsNumber, IsConstant
  <2>2. by.n \in 0 .. 15 /\ 8 \in 0 .. 28 /\ 8 + 3 = 11
    BY <2>1 DEF IsRegister
  <2>. QED  BY <2>1, <2>2, FourBitField
<1>. QED  BY <1>1, <1>2, <1>3, <1>4

\* The decoder finds the operand there, and no multiply.
LEMMA OperandIsRead ==
  ASSUME NEW reg, IsRegister(reg), NEW type \in 0 .. 3, NEW by,
         IsRegister(by) \/ IsNumber(by, 31)
  PROVE  /\ OperandBits(reg, type, by) \in SUBSET (0 .. 11)
         /\ ~MultiplyMark(OperandBits(reg, type, by))
         /\ shift_rm_register(OperandBits(reg, type, by)) = ShiftedRegister(reg, type, by)
<1>. DEFINE low == OperandBits(reg, type, by)
<1>1. /\ Shifted(reg.n, 0) \subseteq 0 .. 3
      /\ Shifted(type, 5) \subseteq 5 .. 6
      /\ IsConstant(by) => IsNumber(by, 31) /\ Shifted(by.n, 7) \subseteq 7 .. 11
      /\ ~IsConstant(by) => IsRegister(by) /\ Shifted(by.n, 8) \subseteq 8 .. 11
  BY OperandPlaces
<1>2. /\ low \in SUBSET (0 .. 11)
      /\ low \cap (0 .. 0 + 3) = Shifted(reg.n, 0)
      /\ low \cap (5 .. 6) = Shifted(type, 5)
  <2>1. CASE IsConstant(by)
    BY <1>1, <2>1 DEF OperandBits
  <2>2. CASE ~IsConstant(by)
    BY <1>1, <2>2 DEF OperandBits
  <2>. QED  BY <2>1, <2>2
<1>3. IsConstant(by) => 4 \notin low /\ low \cap (7 .. 11) = Shifted(by.n, 7)
  BY <1>1 DEF OperandBits
<1>4. ~IsConstant(by) => 4 \in low /\ 7 \notin low /\ low \cap (8 .. 8 + 3) = Shifted(by.n, 8)
  BY <1>1 DEF OperandBits
<1>. HIDE DEF low
<1>5. ~MultiplyMark(low)
  BY <1>3, <1>4 DEF MultiplyMark
<1>6. create_mask(0, 3, low) = reg.n
  <2>1. reg.n \in 0 .. 15 /\ 0 \in 0 .. 28 /\ 0 + 3 = 3
    BY DEF IsRegister
  <2>2. create_mask(0, 0 + 3, low) = reg.n
    BY <1>2, <2>1, FourBitValue
  <2>. QED  BY <2>1, <2>2
<1>7. create_mask(5, 6, low) = type
  <2>1. 2 \in 0 .. 31 /\ Fits(type, 2) /\ 5 \in Nat
    BY DEF Fits
  <2>. QED  BY <1>2, <2>1, FieldValue
<1>8. CASE IsConstant(by)
  <2>1. 5 \in 0 .. 31 /\ Fits(by.n, 5) /\ 7 \in Nat
    BY <1>1, <1>8 DEF Fits, IsNumber
  <2>2. create_mask(7, 11, low) = by.n
    BY <1>3, <1>8, <2>1, FieldValue
  <2>3. ~extract_bit(4, low) /\ extract_bit(4, low) \in BOOLEAN
    BY <1>3, <1>8 DEF extract_bit
  <2>4. by.kind # "register"
    BY <1>8 DEF IsConstant
  <2>5. shift_rm_register(low) = ShiftedRegister(reg, type, by)
    BY <1>6, <1>7, <2>2, <2>3, <2>4 DEF shift_rm_register, ShiftedRegister
  <2>. QED  BY <1>2, <1>5, <2>5 DEF low
<1>9. CASE ~IsConstant(by)
  <2>1. by.n \in 0 .. 15 /\ 8 \in 0 .. 28 /\ 8 + 3 = 11 /\ by.kind = "register"
    BY <1>1, <1>9 DEF IsRegister
  <2>2. create_mask(8, 8 + 3, low) = by.n
    BY <1>4, <1>9, <2>1, FourBitValue
  <2>3. extract_bit(4, low) /\ extract_bit(4, low) \in BOOLEAN
    BY <1>4, <1>9 DEF extract_bit
  <2>4. create_mask(8, 11, low) = by.n
    BY <2>1, <2>2
  <2>5. shift_rm_register(low) = ShiftedRegister(reg, type, by)
    BY <1>6, <1>7, <2>1, <2>3, <2>4 DEF shift_rm_register, ShiftedRegister
  <2>. QED  BY <1>2, <1>5, <2>5 DEF low
<1>. QED  BY <1>8, <1>9

\* The encoders put it there.
LEMMA OperandIsWritten ==
  ASSUME NEW reg, IsRegister(reg), NEW shift, shift.n \in 0 .. 3, NEW by,
         IsRegister(by) \/ IsNumber(by, 31), NEW word
  PROVE  encode_shifted_reg(word, reg, shift, by) = word \cup OperandBits(reg, shift.n, by)
<1>1. set_bits_to({}, reg.n, 0) = Shifted(reg.n, 0)
  <2>1. reg.n \in 0 .. 15 /\ 0 \in 0 .. 28
    BY DEF IsRegister
  <2>. QED  BY <2>1, FourBitField
<1>2. set_bits_to({}, shift.n, 5) = Shifted(shift.n, 5)
  <2>1. 2 \in 0 .. 31 /\ Fits(shift.n, 2) /\ 5 \in Nat /\ 5 + 2 <= 32
    BY DEF Fits
  <2>. QED  BY <2>1, FieldPlace
<1>3. ASSUME IsConstant(by)
      PROVE  set_bits_to({}, by.n * 8, 4) = Shifted(by.n, 7)
  <2>1. by.n \in 0 .. 31
    BY <1>3, OperandPlaces DEF IsNumber
  <2>2. 0 + 2 ^ 3 * by.n = by.n * 8 /\ 3 \in Nat /\ 5 \in Nat /\ 3 + 5 <= 31
        /\ by.n \in 0 .. 2 ^ 5 - 1 /\ 0 \in 0 .. 2 ^ 3 - 1
    BY <2>1
  <2>3. Bits(0 + 2 ^ 3 * by.n) = Bits(0) \cup Shifted(by.n, 3)
    BY <2>2, BitsOfSum
  <2>4. Bits(by.n * 8) = Shifted(by.n, 3)
    BY <2>2, <2>3, NineBits
  <2>5. Bits(by.n) \subseteq 0 .. 4
    <3>1. 5 \in 0 .. 31
      OBVIOUS
    <3>2. Bits(by.n) \subseteq 0 .. 5 - 1
      BY <2>2, <3>1, BitsBelow
    <3>. QED  BY <3>2
  <2>. QED  BY <2>4, <2>5 DEF set_bits_to, Shifted
<1>4. ASSUME ~IsConstant(by)
      PROVE  set_bits_to({}, by.n * 16 + 1, 4) = {4} \cup Shifted(by.n, 8)
  <2>1. by.n \in 0 .. 15
    BY <1>4, OperandPlaces DEF IsRegister
  <2>2. 1 + 2 ^ 4 * by.n = by.n * 16 + 1 /\ 4 \in Nat /\ 4 + 4 <= 31
        /\ by.n \in 0 .. 2 ^ 4 - 1 /\ 1 \in 0 .. 2 ^ 4 - 1
    BY <2>1
  <2>3. Bits(1 + 2 ^ 4 * by.n) = Bits(1) \cup Shifted(by.n, 4)
    BY <2>2, BitsOfSum
  <2>4. Bits(by.n * 16 + 1) = {0} \cup Shifted(by.n, 4)
    BY <2>2, <2>3, SmallBits
  <2>5. Bits(by.n) \subseteq 0 .. 3
    <3>1. 4 \in 0 .. 31
      OBVIOUS
    <3>2. Bits(by.n) \subseteq 0 .. 4 - 1
      BY <2>2, <3>1, BitsBelow
    <3>. QED  BY <3>2
  <2>. QED  BY <2>4, <2>5 DEF set_bits_to, Shifted
<1>5. \A w, n : \A at \in Nat : set_bits_to(w, n, at) = w \cup set_bits_to({}, n, at)
  BY SetBits
<1>6. 0 \in Nat /\ 5 \in Nat /\ 4 \in Nat
  OBVIOUS
<1>7. CASE IsConstant(by)
  <2>1. encode_shifted_reg(word, reg, shift, by)
          = ((word \cup set_bits_to({}, reg.n, 0)) \cup set_bits_to({}, shift.n, 5))
              \cup set_bits_to({}, by.n * 8, 4)
    BY <1>5, <1>6, <1>7 DEF encode_shifted_reg, number
  <2>. QED  BY <1>1, <1>2, <1>3, <1>7, <2>1 DEF OperandBits
<1>8. CASE ~IsConstant(by)
  <2>1. encode_shifted_reg(word, reg, shift, by)
          = ((word \cup set_bits_to({}, reg.n, 0)) \cup set_bits_to({}, shift.n, 5))
              \cup set_bits_to({}, by.n * 16 + 1, 4)
    BY <1>5, <1>6, <1>8 DEF encode_shifted_reg, number
  <2>. QED  BY <1>1, <1>2, <1>4, <1>8, <2>1 DEF OperandBits
<1>. QED  BY <1>7, <1>8

\* A register without a shift.
NoShift == [kind |-> "constant", n |-> 0]

\* The register alone is written as one shifted left by nothing.
LEMMA PlainIsWritten ==
  ASSUME NEW reg, IsRegister(reg), NEW word
  PROVE  /\ set_bits_to(word, reg.n, 0) = word \cup OperandBits(reg, 0, NoShift)
         /\ IsNumber(NoShift, 31)
<1>1. set_bits_to({}, reg.n, 0) = Shifted(reg.n, 0)
  <2>1. reg.n \in 0 .. 15 /\ 0 \in 0 .. 28
    BY DEF IsRegister
  <2>. QED  BY <2>1, FourBitField
<1>2. set_bits_to(word, reg.n, 0) = word \cup set_bits_to({}, reg.n, 0)
  <2>1. 0 \in Nat
    OBVIOUS
  <2>. QED  BY <2>1, SetBits
<1>3. OperandBits(reg, 0, NoShift) = Shifted(reg.n, 0)
  <2>1. Shifted(0, 5) = {} /\ Shifted(0, 7) = {}
    BY NineBits DEF Shifted
  <2>2. IsConstant(NoShift) /\ NoShift.n = 0
    BY DEF IsConstant, NoShift
  <2>. QED  BY <2>1, <2>2 DEF OperandBits
<1>4. IsNumber(NoShift, 31)
  BY DEF IsNumber, IsConstant, NoShift
<1>. QED  BY <1>1, <1>2, <1>3, <1>4

\* A non-negative number of 31 bits is what its bits say.
LEMMA WordNumber ==
  ASSUME NEW n \in 0 .. 2 ^ 31 - 1
  PROVE  n \in Nat /\ Bits(n) \subseteq 0 .. 30 /\ Value(Bits(n)) = n
<1>1. n \in Nat
  OBVIOUS
<1>2. Bits(n) \subseteq 0 .. 30
  <2>1. 31 \in 0 .. 31
    OBVIOUS
  <2>2. Bits(n) \subseteq 0 .. 31 - 1
    BY <2>1, BitsBelow
  <2>. QED  BY <2>2
<1>. QED  BY <1>1, <1>2, ValueOfBits

\* A power of two divides what has no lower bits.
LEMMA DividedBy ==
  ASSUME NEW n \in Nat, NEW s \in 0 .. 31
  PROVE  n % 2 ^ s = 0 <=> Bits(n) \cap (0 .. s - 1) = {}
<1>. DEFINE m == n % 2 ^ s
<1>1. s \in 0 .. 32 /\ 0 \in Nat
  OBVIOUS
<1>2. m \in 0 .. 2 ^ s - 1 /\ 2 ^ s \in Nat \ {0}
  BY <1>1, BitType, PowerType
<1>3. 0 \in 0 .. 2 ^ s - 1
  BY <1>2
<1>. HIDE DEF m
<1>4. \A i \in 0 .. s - 1 : Bit(m, i) = Bit(n, i)
  BY <1>1, BitOfRemainder DEF m
<1>5. \A i \in 0 .. s - 1 : Bit(0, i) = 0
  <2>. SUFFICES ASSUME NEW i \in 0 .. s - 1 PROVE Bit(0, i) = 0
    OBVIOUS
  <2>1. i \in 0 .. 30
    OBVIOUS
  <2>2. i \in Bits(0) <=> Bit(0, i) = 1
    BY <1>1, <2>1, BitMember
  <2>3. Bit(0, i) \in {0, 1}
    <3>1. i \in 0 .. 32
      BY <2>1
    <3>. QED  BY <1>1, <3>1, BitType
  <2>. QED  BY <2>2, <2>3, NineBits
<1>6. \A i \in 0 .. s - 1 : i \in Bits(n) <=> Bit(n, i) = 1
  <2>1. 0 .. s - 1 \subseteq 0 .. 30
    OBVIOUS
  <2>. QED  BY <2>1, BitMember
<1>7. ASSUME Bits(n) \cap (0 .. s - 1) = {} PROVE m = 0
  <2>1. \A i \in 0 .. s - 1 : Bit(n, i) \in {0, 1}
    <3>1. 0 .. s - 1 \subseteq 0 .. 32
      OBVIOUS
    <3>. QED  BY <3>1, BitType
  <2>2. \A i \in 0 .. s - 1 : Bit(m, i) = Bit(0, i)
    BY <1>4, <1>5, <1>6, <1>7, <2>1
  <2>. QED  BY <1>1, <1>2, <1>3, <2>2, SameBits
<1>8. ASSUME m = 0 PROVE Bits(n) \cap (0 .. s - 1) = {}
  BY <1>4, <1>5, <1>6, <1>8
<1>. QED  BY <1>7, <1>8 DEF m

\* What Zeros finds: the lowest bit.
LEMMA LowestBit ==
  ASSUME NEW n \in 1 .. 2 ^ 31 - 1
  PROVE  \E z \in Bits(n) : /\ z \in 0 .. 30
                            /\ \A i \in Bits(n) : z <= i
                            /\ Min(Bits(n)) = z
                            /\ Zeros(n) = z
<1>1. n \in Nat /\ n \in 0 .. 2 ^ 31 - 1 /\ n # 0
  OBVIOUS
<1>2. Bits(n) \subseteq 0 .. 30 /\ Value(Bits(n)) = n
  BY <1>1, WordNumber
<1>3. Bits(n) # {}
  <2>1. 0 \in 0 .. 2 ^ 31 - 1
    OBVIOUS
  <2>2. Value(Bits(0)) = 0
    BY <2>1, ValueOfBits
  <2>. QED  BY <1>1, <1>2, <2>2, NineBits
<1>4. PICK z \in Bits(n) : \A y \in Bits(n) : ~(y < z)
  <2>1. Bits(n) \in SUBSET Nat
    BY <1>2
  <2>. QED  BY <1>3, <2>1, LeastNatural
<1>5. z \in 0 .. 30 /\ \A i \in Bits(n) : z <= i
  BY <1>2, <1>4
<1>6. \A s \in 0 .. 31 : n % 2 ^ s = 0 <=> s <= z
  <2>. SUFFICES ASSUME NEW s \in 0 .. 31 PROVE n % 2 ^ s = 0 <=> s <= z
    OBVIOUS
  <2>1. n % 2 ^ s = 0 <=> Bits(n) \cap (0 .. s - 1) = {}
    BY <1>1, DividedBy
  <2>2. Bits(n) \cap (0 .. s - 1) = {} <=> s <= z
    BY <1>2, <1>4, <1>5
  <2>. QED  BY <2>1, <2>2
<1>7. Min(Bits(n)) = z
  <2>1. \A x \in Bits(n) : (\A y \in Bits(n) : x <= y) => x = z
    BY <1>2, <1>5
  <2>. QED  BY <1>5, <2>1 DEF Min
<1>8. Zeros(n) = z
  <2>1. {s \in 0 .. 30 : n % 2 ^ s = 0} = 0 .. z
    <3>1. \A s \in 0 .. 30 : n % 2 ^ s = 0 <=> s <= z
      <4>1. 0 .. 30 \subseteq 0 .. 31
        OBVIOUS
      <4>. QED  BY <1>6, <4>1
    <3>2. 0 .. z = {s \in 0 .. 30 : s <= z}
      BY <1>5
    <3>. QED  BY <3>1, <3>2
  <2>2. Max(0 .. z) = z
    <3>1. z \in 0 .. z /\ (\A y \in 0 .. z : z >= y)
      BY <1>5
    <3>2. \A x \in 0 .. z : (\A y \in 0 .. z : x >= y) => x = z
      BY <1>5
    <3>. QED  BY <3>1, <3>2 DEF Max
  <2>. QED  BY <2>1, <2>2 DEF Zeros
<1>. QED  BY <1>5, <1>7, <1>8

\* A quotient is no larger, and below q if the number is below p * q.
LEMMA QuotientBelow ==
  ASSUME NEW n \in Nat, NEW p \in Nat \ {0}
  PROVE  /\ n \div p <= n
         /\ \A q \in Nat : n < p * q => n \div p < q
<1>. DEFINE h == n \div p
            r == n % p
<1>1. h \in Nat /\ r \in 0 .. p - 1 /\ n = p * h + r
  BY Z3
<1>. HIDE DEF h, r
<1>2. p * h \in Int /\ p * h >= h
  BY <1>1, Z3
<1>3. h <= n
  BY <1>1, <1>2
<1>4. ASSUME NEW q \in Nat, n < p * q PROVE h < q
  <2>1. p * h < p * q
    <3>1. p * q \in Int
      OBVIOUS
    <3>. QED  BY <1>1, <1>2, <1>4, <3>1
  <2>. QED  BY <1>1, <2>1, Z3
<1>. QED  BY <1>3, <1>4 DEF h

\* The bits above the lowest ones.
LEMMA HighBits ==
  ASSUME NEW n \in 0 .. 2 ^ 31 - 1, NEW a \in 0 .. 30
  PROVE  /\ n \div 2 ^ a \in 0 .. 2 ^ 31 - 1
         /\ Bits(n \div 2 ^ a) = {i \in 0 .. 30 : i + a \in Bits(n)}
<1>. DEFINE h == n \div 2 ^ a
            p == 2 ^ a
<1>1. n \in Nat /\ Bits(n) \subseteq 0 .. 30
  BY WordNumber
<1>2. h \in Nat /\ p \in Nat \ {0}
  <2>1. a \in 0 .. 32
    OBVIOUS
  <2>. QED  BY <1>1, <2>1, BitType, PowerType
<1>3. h <= n
  <2>1. h = n \div p
    OBVIOUS
  <2>. HIDE DEF h, p
  <2>. QED  BY <1>1, <1>2, <2>1, QuotientBelow
<1>. HIDE DEF h, p
<1>4. h \in 0 .. 2 ^ 31 - 1
  <2>1. 2 ^ 31 = 2147483648
    OBVIOUS
  <2>. QED  BY <1>1, <1>2, <1>3, <2>1
<1>5. Bits(h) \subseteq 0 .. 30
  BY <1>4, WordNumber
<1>6. ASSUME NEW i \in 0 .. 30 PROVE i \in Bits(h) <=> i + a \in Bits(n)
  <2>1. i \in Bits(h) <=> Bit(h, i) = 1
    BY <1>2, BitMember
  <2>2. CASE i + a <= 30
    <3>1. i \in Nat /\ a \in Nat /\ a + i <= 32 /\ i + a \in 0 .. 30 /\ i + a = a + i
      BY <2>2
    <3>2. Bit(h, i) = Bit(n, a + i)
      BY <1>1, <3>1, BitOfQuotient DEF h
    <3>3. i + a \in Bits(n) <=> Bit(n, a + i) = 1
      BY <1>1, <3>1, BitMember
    <3>. QED  BY <2>1, <3>2, <3>3
  <2>3. CASE i + a > 30
    <3>1. i + a \notin Bits(n)
      BY <1>1, <2>3
    <3>2. i \notin Bits(h)
      <4>. DEFINE k == 31 - a
      <4>1. k \in 0 .. 31 /\ k \in Nat /\ a \in Nat /\ a + k = 31 /\ a + k <= 32
        OBVIOUS
      <4>2. 2 ^ 31 = 2 ^ a * 2 ^ k
        BY <4>1, PowersAdd
      <4>. DEFINE q == 2 ^ k
      <4>3. q \in Nat \ {0}
        <5>1. k \in 0 .. 32
          OBVIOUS
        <5>. QED  BY <5>1, PowerType
      <4>4. n < p * q
        <5>1. n < 2 ^ 31
          OBVIOUS
        <5>. QED  BY <4>2, <5>1 DEF p
      <4>5. h < q
        <5>1. h = n \div p
          BY DEF h, p
        <5>. HIDE DEF q
        <5>. QED  BY <1>1, <1>2, <4>3, <4>4, <5>1, QuotientBelow
      <4>6. h \in 0 .. 2 ^ k - 1
        <5>1. h \in 0 .. q - 1
          <6>. HIDE DEF q
          <6>. QED  BY <1>2, <4>3, <4>5
        <5>. QED  BY <5>1
      <4>7. Bits(h) \subseteq 0 .. k - 1
        <5>. HIDE DEF k
        <5>. QED  BY <4>1, <4>6, BitsBelow
      <4>8. i > k - 1
        BY <2>3
      <4>. HIDE DEF k
      <4>. QED  BY <4>1, <4>7, <4>8
    <3>. QED  BY <3>1, <3>2
  <2>. QED  BY <2>2, <2>3
<1>. QED  BY <1>4, <1>5, <1>6 DEF h

\* What an immediate leaves in a word, below its registers and in them.
IsImmediate(n, low, high) ==
  /\ low \in SUBSET (0 .. 11) /\ high \in {{}, {12}}
  /\ Spills(n) => immediate_op2(low).ones # Bits(n)
  /\ ~Spills(n) => /\ high = {}
                   /\ immediate_op2(low) = [kind |-> "immediate", ones |-> Bits(n)]
                   /\ MultiplyMark(low) <=> Lookalike(n)

\* The mark of a multiply is a 9 in the bits 4 to 7.
LEMMA MarkOfImmediate ==
  ASSUME NEW eight \in 0 .. 2 ^ 31 - 1, NEW low,
         low \cap (4 .. 7) = Bits(eight) \cap (4 .. 7)
  PROVE  MultiplyMark(low) <=> (eight \div 16) % 16 = 9
<1>. DEFINE m == (eight \div 2 ^ 4) % 2 ^ 4
<1>1. Fits(m, 4) /\ Bits(m) = {i \in 0 .. 4 - 1 : i + 4 \in Bits(eight)}
  <2>1. eight \in Nat /\ 4 \in Nat /\ 4 + 4 <= 31
    OBVIOUS
  <2>. QED  BY <2>1, BitsOfField
<1>2. 2 ^ 4 = 16
  OBVIOUS
<1>3. m = (eight \div 16) % 16
  BY <1>2
<1>4. m \in 0 .. 15
  BY <1>1, <1>2 DEF Fits
<1>. HIDE DEF m
<1>5. m = 9 <=> Bits(m) = {0, 3}
  <2>1. m \in 0 .. 2 ^ 31 - 1 /\ 9 \in 0 .. 2 ^ 31 - 1
    BY <1>4
  <2>2. Value(Bits(m)) = m /\ Value(Bits(9)) = 9
    BY <2>1, ValueOfBits
  <2>. QED  BY <2>2, NineBits
<1>6. \A i \in 0 .. 3 : i \in Bits(m) <=> i + 4 \in Bits(eight)
  BY <1>1
<1>7. Bits(m) \subseteq 0 .. 3
  BY <1>1
<1>8. Bits(m) = {0, 3} <=> /\ 4 \in Bits(eight) /\ 5 \notin Bits(eight)
                           /\ 6 \notin Bits(eight) /\ 7 \in Bits(eight)
  <2>1. 0 \in Bits(m) <=> 4 \in Bits(eight)
    BY <1>6
  <2>2. 1 \in Bits(m) <=> 5 \in Bits(eight)
    BY <1>6
  <2>3. 2 \in Bits(m) <=> 6 \in Bits(eight)
    BY <1>6
  <2>4. 3 \in Bits(m) <=> 7 \in Bits(eight)
    BY <1>6
  <2>. QED  BY <1>7, <2>1, <2>2, <2>3, <2>4
<1>9. MultiplyMark(low) <=> /\ 4 \in Bits(eight) /\ 5 \notin Bits(eight)
                            /\ 6 \notin Bits(eight) /\ 7 \in Bits(eight)
  BY DEF MultiplyMark
<1>. QED  BY <1>3, <1>5, <1>8, <1>9

\* Up to 255 the immediate stands as it is.
LEMMA SmallImmediate ==
  ASSUME NEW n \in 0 .. 255
  PROVE  /\ ~Refused(n)
         /\ IsImmediate(n, Bits(n), {})
         /\ \A word : set_bits_to(word, n, 0) = word \cup Bits(n)
<1>1. ~Refused(n) /\ Eight(n) = n /\ ~Spills(n)
  BY DEF Refused, Eight, Spills
<1>2. n \in 0 .. 2 ^ 31 - 1 /\ n \in 0 .. 2 ^ 8 - 1 /\ 8 \in 0 .. 31
  OBVIOUS
<1>3. Bits(n) \subseteq 0 .. 7
  <2>1. Bits(n) \subseteq 0 .. 8 - 1
    BY <1>2, BitsBelow
  <2>. QED  BY <2>1
<1>4. MultiplyMark(Bits(n)) <=> Lookalike(n)
  BY <1>1, <1>2, MarkOfImmediate DEF Lookalike
<1>5. create_mask(8, 11, Bits(n)) = 0
  <2>1. Bits(n) \cap (8 .. 8 + 3) = {} /\ 0 \in 0 .. 15 /\ 8 \in 0 .. 28 /\ 8 + 3 = 11
    BY <1>3
  <2>2. Shifted(0, 8) = {}
    BY NineBits DEF Shifted
  <2>3. create_mask(8, 8 + 3, Bits(n)) = 0
    BY <2>1, <2>2, FourBitValue
  <2>. QED  BY <2>1, <2>3
<1>6. immediate_op2(Bits(n)) = [kind |-> "immediate", ones |-> Bits(n)]
  <2>1. Bits(n) \cap (0 .. 7) = Bits(n)
    BY <1>3
  <2>2. Rotated(Bits(n), 2 * 0) = Bits(n)
    <3>1. \A i \in Bits(n) : (i - 2 * 0) % 32 = i
      BY <1>3
    <3>. QED  BY <3>1 DEF Rotated
  <2>. QED  BY <1>5, <2>1, <2>2 DEF immediate_op2
<1>7. IsImmediate(n, Bits(n), {})
  <2>1. Bits(n) \in SUBSET (0 .. 11)
    BY <1>3
  <2>. QED  BY <1>1, <1>4, <1>6, <2>1 DEF IsImmediate
<1>8. ASSUME NEW word PROVE set_bits_to(word, n, 0) = word \cup Bits(n)
  <2>1. {i + 0 : i \in {b \in Bits(n) : b + 0 <= 31}} = Bits(n)
    BY <1>3
  <2>. QED  BY <2>1 DEF set_bits_to
<1>. QED  BY <1>1, <1>7, <1>8

\* Above 255 it is its significant bits, moved to an even place.
LEMMA LargeParts ==
  ASSUME NEW n \in 256 .. 2 ^ 31 - 1
  PROVE  \E z \in 0 .. 30 : \E odd \in Nat :
           /\ Min(Bits(n)) = z /\ Zeros(n) = z
           /\ odd = n \div 2 ^ z /\ Significant(n) = odd
           /\ \A i \in Bits(n) : z <= i
           /\ Bits(odd) = {i \in 0 .. 30 : i + z \in Bits(n)}
           /\ 0 \in Bits(odd)
           /\ Bits(odd) = {i \in Positions : i + z \in Bits(n)}
           /\ odd <= 255 => z > 0
           /\ odd <= 255 <=> \A i \in Bits(odd) : i <= 7
<1>1. n \in 1 .. 2 ^ 31 - 1 /\ n \in 0 .. 2 ^ 31 - 1
  OBVIOUS
<1>2. PICK z \in Bits(n) : /\ z \in 0 .. 30
                           /\ \A i \in Bits(n) : z <= i
                           /\ Min(Bits(n)) = z
                           /\ Zeros(n) = z
  BY <1>1, LowestBit
<1>. DEFINE odd == n \div 2 ^ z
<1>3. /\ odd \in Nat /\ odd \in 0 .. 2 ^ 31 - 1
      /\ Bits(odd) = {i \in 0 .. 30 : i + z \in Bits(n)}
  <2>1. odd \in 0 .. 2 ^ 31 - 1 /\ Bits(odd) = {i \in 0 .. 30 : i + z \in Bits(n)}
    BY <1>1, <1>2, HighBits
  <2>. HIDE DEF odd
  <2>2. odd \in Nat
    BY <2>1
  <2>. QED  BY <2>1, <2>2
<1>4. Significant(n) = odd
  BY <1>2 DEF Significant
<1>5. z = 0 => odd = n
  <2>1. 2 ^ 0 = 1 /\ n \div 1 = n
    OBVIOUS
  <2>. QED  BY <2>1
<1>. HIDE DEF odd
<1>6. 0 \in Bits(odd)
  BY <1>2, <1>3
<1>7. odd <= 255 => z > 0
  BY <1>2, <1>5
<1>8. Bits(odd) = {i \in Positions : i + z \in Bits(n)}
  <2>1. Bits(n) \subseteq 0 .. 30
    BY <1>1, WordNumber
  <2>2. \A i \in Positions : i + z \in Bits(n) => i \in 0 .. 30
    BY <1>2, <2>1 DEF Positions
  <2>3. 0 .. 30 \subseteq Positions
    BY DEF Positions
  <2>. QED  BY <1>3, <2>2, <2>3
<1>9. odd <= 255 => \A i \in Bits(odd) : i <= 7
  <2>. SUFFICES ASSUME odd <= 255 PROVE \A i \in Bits(odd) : i <= 7
    OBVIOUS
  <2>1. odd \in 0 .. 2 ^ 8 - 1 /\ 8 \in 0 .. 31
    BY <1>3
  <2>2. Bits(odd) \subseteq 0 .. 8 - 1
    BY <2>1, BitsBelow
  <2>. QED  BY <2>2
<1>10. ASSUME \A i \in Bits(odd) : i <= 7 PROVE odd <= 255
  <2>. DEFINE low == (odd \div 2 ^ 0) % 2 ^ 8
  <2>1. 0 \in Nat /\ 8 \in Nat /\ 0 + 8 <= 31
    OBVIOUS
  <2>2. Bits(low) = {i \in 0 .. 8 - 1 : i + 0 \in Bits(odd)}
    BY <1>3, <2>1, BitsOfField
  <2>3. Bits(odd) \subseteq 0 .. 30
    BY <1>3
  <2>4. Bits(low) = Bits(odd)
    <3>1. \A i \in Bits(odd) : i \in 0 .. 8 - 1 /\ i + 0 = i
      BY <1>10, <2>3
    <3>2. \A i \in 0 .. 8 - 1 : i + 0 = i
      OBVIOUS
    <3>. QED  BY <2>2, <3>1, <3>2
  <2>5. low \in 0 .. 255
    <3>1. 2 ^ 0 = 1 /\ 2 ^ 8 = 256 /\ odd \div 1 = odd
      BY <1>3
    <3>. QED  BY <1>3, <3>1
  <2>6. low \in 0 .. 2 ^ 31 - 1
    BY <2>5
  <2>. HIDE DEF low
  <2>7. low = odd
    BY <1>3, <2>4, <2>6, ValueOfBits
  <2>. QED  BY <2>5, <2>7
<1>. QED  BY <1>2, <1>3, <1>4, <1>6, <1>7, <1>8, <1>9, <1>10 DEF odd

\* A number with one more digit.
LEMMA OneMoreDigit ==
  ASSUME NEW b \in 0 .. 30, NEW high \in 0 .. 2 ^ b - 1
  PROVE  /\ Bits(2 * high) = Shifted(high, 1)
         /\ Bits(2 * high + 1) = {0} \cup Shifted(high, 1)
<1>. DEFINE a == 1
            p == 2 ^ a
<1>1. a \in Nat /\ b \in Nat /\ a + b <= 31 /\ 0 \in 0 .. 2 ^ a - 1 /\ 1 \in 0 .. 2 ^ a - 1
  OBVIOUS
<1>2. p = 2 /\ high \in Int
  <2>1. b \in 0 .. 32
    OBVIOUS
  <2>. QED  BY <2>1, PowerType
<1>3. 0 + p * high = 2 * high /\ 1 + p * high = 2 * high + 1
  BY <1>2
<1>. HIDE DEF a
<1>4. /\ Bits(0 + 2 ^ a * high) = Bits(0) \cup Shifted(high, a)
      /\ Bits(1 + 2 ^ a * high) = Bits(1) \cup Shifted(high, a)
  BY <1>1, BitsOfSum
<1>. HIDE DEF p
<1>5. /\ Bits(0 + p * high) = Shifted(high, a)
      /\ Bits(1 + p * high) = {0} \cup Shifted(high, a)
  BY <1>4, NineBits, SmallBits DEF p
<1>. QED  BY <1>3, <1>5 DEF a

\* eight lies e places below n, and rot turns it back there.
IsEight(n, z, eight, e, rot) ==
  /\ eight = Eight(n) /\ eight \in 0 .. 510
  /\ z \in 1 .. 30 /\ \A i \in Bits(n) : z <= i
  /\ e = 2 * (z \div 2) /\ rot = 16 - z \div 2
  /\ Bits(eight) \subseteq 0 .. 8
  /\ Bits(n) = Shifted(eight, e) /\ Bits(n) \subseteq 0 .. 30
  /\ eight > 255 => z % 2 = 1 /\ 1 \in Bits(eight) /\ 8 \in Bits(eight)
  /\ eight <= 255 => z > 1 /\ Bits(eight) \subseteq 0 .. 7
  /\ \A word : encode_immediate_op2(word, n) = word \cup Bits(eight) \cup set_bits_to({}, rot, 8)

\* An immediate that is not refused has such eight or nine bits.
LEMMA LargeEight ==
  ASSUME NEW n \in 256 .. 2 ^ 31 - 1, ~Refused(n)
  PROVE  \E z, eight, e, rot : IsEight(n, z, eight, e, rot)
<1>1. PICK z \in 0 .. 30, odd \in Nat :
           /\ Min(Bits(n)) = z /\ Zeros(n) = z
           /\ odd = n \div 2 ^ z /\ Significant(n) = odd
           /\ \A i \in Bits(n) : z <= i
           /\ Bits(odd) = {i \in 0 .. 30 : i + z \in Bits(n)}
           /\ 0 \in Bits(odd)
           /\ Bits(odd) = {i \in Positions : i + z \in Bits(n)}
           /\ odd <= 255 => z > 0
           /\ odd <= 255 <=> \A i \in Bits(odd) : i <= 7
  BY LargeParts
<1>0. /\ Bits(odd) = {i \in Positions : i + z \in Bits(n)}
      /\ odd <= 255 => \A i \in Bits(odd) : i <= 7
  BY <1>1
<1>2. odd <= 255 /\ z \in 1 .. 30
  BY <1>1 DEF Refused
<1>. DEFINE twice == z % 2 = 1
            eight == IF twice THEN 2 * odd ELSE odd
            e == 2 * (z \div 2)
            rot == 16 - z \div 2
<1>3. eight = Eight(n) /\ eight \in 0 .. 510 /\ eight \in Nat
  <2>1. n > 255 /\ ~(n <= 255) /\ z % 2 \in {0, 1}
    BY <1>1
  <2>2. Eight(n) = IF twice THEN 2 * odd ELSE odd
    BY <1>1, <2>1 DEF Eight
  <2>. QED  BY <1>1, <1>2, <2>2
<1>4. odd \in 0 .. 2 ^ 8 - 1 /\ Bits(odd) \subseteq 0 .. 7
  <2>1. odd \in 0 .. 2 ^ 8 - 1 /\ 8 \in 0 .. 31
    BY <1>1, <1>2
  <2>2. Bits(odd) \subseteq 0 .. 8 - 1
    BY <2>1, BitsBelow
  <2>. QED  BY <2>1, <2>2
<1>5. twice => Bits(eight) = Shifted(odd, 1)
  <2>1. Bits(2 * odd) = Shifted(odd, 1)
    <3>1. 8 \in 0 .. 30
      OBVIOUS
    <3>. QED  BY <1>4, <3>1, OneMoreDigit
  <2>. QED  BY <2>1
<1>6. ~twice => Bits(eight) = Bits(odd)
  OBVIOUS
<1>7. (twice => e = z - 1) /\ (~twice => e = z)
  BY <1>1
<1>. HIDE DEF eight
<1>8. Bits(eight) \subseteq 0 .. 8
  BY <1>4, <1>5, <1>6 DEF Shifted
<1>9. Bits(n) \subseteq 0 .. 30
  <2>1. n \in 0 .. 2 ^ 31 - 1
    OBVIOUS
  <2>. QED  BY <2>1, WordNumber
<1>10. Bits(n) = Shifted(eight, e)
  <2>0. Bits(n) = Shifted(odd, z)
    <3>1. \A i \in Bits(n) : i - z \in 0 .. 30 /\ (i - z) + z = i
      BY <1>1, <1>9
    <3>2. \A i \in Bits(n) : i - z \in Bits(odd)
      BY <1>1, <3>1
    <3>3. \A i \in Bits(odd) : i + z \in Bits(n)
      BY <1>1
    <3>. QED  BY <3>1, <3>2, <3>3 DEF Shifted
  <2>1. CASE twice
    <3>1. Shifted(eight, e) = Shifted(odd, z)
      <4>1. e = z - 1
        BY <1>7, <2>1
      <4>. HIDE DEF e
      <4>2. \A j \in 0 .. 7 : (j + 1) + e = j + z
        BY <4>1
      <4>3. \A x \in Bits(eight) : x - 1 \in Bits(odd) /\ (x - 1) + 1 = x
        BY <1>4, <1>5, <2>1 DEF Shifted
      <4>4. \A j \in Bits(odd) : j + 1 \in Bits(eight)
        BY <1>5, <2>1 DEF Shifted
      <4>. QED  BY <1>4, <4>2, <4>3, <4>4 DEF Shifted
    <3>. QED  BY <2>0, <3>1
  <2>2. CASE ~twice
    BY <1>6, <1>7, <2>0, <2>2 DEF Shifted
  <2>. QED  BY <2>1, <2>2
<1>11. ASSUME eight > 255 PROVE z % 2 = 1 /\ 1 \in Bits(eight) /\ 8 \in Bits(eight)
  <2>1. twice /\ odd > 127
    BY <1>1, <1>2, <1>11 DEF eight
  <2>2. 7 \in Bits(odd)
    <3>1. 2 ^ 7 = 128 /\ (odd \div 128) % 2 = 1
      BY <1>1, <1>2, <2>1
    <3>. QED  BY <3>1 DEF Bits
  <2>. QED  BY <1>1, <1>5, <2>1, <2>2 DEF Shifted
<1>12. ASSUME eight <= 255 PROVE z > 1 /\ Bits(eight) \subseteq 0 .. 7
  <2>1. Bits(eight) \subseteq 0 .. 7
    <3>1. eight \in 0 .. 2 ^ 8 - 1 /\ 8 \in 0 .. 31
      BY <1>3, <1>12
    <3>2. Bits(eight) \subseteq 0 .. 8 - 1
      BY <3>1, BitsBelow
    <3>. QED  BY <3>2
  <2>2. ASSUME z = 1 PROVE FALSE
    <3>1. e = 0 /\ twice
      BY <2>2
    <3>2. Bits(n) = Bits(eight)
      BY <1>8, <1>10, <3>1 DEF Shifted
    <3>3. n \in 0 .. 2 ^ 31 - 1 /\ eight \in 0 .. 2 ^ 31 - 1
      BY <1>3
    <3>4. n = eight
      BY <3>2, <3>3, ValueOfBits
    <3>. QED  BY <1>12, <3>4
  <2>. QED  BY <1>2, <2>1, <2>2
<1>13. ASSUME NEW word
       PROVE  encode_immediate_op2(word, n) = word \cup Bits(eight) \cup set_bits_to({}, rot, 8)
  <2>1. {i + (z % 2) : i \in Bits(odd)} = Bits(eight)
    <3>1. CASE twice
      <4>1. Bits(odd) \subseteq Int /\ Bits(eight) = {i + 1 : i \in Bits(odd)}
        BY <1>4, <1>5, <3>1 DEF Shifted
      <4>. QED  BY <3>1, <4>1
    <3>2. CASE ~twice
      <4>1. z % 2 = 0 /\ Bits(eight) = Bits(odd) /\ Bits(odd) \subseteq Int
        BY <1>1, <1>4, <1>6, <3>2
      <4>. QED  BY <4>1
    <3>. QED  BY <3>1, <3>2
  <2>2. encode_immediate_op2(word, n)
          = set_bits_to(word \cup {i + (z % 2) : i \in Bits(odd)}, rot, 8)
    <3>1. ~\E i \in Bits(odd) : i > 7
      BY <1>0, <1>2, <1>4
    <3>. QED  BY <1>1, <3>1 DEF encode_immediate_op2
  <2>. HIDE DEF rot, twice
  <2>3. encode_immediate_op2(word, n) = set_bits_to(word \cup Bits(eight), rot, 8)
    BY <2>1, <2>2
  <2>4. \A w : set_bits_to(w, rot, 8) = w \cup set_bits_to({}, rot, 8)
    <3>1. 8 \in Nat
      OBVIOUS
    <3>. QED  BY <3>1, SetBits
  <2>. QED  BY <2>1, <2>2, <2>3, <2>4
<1>14. IsEight(n, z, eight, e, rot)
  <2>. HIDE DEF twice
  <2>1. e = 2 * (z \div 2) /\ rot = 16 - z \div 2
    OBVIOUS
  <2>. HIDE DEF e, rot
  <2>. QED  BY <1>1, <1>2, <1>3, <1>8, <1>9, <1>10, <1>11, <1>12, <1>13, <2>1 DEF IsEight
<1>. QED  BY <1>14

\* Eight bits at an even place are read as they were written.
LEMMA EightIsRead ==
  ASSUME NEW n \in 256 .. 2 ^ 31 - 1, NEW z, NEW eight, NEW e, NEW rot,
         IsEight(n, z, eight, e, rot), eight <= 255
  PROVE  /\ IsImmediate(n, Bits(eight) \cup Shifted(rot, 8), {})
         /\ set_bits_to({}, rot, 8) = Shifted(rot, 8)
<1>. DEFINE low == Bits(eight) \cup Shifted(rot, 8)
<1>1. /\ z \in 2 .. 30 /\ eight \in 0 .. 255 /\ eight = Eight(n)
      /\ Bits(eight) \subseteq 0 .. 7
      /\ Bits(n) = Shifted(eight, e) /\ Bits(n) \subseteq 0 .. 30
  BY DEF IsEight
<1>2. rot \in 1 .. 15 /\ e \in 2 .. 30 /\ 2 * rot = 32 - e
  <2>1. e = 2 * (z \div 2) /\ rot = 16 - z \div 2
    BY DEF IsEight
  <2>2. z \div 2 \in 1 .. 15
    BY <1>1
  <2>. QED  BY <2>1, <2>2
<1>3. Shifted(rot, 8) \subseteq 8 .. 11 /\ set_bits_to({}, rot, 8) = Shifted(rot, 8)
  <2>1. rot \in 0 .. 15 /\ 8 \in 0 .. 28 /\ 8 + 3 = 11
    BY <1>2
  <2>. QED  BY <2>1, FourBitField
<1>4. /\ low \in SUBSET (0 .. 11)
      /\ low \cap (0 .. 7) = Bits(eight)
      /\ low \cap (8 .. 11) = Shifted(rot, 8)
      /\ low \cap (4 .. 7) = Bits(eight) \cap (4 .. 7)
  BY <1>1, <1>3
<1>. HIDE DEF low
<1>5. create_mask(8, 11, low) = rot
  <2>1. rot \in 0 .. 15 /\ 8 \in 0 .. 28 /\ 8 + 3 = 11
    BY <1>2
  <2>2. create_mask(8, 8 + 3, low) = rot
    BY <1>4, <2>1, FourBitValue
  <2>. QED  BY <2>1, <2>2
<1>6. Rotated(Bits(eight), 2 * rot) = Bits(n)
  <2>1. \A i \in Bits(eight) : i + e \in Bits(n)
    BY <1>1 DEF Shifted
  <2>2. \A i \in Bits(eight) : (i - 2 * rot) % 32 = i + e
    <3>. SUFFICES ASSUME NEW i \in Bits(eight) PROVE (i - 2 * rot) % 32 = i + e
      OBVIOUS
    <3>1. i \in 0 .. 7 /\ i + e \in 0 .. 30
      BY <1>1, <2>1
    <3>2. i - 2 * rot = (i + e) - 32
      BY <1>2, <3>1
    <3>. QED  BY <1>2, <3>1, <3>2
  <2>. QED  BY <1>1, <2>2 DEF Rotated, Shifted
<1>7. immediate_op2(low) = [kind |-> "immediate", ones |-> Bits(n)]
  BY <1>4, <1>5, <1>6 DEF immediate_op2
<1>8. MultiplyMark(low) <=> Lookalike(n)
  <2>1. eight \in 0 .. 2 ^ 31 - 1
    BY <1>1
  <2>. QED  BY <1>1, <1>4, <2>1, MarkOfImmediate DEF Lookalike
<1>9. ~Spills(n)
  BY <1>1 DEF Spills
<1>. QED  BY <1>3, <1>4, <1>7, <1>8, <1>9 DEF IsImmediate, low

\* The bits that make up such an immediate.
IsWritten(n, bits) == \E low, high : IsImmediate(n, low, high) /\ bits = low \cup high

\* A ninth bit is lost, and the rotation takes its place.
LEMMA NinthBitIsLost ==
  ASSUME NEW n \in 256 .. 2 ^ 31 - 1, NEW z, NEW eight, NEW e, NEW rot,
         IsEight(n, z, eight, e, rot), eight > 255
  PROVE  IsWritten(n, Bits(eight) \cup set_bits_to({}, rot, 8))
<1>0. ASSUME NEW low, NEW high, IsImmediate(n, low, high),
             Bits(eight) \cup set_bits_to({}, rot, 8) = low \cup high
      PROVE  IsWritten(n, Bits(eight) \cup set_bits_to({}, rot, 8))
  BY <1>0 DEF IsWritten
<1>1. /\ z \in 1 .. 30 /\ z % 2 = 1 /\ eight = Eight(n)
      /\ Bits(eight) \subseteq 0 .. 8 /\ 1 \in Bits(eight) /\ 8 \in Bits(eight)
      /\ Bits(n) = Shifted(eight, e) /\ Bits(n) \subseteq 0 .. 30
      /\ \A i \in Bits(n) : z <= i
  BY DEF IsEight
<1>2. e = z - 1 /\ 2 * rot = 32 - e /\ rot \in 1 .. 16
  <2>1. e = 2 * (z \div 2) /\ rot = 16 - z \div 2
    BY DEF IsEight
  <2>. QED  BY <1>1, <2>1
<1>3. 8 + e \in Bits(n) /\ 8 + e <= 30
  BY <1>1 DEF Shifted
<1>4. Spills(n)
  BY <1>1 DEF Spills
<1>5. CASE z = 1
  <2>1. set_bits_to({}, rot, 8) = {12}
    <3>1. rot = 16
      BY <1>2, <1>5
    <3>2. Bits(16) = {4}
      <4>. DEFINE a == 4  b == 1  high == 1  low == 0
      <4>1. /\ a \in Nat /\ b \in Nat /\ a + b <= 31
            /\ low \in 0 .. 2 ^ a - 1 /\ high \in 0 .. 2 ^ b - 1
        OBVIOUS
      <4>2. low + 2 ^ a * high = 16
        OBVIOUS
      <4>. HIDE DEF a, b, low, high
      <4>3. Bits(low + 2 ^ a * high) = Bits(low) \cup Shifted(high, a)
        BY <4>1, BitsOfSum
      <4>4. Bits(16) = Bits(low) \cup Shifted(high, a)
        BY <4>2, <4>3
      <4>. QED  BY <4>4, NineBits, SmallBits DEF Shifted, a, low, high
    <3>. QED  BY <3>1, <3>2 DEF set_bits_to
  <2>. DEFINE low == Bits(eight)
  <2>2. low \in SUBSET (0 .. 11) /\ 1 \in low \cap (0 .. 7) /\ low \cap (8 .. 8 + 3) = {8}
    BY <1>1
  <2>3. create_mask(8, 11, low) = 1
    <3>1. 1 \in 0 .. 15 /\ 8 \in 0 .. 28 /\ 8 + 3 = 11
      OBVIOUS
    <3>2. Shifted(1, 8) = {8}
      BY SmallBits DEF Shifted
    <3>. HIDE DEF low
    <3>3. create_mask(8, 8 + 3, low) = 1
      BY <2>2, <3>1, <3>2, FourBitValue
    <3>. QED  BY <3>1, <3>3
  <2>. HIDE DEF low
  <2>4. 31 \in immediate_op2(low).ones
    <3>1. (1 - 2 * 1) % 32 = 31
      <4>. DEFINE m == 32  x == -1  r == 31
      <4>1. m \in Nat \ {0} /\ x \in Int /\ x = m * x + r /\ r \in 0 .. m - 1
        OBVIOUS
      <4>2. 1 - 2 * 1 = x
        OBVIOUS
      <4>. HIDE DEF m, x, r
      <4>3. x % m = r
        BY <4>1, RemainderIsUnique
      <4>4. x % 32 = 31
        BY <4>3 DEF m, r
      <4>. QED  BY <4>2, <4>4
    <3>. QED  BY <2>2, <2>3, <3>1 DEF immediate_op2, Rotated
  <2>5. immediate_op2(low).ones # Bits(n)
    BY <1>1, <2>4
  <2>6. IsImmediate(n, low, {12})
    BY <1>4, <2>2, <2>5 DEF IsImmediate
  <2>7. Bits(eight) \cup set_bits_to({}, rot, 8) = low \cup {12}
    BY <2>1 DEF low
  <2>. QED  BY <1>0, <2>6, <2>7
<1>6. CASE z # 1
  <2>1. rot \in 1 .. 15 /\ e \in 2 .. 22
    BY <1>1, <1>2, <1>3, <1>6
  <2>2. set_bits_to({}, rot, 8) = Shifted(rot, 8) /\ Shifted(rot, 8) \subseteq 8 .. 11
    <3>1. rot \in 0 .. 15 /\ 8 \in 0 .. 28 /\ 8 + 3 = 11
      BY <2>1
    <3>. QED  BY <3>1, FourBitField
  <2>. DEFINE low == Bits(eight) \cup Shifted(rot, 8)
  <2>3. /\ low \in SUBSET (0 .. 11)
        /\ 1 \in low \cap (0 .. 7)
        /\ low \cap (0 .. 7) = Bits(eight) \cap (0 .. 7)
        /\ low \cap (8 .. 8 + 3) = {8} \cup Shifted(rot, 8)
    BY <1>1, <2>2
  <2>13. Bits(eight) \cup set_bits_to({}, rot, 8) = low \cup {}
    BY <2>2
  <2>. HIDE DEF low
  <2>4. ASSUME NEW r \in 0 .. 15, {8} \cup Shifted(rot, 8) = Shifted(r, 8)
        PROVE  create_mask(8, 11, low) = r
    <3>1. 8 \in 0 .. 28 /\ 8 + 3 = 11
      OBVIOUS
    <3>2. create_mask(8, 8 + 3, low) = r
      BY <2>3, <2>4, <3>1, FourBitValue
    <3>. QED  BY <3>1, <3>2
  <2>. DEFINE half == rot \div 2
  <2>5. half \in 0 .. 7 /\ rot = 2 * half + (rot % 2) /\ rot % 2 \in {0, 1}
    <3>1. rot \in Int /\ rot >= 1 /\ rot <= 15
      BY <2>1
    <3>2. rot = 2 * (rot \div 2) + (rot % 2) /\ rot % 2 \in 0 .. 1 /\ rot \div 2 \in Int
      BY <3>1, Z3
    <3>. QED  BY <3>1, <3>2
  <2>7. Bits(2 * half) = Shifted(half, 1) /\ Bits(2 * half + 1) = {0} \cup Shifted(half, 1)
    <3>1. 3 \in 0 .. 30 /\ half \in 0 .. 2 ^ 3 - 1
      BY <2>5
    <3>. HIDE DEF half
    <3>. QED  BY <3>1, OneMoreDigit
  <2>. HIDE DEF half
  <2>8. CASE rot % 2 = 1
    <3>1. 0 \in Bits(rot)
      <4>1. rot = 2 * half + 1
        BY <2>1, <2>5, <2>8
      <4>2. 0 \in Bits(2 * half + 1)
        BY <2>7
      <4>. QED  BY <4>1, <4>2
    <3>2. {8} \cup Shifted(rot, 8) = Shifted(rot, 8)
      BY <3>1 DEF Shifted
    <3>3. create_mask(8, 11, low) = rot
      <4>1. rot \in 0 .. 15
        BY <2>1
      <4>. QED  BY <2>4, <3>2, <4>1
    <3>4. \A i \in 0 .. 7 : (i - 2 * rot) % 32 # 8 + e
      <4>. SUFFICES ASSUME NEW i \in 0 .. 7 PROVE (i - 2 * rot) % 32 # 8 + e
        OBVIOUS
      <4>1. i - 2 * rot = (i + e) - 32 /\ i + e \in 0 .. 30
        BY <1>2, <2>1
      <4>. QED  BY <2>1, <4>1
    <3>5. 8 + e \notin immediate_op2(low).ones
      <4>1. \A i \in low \cap (0 .. 7) : (i - 2 * rot) % 32 # 8 + e
        BY <3>4
      <4>. QED  BY <3>3, <4>1 DEF immediate_op2, Rotated
    <3>6. IsImmediate(n, low, {})
      BY <1>3, <1>4, <2>3, <3>5 DEF IsImmediate
    <3>. QED  BY <1>0, <2>13, <3>6
  <2>9. CASE rot % 2 = 0
    <3>1. {8} \cup Shifted(rot, 8) = Shifted(rot + 1, 8)
      <4>1. rot = 2 * half /\ rot + 1 = 2 * half + 1
        BY <2>1, <2>5, <2>9
      <4>2. Bits(rot + 1) = {0} \cup Bits(rot)
        BY <2>7, <4>1
      <4>. QED  BY <4>2 DEF Shifted
    <3>2. create_mask(8, 11, low) = rot + 1
      <4>1. rot + 1 \in 0 .. 15
        BY <2>1, <2>9
      <4>. QED  BY <2>4, <3>1, <4>1
    <3>3. (1 - 2 * (rot + 1)) % 32 = z - 2
      <4>1. 1 - 2 * (rot + 1) = (z - 2) - 32
        BY <1>1, <1>2, <2>1
      <4>. QED  BY <1>1, <1>6, <4>1
    <3>4. z - 2 \in immediate_op2(low).ones
      BY <2>3, <3>2, <3>3 DEF immediate_op2, Rotated
    <3>5. z - 2 \notin Bits(n)
      BY <1>1
    <3>6. IsImmediate(n, low, {})
      BY <1>4, <2>3, <3>4, <3>5 DEF IsImmediate
    <3>. QED  BY <1>0, <2>13, <3>6
  <2>. QED  BY <2>5, <2>8, <2>9
<1>. QED  BY <1>5, <1>6

\* parse_expression, for every constant.
LEMMA ImmediateIsWritten ==
  ASSUME NEW operand, operand.n \in 0 .. 2 ^ 31 - 1
  PROVE  /\ Refused(operand.n) => \A word : parse_expression(word, operand) = EXIT
         /\ ~Refused(operand.n) =>
              \E low, high :
                /\ IsImmediate(operand.n, low, high)
                /\ \A word : parse_expression(word, operand) = word \cup low \cup high
<1>. DEFINE n == operand.n
<1>1. CASE n <= 255
  <2>1. n \in 0 .. 255
    BY <1>1
  <2>2. \A word : parse_expression(word, operand) = set_bits_to(word, n, 0)
    BY <2>1 DEF parse_expression, number
  <2>. HIDE DEF n
  <2>3. /\ ~Refused(n) /\ IsImmediate(n, Bits(n), {})
        /\ \A word : parse_expression(word, operand) = word \cup Bits(n) \cup {}
    BY <2>1, <2>2, SmallImmediate
  <2>. QED  BY <2>3 DEF n
<1>2. CASE n > 255
  <2>1. n \in 256 .. 2 ^ 31 - 1
    BY <1>2
  <2>2. \A word : parse_expression(word, operand) = encode_immediate_op2(word, n)
    BY <1>2 DEF parse_expression, number
  <2>. HIDE DEF n
  <2>3. ASSUME Refused(n), NEW word PROVE parse_expression(word, operand) = EXIT
    <3>1. PICK z \in 0 .. 30, odd \in Nat :
            /\ Min(Bits(n)) = z /\ Zeros(n) = z
            /\ odd = n \div 2 ^ z /\ Significant(n) = odd
            /\ \A i \in Bits(n) : z <= i
            /\ Bits(odd) = {i \in 0 .. 30 : i + z \in Bits(n)}
            /\ 0 \in Bits(odd)
            /\ Bits(odd) = {i \in Positions : i + z \in Bits(n)}
            /\ odd <= 255 => z > 0
            /\ odd <= 255 <=> \A i \in Bits(odd) : i <= 7
      BY <2>1, LargeParts
    <3>2. ~(odd <= 255)
      BY <2>3, <3>1 DEF Refused
    <3>3. \E i \in Bits(odd) : i > 7
      <4>1. PICK i \in Bits(odd) : ~(i <= 7)
        BY <3>1, <3>2
      <4>2. i \in Int
        BY <3>1 DEF Positions
      <4>. QED  BY <4>1, <4>2
    <3>4. \E i \in {j \in Positions : j + Min(Bits(n)) \in Bits(n)} : i > 7
      BY <3>1, <3>3
    <3>. QED  BY <2>2, <3>4 DEF encode_immediate_op2
  <2>4. ASSUME ~Refused(n)
        PROVE  \E low, high : /\ IsImmediate(n, low, high)
                              /\ \A word : parse_expression(word, operand)
                                             = word \cup low \cup high
    <3>1. PICK z, eight, e, rot : IsEight(n, z, eight, e, rot)
      BY <2>1, <2>4, LargeEight
    <3>2. /\ eight \in Nat
          /\ \A word : encode_immediate_op2(word, n)
                         = word \cup (Bits(eight) \cup set_bits_to({}, rot, 8))
      BY <3>1 DEF IsEight
    <3>3. IsWritten(n, Bits(eight) \cup set_bits_to({}, rot, 8))
      <4>1. CASE eight <= 255
        <5>1. /\ IsImmediate(n, Bits(eight) \cup Shifted(rot, 8), {})
              /\ set_bits_to({}, rot, 8) = Shifted(rot, 8)
          BY <2>1, <3>1, <4>1, EightIsRead, Zenon
        <5>. QED  BY <5>1 DEF IsWritten
      <4>2. CASE eight > 255
        BY <2>1, <3>1, <4>2, NinthBitIsLost
      <4>. QED  BY <3>2, <4>1, <4>2
    <3>4. PICK low, high : /\ IsImmediate(n, low, high)
                           /\ Bits(eight) \cup set_bits_to({}, rot, 8) = low \cup high
      BY <3>3 DEF IsWritten
    <3>5. \A word : parse_expression(word, operand) = word \cup low \cup high
      BY <2>2, <3>2, <3>4
    <3>. QED  BY <3>4, <3>5
  <2>. QED  BY <2>3, <2>4 DEF n
<1>. QED  BY <1>1, <1>2

\* An exit is no word.
LEMMA NotExit ==
  ASSUME NEW word \in Words
  PROVE  word # EXIT
BY DEF Words, Positions, EXIT

\* A flag is its place.
LEMMA OneBit ==
  ASSUME NEW at \in 0 .. 31
  PROVE  set_bits_to({}, 1, at) = {at}
BY SmallBits DEF set_bits_to

\* A field goes into a word by itself.
LEMMA SetInto ==
  ASSUME NEW word, NEW n, NEW at \in Nat
  PROVE  set_bits_to(word, n, at) = word \cup set_bits_to({}, n, at)
BY SetBits

(***************************************************************************)
(* A data processing instruction's fields                                  *)
(***************************************************************************)
RdOf(t) == IF t.opcode \in TestOps THEN 0 ELSE t.operands[1].n
RnOf(t) == IF t.opcode \in {"mov", "lsl"} THEN 0
                                          ELSE t.operands[Operand2Index(t.opcode) - 1].n
HasFields(t) ==
  /\ t.opcode \in ThreeOperandOps \cup TestOps \cup {"mov", "lsl"}
  /\ \A j \in 1 .. Operand2Index(t.opcode) - 1 : IsRegister(t.operands[j])

\* The fields of a data processing instruction are the numbers of its text.
LEMMA FieldsOfText ==
  ASSUME NEW t, HasFields(t)
  PROVE  /\ RdOf(t) \in 0 .. 15 /\ RnOf(t) \in 0 .. 15 /\ OpcodeBits[t.opcode] \in 0 .. 15
         /\ DataFields(t) = DataWord(OpcodeBits[t.opcode], t.opcode \in TestOps,
                                     RnOf(t), RdOf(t))
<1>. DEFINE c == OpcodeBits[t.opcode]
            i == Operand2Index(t.opcode)
            test == t.opcode \in TestOps
            short == t.opcode \in {"mov", "lsl"}
            rd == t.operands[1].n
            rn == t.operands[i - 1].n
<1>1. /\ c \in 0 .. 15 /\ i \in {2, 3}
      /\ ~(test /\ short)
  BY DEF HasFields, OpcodeBits, ThreeOperandOps, TestOps, Operand2Index
<1>2. rd \in 0 .. 15 /\ rn \in 0 .. 15
  <2>1. 1 \in 1 .. i - 1 /\ i - 1 \in 1 .. i - 1
    BY <1>1
  <2>. QED  BY <2>1 DEF HasFields, IsRegister
<1>3. DataFields(t)
        = LET opcode == set_bits_to(ALWAYS, c, 21)
              dest == IF test THEN set_bits_to(opcode, 1, 20) ELSE set_bits_to(opcode, rd, 12)
          IN  IF short THEN dest ELSE set_bits_to(dest, rn, 16)
  BY DEF DataFields, number
<1>. HIDE DEF c, i, test, short, rd, rn
<1>4. /\ \A w : set_bits_to(w, c, 21) = w \cup Shifted(c, 21)
      /\ \A w : set_bits_to(w, rd, 12) = w \cup Shifted(rd, 12)
      /\ \A w : set_bits_to(w, rn, 16) = w \cup Shifted(rn, 16)
      /\ \A w : set_bits_to(w, 1, 20) = w \cup {20}
      /\ ALWAYS = Shifted(14, 28)
  <2>1. 21 \in 0 .. 28 /\ 12 \in 0 .. 28 /\ 16 \in 0 .. 28 /\ 28 \in 0 .. 28 /\ 14 \in 0 .. 15
        /\ 20 \in 0 .. 31
    OBVIOUS
  <2>2. /\ set_bits_to({}, c, 21) = Shifted(c, 21) /\ set_bits_to({}, rd, 12) = Shifted(rd, 12)
        /\ set_bits_to({}, rn, 16) = Shifted(rn, 16) /\ set_bits_to({}, 14, 28) = Shifted(14, 28)
        /\ set_bits_to({}, 1, 20) = {20}
    BY <1>1, <1>2, <2>1, FourBitField, OneBit
  <2>3. 21 \in Nat /\ 12 \in Nat /\ 16 \in Nat /\ 20 \in Nat
    OBVIOUS
  <2>. QED  BY <2>2, <2>3, SetInto DEF ALWAYS
<1>5. Shifted(0, 16) = {} /\ Shifted(0, 12) = {}
  BY NineBits DEF Shifted
<1>6. DataFields(t)
        = Shifted(14, 28) \cup Shifted(c, 21) \cup (IF test THEN {20} ELSE {})
            \cup Shifted(IF short THEN 0 ELSE rn, 16) \cup Shifted(IF test THEN 0 ELSE rd, 12)
  <2>1. CASE test
    <3>1. DataFields(t) = ((Shifted(14, 28) \cup Shifted(c, 21)) \cup {20}) \cup Shifted(rn, 16)
      BY <1>1, <1>3, <1>4, <2>1
    <3>. QED  BY <1>1, <1>5, <2>1, <3>1
  <2>2. CASE ~test /\ short
    <3>1. DataFields(t) = (Shifted(14, 28) \cup Shifted(c, 21)) \cup Shifted(rd, 12)
      BY <1>3, <1>4, <2>2
    <3>. QED  BY <1>5, <2>2, <3>1
  <2>3. CASE ~test /\ ~short
    <3>1. DataFields(t)
            = ((Shifted(14, 28) \cup Shifted(c, 21)) \cup Shifted(rd, 12)) \cup Shifted(rn, 16)
      BY <1>3, <1>4, <2>3
    <3>. QED  BY <2>3, <3>1
  <2>. QED  BY <2>1, <2>2, <2>3
<1>7. RdOf(t) = IF test THEN 0 ELSE rd
  BY DEF RdOf, test, rd
<1>8. RnOf(t) = IF short THEN 0 ELSE rn
  BY DEF RnOf, short, rn, i
<1>9. RdOf(t) \in 0 .. 15 /\ RnOf(t) \in 0 .. 15
  BY <1>2, <1>7, <1>8
<1>10. DataFields(t) = DataWord(c, test, RnOf(t), RdOf(t))
  BY <1>6, <1>7, <1>8 DEF DataWord
<1>. QED  BY <1>1, <1>9, <1>10 DEF c, test

(***************************************************************************)
(* Its second operand                                                      *)
(***************************************************************************)
ReadsOperand(t, low, op2) ==
  /\ DataFields(t) \cup low \in Words
  /\ decode(DataFields(t) \cup low)
       = DataMeaning(OpcodeBits[t.opcode], t.opcode \in TestOps, RnOf(t), RdOf(t), op2)

ReadsImmediate(t, n, word) ==
  /\ word \in Words
  /\ decode(word) = DataMeaning(OpcodeBits[t.opcode], t.opcode \in TestOps, RnOf(t), RdOf(t),
                                [kind |-> "immediate", ones |-> Bits(n)])
       <=> ~Spills(n) /\ ~Lookalike(n)

\* A register: the word reads as it was written.
LEMMA RegisterDecodes ==
  ASSUME NEW t, HasFields(t), NEW reg, NEW type \in 0 .. 3, NEW by,
         IsRegister(reg), IsRegister(by) \/ IsNumber(by, 31)
  PROVE  ReadsOperand(t, OperandBits(reg, type, by), ShiftedRegister(reg, type, by))
<1>. DEFINE low == OperandBits(reg, type, by)
            c == OpcodeBits[t.opcode]
            s == t.opcode \in TestOps
            rn == RnOf(t)
            rd == RdOf(t)
            word == DataFields(t) \cup low
<1>1. /\ low \in SUBSET (0 .. 11)
      /\ ~MultiplyMark(low)
      /\ shift_rm_register(low) = ShiftedRegister(reg, type, by)
  BY OperandIsRead
<1>2. /\ rd \in 0 .. 15 /\ rn \in 0 .. 15 /\ c \in 0 .. 15 /\ s \in BOOLEAN
      /\ DataFields(t) = DataWord(c, s, rn, rd)
  BY FieldsOfText
<1>. HIDE DEF low, c, s, rn, rd
<1>3. word = DataWord(c, s, rn, rd) \cup low \cup (IF FALSE THEN {25} ELSE {})
  BY <1>2
<1>4. word \in Words
  <2>1. DataFields(t) \in Words
    BY DataFieldsType
  <2>2. low \subseteq Positions
    <3>1. 0 .. 11 \subseteq 0 .. 31
      OBVIOUS
    <3>. QED  BY <1>1, <3>1 DEF Positions
  <2>. QED  BY <2>1, <2>2, Zenon DEF Words
<1>. HIDE DEF word
<1>5. decode(word)
        = [type |-> "DATA_PROCESS", opcode |-> c, s |-> s, rn |-> rn, rd |-> rd,
           op2 |-> IF FALSE THEN immediate_op2(low) ELSE shift_rm_register(low)]
  <2>. DEFINE imm == FALSE
  <2>1. imm \in BOOLEAN /\ word = DataWord(c, s, rn, rd) \cup low \cup (IF imm THEN {25} ELSE {})
    BY <1>3
  <2>. HIDE DEF imm
  <2>2. ReadsAsData(word, c, s, rn, rd, low, imm)
    BY <1>1, <1>2, <2>1, DataWordDecodes
  <2>. QED  BY <1>1, <2>2 DEF imm, ReadsAsData
<1>6. decode(word) = DataMeaning(c, s, rn, rd, ShiftedRegister(reg, type, by))
  BY <1>1, <1>5 DEF DataMeaning
<1>. QED  BY <1>4, <1>6 DEF ReadsOperand, word, low, c, s, rn, rd

\* An immediate: it does if the immediate is none of the two kinds.
LEMMA ImmediateDecodes ==
  ASSUME NEW t, HasFields(t), NEW n \in 0 .. 2 ^ 31 - 1, NEW low, NEW high,
         IsImmediate(n, low, high)
  PROVE  ReadsImmediate(t, n, (DataFields(t) \cup low \cup high) \cup {25})
<1>. DEFINE c == OpcodeBits[t.opcode]
            s == t.opcode \in TestOps
            rn == RnOf(t)
            rd == RdOf(t)
            word == (DataFields(t) \cup low \cup high) \cup {25}
            meaning == DataMeaning(c, s, rn, rd, [kind |-> "immediate", ones |-> Bits(n)])
<1>1. /\ rd \in 0 .. 15 /\ rn \in 0 .. 15 /\ c \in 0 .. 15 /\ s \in BOOLEAN
      /\ DataFields(t) = DataWord(c, s, rn, rd)
  BY FieldsOfText
<1>2. /\ low \in SUBSET (0 .. 11) /\ high \in {{}, {12}}
      /\ Spills(n) => immediate_op2(low).ones # Bits(n)
      /\ ~Spills(n) => /\ high = {}
                       /\ immediate_op2(low) = [kind |-> "immediate", ones |-> Bits(n)]
                       /\ MultiplyMark(low) <=> Lookalike(n)
  BY DEF IsImmediate
<1>3. word \in Words
  <2>1. DataFields(t) \in Words
    BY DataFieldsType
  <2>2. {25} \subseteq Positions /\ low \subseteq Positions /\ high \subseteq Positions
    BY <1>2 DEF Positions
  <2>. QED  BY <2>1, <2>2 DEF Words
<1>4. meaning.type = "DATA_PROCESS" /\ meaning.op2.ones = Bits(n)
  BY DEF DataMeaning
<1>. HIDE DEF c, s, rn, rd
\* The thirteenth bit falls into the first bit of rd.
<1>5. PICK rd2 \in 0 .. 15 : /\ word = DataWord(c, s, rn, rd2) \cup low \cup {25}
                             /\ high = {} => rd2 = rd
  <2>1. CASE high = {}
    BY <1>1, <2>1
  <2>2. CASE high = {12}
    <3>1. PICK v \in 0 .. 15 : Bits(v) = Bits(rd) \cup {0}
      <4>1. Bits(rd) \subseteq 0 .. 3
        <5>1. 4 \in 0 .. 31 /\ rd \in 0 .. 2 ^ 4 - 1
          BY <1>1
        <5>2. Bits(rd) \subseteq 0 .. 4 - 1
          BY <5>1, BitsBelow
        <5>. QED  BY <5>2
      <4>. DEFINE S == Bits(rd) \cup {0}
      <4>2. S \in SUBSET (0 .. 3)
        BY <4>1
      <4>. HIDE DEF S
      <4>3. \E v \in 0 .. 15 : Bits(v) = S
        BY <4>2, FourBits
      <4>. QED  BY <4>3 DEF S
    <3>2. Shifted(v, 12) = Shifted(rd, 12) \cup {12}
      BY <3>1 DEF Shifted
    <3>3. word = DataWord(c, s, rn, v) \cup low \cup {25}
      BY <1>1, <2>2, <3>2 DEF DataWord
    <3>4. high # {}
      BY <2>2
    <3>. QED  BY <3>3, <3>4
  <2>. QED  BY <1>2, <2>1, <2>2
<1>. HIDE DEF word, meaning
<1>6. word = DataWord(c, s, rn, rd2) \cup low \cup (IF TRUE THEN {25} ELSE {})
  BY <1>5
<1>7. IF MultiplyMark(low)
        THEN decode(word).type = "MULTIPLY"
        ELSE decode(word)
               = [type |-> "DATA_PROCESS", opcode |-> c, s |-> s, rn |-> rn, rd |-> rd2,
                  op2 |-> IF TRUE THEN immediate_op2(low) ELSE shift_rm_register(low)]
  <2>. DEFINE imm == TRUE
  <2>1. imm \in BOOLEAN /\ word = DataWord(c, s, rn, rd2) \cup low \cup (IF imm THEN {25} ELSE {})
    BY <1>6
  <2>. HIDE DEF imm
  <2>2. ReadsAsData(word, c, s, rn, rd2, low, imm)
    BY <1>1, <1>2, <2>1, DataWordDecodes
  <2>. QED  BY <2>2 DEF imm, ReadsAsData
<1>8. CASE MultiplyMark(low)
  <2>1. decode(word) # meaning
    BY <1>4, <1>7, <1>8
  <2>2. ~Spills(n) => Lookalike(n)
    BY <1>2, <1>8
  <2>. QED  BY <1>3, <2>1, <2>2 DEF ReadsImmediate, word, meaning, c, s, rn, rd
<1>9. CASE ~MultiplyMark(low)
  <2>1. decode(word)
               = [type |-> "DATA_PROCESS", opcode |-> c, s |-> s, rn |-> rn, rd |-> rd2,
                  op2 |-> immediate_op2(low)]
    BY <1>7, <1>9
  <2>2. CASE Spills(n)
    <3>1. decode(word) # meaning
      BY <1>2, <1>4, <2>1, <2>2
    <3>. QED  BY <1>3, <2>2, <3>1 DEF ReadsImmediate, word, meaning, c, s, rn, rd
  <2>3. CASE ~Spills(n)
    <3>1. ~Lookalike(n) /\ rd2 = rd
      BY <1>2, <1>5, <1>9, <2>3
    <3>2. decode(word) = meaning
      BY <1>2, <2>1, <2>3, <3>1 DEF meaning, DataMeaning
    <3>. QED  BY <1>3, <2>3, <3>1, <3>2 DEF ReadsImmediate, word, meaning, c, s, rn, rd
  <2>. QED  BY <2>2, <2>3
<1>. QED  BY <1>8, <1>9

\* The largest int32_t.
LEMMA LargestInt == INT_MAX = 2 ^ 31 - 1
<1>. DEFINE p == 2 ^ 30
            q == 2 ^ 31
<1>1. q = p * 2 ^ 1 /\ 2 ^ 1 = 2
  <2>1. 30 \in Nat /\ 1 \in Nat /\ 30 + 1 = 31 /\ 31 <= 32 /\ 2 ^ 1 = 2
    OBVIOUS
  <2>. QED  BY <2>1, PowersAdd
<1>2. p \in Nat
  <2>1. 30 \in 0 .. 32
    OBVIOUS
  <2>. QED  BY <2>1, PowerType
<1>3. INT_MAX = 2 * (p - 1) + 1
  BY DEF INT_MAX
<1>. HIDE DEF p, q
<1>4. 2 * (p - 1) + 1 = q - 1
  BY <1>1, <1>2
<1>. QED  BY <1>3, <1>4 DEF q

\* The operands from the i-th on.
LEMMA RestOf ==
  ASSUME NEW S, NEW o \in Seq(S), NEW i \in 1 .. Len(o)
  PROVE  /\ Len(SubSeq(o, i, Len(o))) = (Len(o) - i) + 1
         /\ \A j \in 1 .. (Len(o) - i) + 1 : SubSeq(o, i, Len(o))[j] = o[(i + j) - 1]
OBVIOUS

(***************************************************************************)
(* The encoders, one by one                                                *)
(***************************************************************************)
\* What a data processing text denotes, whichever kind it is.
LEMMA DataTextMeaning ==
  ASSUME NEW t, NEW S, t.operands \in Seq(S), IsDataText(t)
  PROVE  LET o == t.operands
             i == Operand2Index(t.opcode)
         IN  /\ HasFields(t)
             /\ i \in 1 .. Len(o)
             /\ AssembledWord(t) = assemble_data_processing(t)
             /\ ImmediatesOf(t) = IF IsConstant(o[i]) THEN {o[i].n} ELSE {}
             /\ Meaning(t)
                  = DataMeaning(OpcodeBits[t.opcode], t.opcode \in TestOps, RnOf(t), RdOf(t),
                      IF IsConstant(o[i]) THEN [kind |-> "immediate", ones |-> Bits(o[i].n)]
                      ELSE IF Len(o) = i + 2 THEN ShiftedRegister(o[i], o[i + 1].n, o[i + 2])
                      ELSE ShiftedRegister(o[i], 0, NoShift))
<1>. DEFINE o == t.operands
            i == Operand2Index(t.opcode)
            tail == SubSeq(o, i, Len(o))
<1>1. /\ t.opcode \in ThreeOperandOps \cup TestOps \cup {"mov"}
      /\ \A j \in 1 .. i - 1 : IsRegister(o[j])
      /\ \/ Len(o) = i /\ (IsRegister(o[i]) \/ IsNumber(o[i], INT_MAX))
         \/ Len(o) = i + 2 /\ IsRegister(o[i])
  BY DEF IsDataText, IsShift
<1>2. /\ t.opcode \in ThreeOperandOps => i = 3
      /\ t.opcode \notin ThreeOperandOps => i = 2
      /\ i \in {2, 3}
  BY DEF Operand2Index
<1>3. Len(o) \in Nat /\ i \in 1 .. Len(o) /\ i \in DOMAIN o
  BY <1>1, <1>2
<1>4. /\ tail[1] = o[i]
      /\ Len(tail) = (Len(o) - i) + 1
      /\ Len(o) = i + 2 => tail[2] = o[i + 1] /\ tail[3] = o[i + 2]
  <2>1. /\ Len(tail) = (Len(o) - i) + 1
        /\ \A j \in 1 .. (Len(o) - i) + 1 : tail[j] = o[(i + j) - 1]
    <3>1. o \in Seq(S)
      OBVIOUS
    <3>. HIDE DEF o, i
    <3>2. /\ Len(SubSeq(o, i, Len(o))) = (Len(o) - i) + 1
          /\ \A j \in 1 .. (Len(o) - i) + 1 : SubSeq(o, i, Len(o))[j] = o[(i + j) - 1]
      BY <1>3, <3>1, RestOf
    <3>. QED  BY <3>2
  <2>2. 1 \in 1 .. (Len(o) - i) + 1 /\ (i + 1) - 1 = i
    BY <1>3
  <2>3. Len(o) = i + 2 => /\ 2 \in 1 .. (Len(o) - i) + 1 /\ 3 \in 1 .. (Len(o) - i) + 1
                          /\ (i + 2) - 1 = i + 1 /\ (i + 3) - 1 = i + 2
    <3>1. i \in Nat
      BY <1>2
    <3>. HIDE DEF o, i
    <3>. QED  BY <3>1
  <2>. HIDE DEF tail, o, i
  <2>4. tail[1] = o[i]
    BY <2>1, <2>2
  <2>5. ASSUME Len(o) = i + 2 PROVE tail[2] = o[i + 1] /\ tail[3] = o[i + 2]
    BY <2>1, <2>3, <2>5
  <2>. QED  BY <2>1, <2>4, <2>5
<1>5. HasFields(t)
  BY <1>1 DEF HasFields
<1>6. AssembledWord(t) = assemble_data_processing(t)
  <2>1. t.opcode \in DataOps
    BY <1>1 DEF DataOps, OpcodeBits, ThreeOperandOps, TestOps
  <2>2. t.opcode \notin MultiplyOps /\ t.opcode \notin TransferOps /\ t.opcode \notin SpecialOps
    BY <1>1 DEF ThreeOperandOps, TestOps, MultiplyOps, TransferOps, SpecialOps
  <2>. QED  BY <2>1, <2>2 DEF AssembledWord
<1>7. ImmediatesOf(t) = IF IsConstant(o[i]) THEN {o[i].n} ELSE {}
  <2>1. t.opcode \in DataOps \ {"lsl"}
    BY <1>1 DEF DataOps, OpcodeBits, ThreeOperandOps, TestOps
  <2>. QED  BY <1>3, <2>1 DEF ImmediatesOf
<1>8. OperandMeaning(tail)
        = IF IsConstant(o[i]) THEN [kind |-> "immediate", ones |-> Bits(o[i].n)]
          ELSE IF Len(o) = i + 2 THEN ShiftedRegister(o[i], o[i + 1].n, o[i + 2])
          ELSE ShiftedRegister(o[i], 0, NoShift)
  <2>1. Len(tail) = 3 <=> Len(o) = i + 2
    BY <1>2, <1>3, <1>4
  <2>. HIDE DEF tail, o, i
  <2>. QED  BY <1>4, <2>1 DEF OperandMeaning, NoShift
<1>9. Meaning(t)
        = DataMeaning(OpcodeBits[t.opcode], t.opcode \in TestOps, RnOf(t), RdOf(t),
                      OperandMeaning(tail))
  <2>1. CASE t.opcode \in ThreeOperandOps
    <3>1. /\ t.opcode \notin TestOps /\ t.opcode \notin {"mov", "lsl"} /\ t.opcode # "mov"
          /\ t.opcode # "lsl"
      BY <2>1 DEF ThreeOperandOps, TestOps
    <3>2. RnOf(t) = o[2].n /\ RdOf(t) = o[1].n /\ tail = SubSeq(o, 3, Len(o))
      BY <1>2, <2>1, <3>1 DEF RnOf, RdOf
    <3>3. t.opcode \notin MultiplyOps /\ t.opcode \notin TransferOps /\ t.opcode \notin SpecialOps
      BY <2>1 DEF ThreeOperandOps, MultiplyOps, TransferOps, SpecialOps
    <3>4. Meaning(t) = DataMeaning(OpcodeBits[t.opcode], FALSE, o[2].n, o[1].n,
                                   OperandMeaning(SubSeq(o, 3, Len(o))))
      BY <2>1, <3>1, <3>3 DEF Meaning
    <3>5. (t.opcode \in TestOps) = FALSE
      BY <3>1
    <3>. QED  BY <3>2, <3>4, <3>5
  <2>2. CASE t.opcode \in TestOps
    <3>1. /\ t.opcode \notin ThreeOperandOps /\ t.opcode # "mov" /\ t.opcode # "lsl"
          /\ t.opcode \notin {"mov", "lsl"}
      BY <2>2 DEF ThreeOperandOps, TestOps
    <3>2. RnOf(t) = o[1].n /\ RdOf(t) = 0 /\ tail = SubSeq(o, 2, Len(o))
      BY <1>2, <2>2, <3>1 DEF RnOf, RdOf
    <3>3. t.opcode \notin MultiplyOps /\ t.opcode \notin TransferOps /\ t.opcode \notin SpecialOps
      BY <2>2 DEF TestOps, MultiplyOps, TransferOps, SpecialOps
    <3>4. Meaning(t) = DataMeaning(OpcodeBits[t.opcode], TRUE, o[1].n, 0,
                                   OperandMeaning(SubSeq(o, 2, Len(o))))
      BY <2>2, <3>1, <3>3 DEF Meaning
    <3>5. (t.opcode \in TestOps) = TRUE
      BY <2>2
    <3>. QED  BY <3>2, <3>4, <3>5
  <2>3. CASE t.opcode = "mov"
    <3>1. t.opcode \notin ThreeOperandOps /\ t.opcode \notin TestOps /\ t.opcode # "lsl"
      BY <2>3 DEF ThreeOperandOps, TestOps
    <3>2. RnOf(t) = 0 /\ RdOf(t) = o[1].n /\ tail = SubSeq(o, 2, Len(o))
      BY <1>2, <2>3, <3>1 DEF RnOf, RdOf
    <3>3. t.opcode \notin MultiplyOps /\ t.opcode \notin TransferOps /\ t.opcode \notin SpecialOps
      BY <2>3 DEF MultiplyOps, TransferOps, SpecialOps
    <3>4. Meaning(t) = DataMeaning(13, FALSE, 0, o[1].n, OperandMeaning(SubSeq(o, 2, Len(o))))
      BY <2>3, <3>1, <3>3 DEF Meaning
    <3>5. (t.opcode \in TestOps) = FALSE /\ OpcodeBits[t.opcode] = 13
      BY <2>3, <3>1 DEF OpcodeBits
    <3>. QED  BY <3>2, <3>4, <3>5
  <2>. QED  BY <1>1, <2>1, <2>2, <2>3
<1>. HIDE DEF tail
<1>10. Meaning(t)
         = DataMeaning(OpcodeBits[t.opcode], t.opcode \in TestOps, RnOf(t), RdOf(t),
             IF IsConstant(o[i]) THEN [kind |-> "immediate", ones |-> Bits(o[i].n)]
             ELSE IF Len(o) = i + 2 THEN ShiftedRegister(o[i], o[i + 1].n, o[i + 2])
             ELSE ShiftedRegister(o[i], 0, NoShift))
  <2>. HIDE DEF o, i
  <2>. QED  BY <1>8, <1>9
<1>. QED  BY <1>3, <1>5, <1>6, <1>7, <1>10

\* Arithmetic, logic, comparisons and mov decode as they are written.
LEMMA DataTextDecodes ==
  ASSUME NEW t, NEW S, t.operands \in Seq(S), IsDataText(t)
  PROVE  DecodesAsWritten(t)
<1>. DEFINE o == t.operands
            i == Operand2Index(t.opcode)
            c == OpcodeBits[t.opcode]
            s == t.opcode \in TestOps
            word == assemble_data_processing(t)
<1>1. /\ HasFields(t)
      /\ i \in 1 .. Len(o)
      /\ AssembledWord(t) = word
      /\ ImmediatesOf(t) = IF IsConstant(o[i]) THEN {o[i].n} ELSE {}
      /\ Meaning(t)
           = DataMeaning(c, s, RnOf(t), RdOf(t),
               IF IsConstant(o[i]) THEN [kind |-> "immediate", ones |-> Bits(o[i].n)]
               ELSE IF Len(o) = i + 2 THEN ShiftedRegister(o[i], o[i + 1].n, o[i + 2])
               ELSE ShiftedRegister(o[i], 0, NoShift))
  BY DataTextMeaning
<1>2. /\ \/ Len(o) = i /\ (IsRegister(o[i]) \/ IsNumber(o[i], INT_MAX))
         \/ Len(o) = i + 2 /\ t.opcode # "mov" /\ IsShift(o[i], o[i + 1], o[i + 2])
      /\ t.opcode \in ThreeOperandOps \cup TestOps \cup {"mov"}
      /\ i \in {2, 3}
  BY DEF IsDataText, Operand2Index
<1>3. Len(o) \in Nat /\ ~(Len(o) < RequiredOperands(t.opcode))
      /\ t.opcode # "lsl" /\ t.opcode # "andeq"
  <2>1. RequiredOperands(t.opcode) <= i /\ RequiredOperands(t.opcode) \in Int
    BY <1>2 DEF RequiredOperands, Operand2Index
  <2>2. t.opcode # "lsl" /\ t.opcode # "andeq"
    BY <1>2 DEF ThreeOperandOps, TestOps
  <2>. QED  BY <1>1, <1>2, <2>1, <2>2
<1>4. IsConstant(o[i]) =>
        word = LET w == parse_expression(DataFields(t), o[i])
               IN  IF w = EXIT THEN EXIT ELSE set_bits_to(w, 1, 25)
  BY <1>3 DEF assemble_data_processing
<1>5. ~IsConstant(o[i]) =>
        word = IF HasShift(t)
                 THEN encode_shifted_reg(DataFields(t), o[i], o[i + 1], o[i + 2])
                 ELSE set_bits_to(DataFields(t), o[i].n, 0)
  BY <1>3 DEF assemble_data_processing, number
<1>6. HasShift(t) <=> Len(o) = i + 2
  <2>1. HasShift(t) <=> t.opcode \in ThreeOperandOps \cup TestOps /\ Len(o) > i
    BY DEF HasShift
  <2>2. t.opcode # "mov" => t.opcode \in ThreeOperandOps \cup TestOps
    BY <1>2
  <2>. HIDE DEF i, o
  <2>. QED  BY <1>2, <1>3, <2>1, <2>2
<1>. HIDE DEF word, c, s, i, o
<1>7. ASSUME IsConstant(o[i]) PROVE DecodesAsWritten(t)
  <2>. DEFINE n == o[i].n
              base == DataFields(t)
              w == parse_expression(base, o[i])
  <2>1. n \in 0 .. 2 ^ 31 - 1
    <3>1. IsNumber(o[i], INT_MAX)
      BY <1>2, <1>7 DEF IsRegister, IsShift, IsConstant
    <3>2. INT_MAX = 2 ^ 31 - 1
      BY LargestInt
    <3>. QED  BY <3>1, <3>2 DEF IsNumber
  <2>2. ImmediatesOf(t) = {n}
    BY <1>1, <1>7
  <2>3. /\ Refused(n) => w = EXIT
        /\ ~Refused(n) => \E low, high : IsImmediate(n, low, high)
                                          /\ w = base \cup low \cup high
    BY <2>1, ImmediateIsWritten
  <2>4. word = IF w = EXIT THEN EXIT ELSE set_bits_to(w, 1, 25)
    BY <1>4, <1>7
  <2>5. Meaning(t) = DataMeaning(c, s, RnOf(t), RdOf(t),
                                 [kind |-> "immediate", ones |-> Bits(n)])
    BY <1>1, <1>7
  <2>. HIDE DEF n, w
  <2>6. CASE Refused(n)
    <3>1. word = EXIT
      BY <2>3, <2>4, <2>6
    <3>. QED  BY <1>1, <2>2, <2>6, <3>1 DEF DecodesAsWritten
  <2>7. CASE ~Refused(n)
    <3>1. PICK low, high : IsImmediate(n, low, high) /\ w = base \cup low \cup high
      BY <2>3, <2>7
    <3>. DEFINE full == (base \cup low \cup high) \cup {25}
                meant == DataMeaning(c, s, RnOf(t), RdOf(t),
                                     [kind |-> "immediate", ones |-> Bits(n)])
    <3>2. full \in Words /\ (decode(full) = meant <=> ~Spills(n) /\ ~Lookalike(n))
      <4>1. ReadsImmediate(t, n, full)
        BY <1>1, <2>1, <3>1, ImmediateDecodes
      <4>. QED  BY <4>1 DEF ReadsImmediate, c, s
    <3>3. w # EXIT
      <4>1. w \in Words
        BY <3>1, <3>2 DEF Words
      <4>. QED  BY <4>1, NotExit
    <3>4. set_bits_to(w, 1, 25) = full
      <4>1. 25 \in Nat /\ 25 \in 0 .. 31
        OBVIOUS
      <4>2. set_bits_to(w, 1, 25) = w \cup {25}
        BY <4>1, SetInto, OneBit
      <4>. QED  BY <3>1, <4>2
    <3>. HIDE DEF full, meant
    <3>5. word = full /\ word # EXIT
      <4>1. word = full
        BY <2>4, <3>3, <3>4
      <4>. QED  BY <3>2, <4>1, NotExit
    <3>6. Meaning(t) = meant
      BY <2>5 DEF meant
    <3>. QED  BY <1>1, <2>2, <2>7, <3>2, <3>5, <3>6 DEF DecodesAsWritten
  <2>. QED  BY <2>6, <2>7
<1>8. ASSUME ~IsConstant(o[i]) PROVE DecodesAsWritten(t)
  <2>1. ImmediatesOf(t) = {}
    BY <1>1, <1>8
  <2>2. IsRegister(o[i])
    BY <1>2, <1>8 DEF IsNumber, IsShift
  <2>3. ASSUME NEW type \in 0 .. 3, NEW by, IsRegister(by) \/ IsNumber(by, 31),
               word = DataFields(t) \cup OperandBits(o[i], type, by),
               Meaning(t) = DataMeaning(c, s, RnOf(t), RdOf(t), ShiftedRegister(o[i], type, by))
        PROVE  DecodesAsWritten(t)
    <3>. DEFINE low == OperandBits(o[i], type, by)
                op2 == ShiftedRegister(o[i], type, by)
    <3>1. word \in Words /\ decode(word) = Meaning(t)
      <4>1. ReadsOperand(t, low, op2)
        BY <1>1, <2>2, <2>3, RegisterDecodes
      <4>2. word = DataFields(t) \cup low /\ Meaning(t) = DataMeaning(c, s, RnOf(t), RdOf(t), op2)
        BY <2>3
      <4>. HIDE DEF low, op2
      <4>. QED  BY <4>1, <4>2 DEF ReadsOperand, c, s
    <3>2. word # EXIT
      BY <3>1, NotExit
    <3>. QED  BY <1>1, <2>1, <3>1, <3>2 DEF DecodesAsWritten
  <2>4. CASE Len(o) = i + 2
    <3>1. IsShift(o[i], o[i + 1], o[i + 2])
      BY <1>1, <1>2, <2>4
    <3>2. /\ o[i + 1].n \in 0 .. 3 /\ (IsRegister(o[i + 2]) \/ IsNumber(o[i + 2], 31))
          /\ word = encode_shifted_reg(DataFields(t), o[i], o[i + 1], o[i + 2])
      BY <1>5, <1>6, <1>8, <2>4, <3>1 DEF IsShift
    <3>3. word = DataFields(t) \cup OperandBits(o[i], o[i + 1].n, o[i + 2])
      BY <2>2, <3>2, OperandIsWritten
    <3>4. Meaning(t) = DataMeaning(c, s, RnOf(t), RdOf(t),
                                   ShiftedRegister(o[i], o[i + 1].n, o[i + 2]))
      BY <1>1, <1>8, <2>4
    <3>. QED  BY <2>3, <3>2, <3>3, <3>4
  <2>5. CASE Len(o) # i + 2
    <3>1. word = DataFields(t) \cup OperandBits(o[i], 0, NoShift) /\ IsNumber(NoShift, 31)
      BY <1>5, <1>6, <1>8, <2>2, <2>5, PlainIsWritten
    <3>2. Meaning(t) = DataMeaning(c, s, RnOf(t), RdOf(t), ShiftedRegister(o[i], 0, NoShift))
      BY <1>1, <1>8, <2>5
    <3>3. 0 \in 0 .. 3
      OBVIOUS
    <3>. QED  BY <2>3, <3>1, <3>2, <3>3
  <2>. QED  BY <2>4, <2>5
<1>. QED  BY <1>7, <1>8

\* Only the word matters where no immediate is held.
LEMMA DecodesPlainly ==
  ASSUME NEW t, ImmediatesOf(t) = {}, NEW word \in Words, AssembledWord(t) = word,
         decode(word) = Meaning(t)
  PROVE  DecodesAsWritten(t)
<1>1. word # EXIT
  BY NotExit
<1>. QED  BY <1>1 DEF DecodesAsWritten

\* So does lsl, whose operand is the register it writes.
LEMMA LslTextDecodes ==
  ASSUME NEW t, IsLslText(t)
  PROVE  DecodesAsWritten(t)
<1>. DEFINE o == t.operands
            shift == [kind |-> "shift", n |-> 0]
            word == DataFields(t) \cup OperandBits(o[1], 0, o[2])
<1>1. /\ t.opcode = "lsl" /\ Len(o) = 2
      /\ IsRegister(o[1]) /\ IsNumber(o[2], 31) /\ IsConstant(o[2])
  BY DEF IsLslText, IsNumber
<1>2. /\ t.opcode \in DataOps /\ t.opcode \notin MultiplyOps
      /\ t.opcode \notin TransferOps /\ t.opcode \notin SpecialOps
      /\ t.opcode \notin ThreeOperandOps /\ t.opcode \notin TestOps
      /\ t.opcode \in {"mov", "lsl"} /\ t.opcode # "mov" /\ t.opcode # "andeq"
      /\ OpcodeBits[t.opcode] = 13
  BY <1>1 DEF DataOps, OpcodeBits, MultiplyOps, TransferOps, SpecialOps, ThreeOperandOps, TestOps
<1>3. Operand2Index(t.opcode) = 2 /\ RequiredOperands(t.opcode) = 2
  BY <1>2 DEF Operand2Index, RequiredOperands
<1>4. ImmediatesOf(t) = {}
  BY <1>1 DEF ImmediatesOf
<1>5. AssembledWord(t) = assemble_data_processing(t)
  BY <1>2 DEF AssembledWord
<1>6. assemble_data_processing(t) = encode_shifted_reg(DataFields(t), o[1], shift, o[2])
  BY <1>1, <1>2, <1>3 DEF assemble_data_processing
<1>7. shift.n = 0 /\ 0 \in 0 .. 3
  OBVIOUS
<1>. HIDE DEF shift, o
<1>8. encode_shifted_reg(DataFields(t), o[1], shift, o[2]) = word
  BY <1>1, <1>7, OperandIsWritten
<1>9. HasFields(t)
  <2>1. \A j \in 1 .. Operand2Index(t.opcode) - 1 : j = 1
    BY <1>3
  <2>. QED  BY <1>1, <1>2, <2>1 DEF HasFields, o
<1>10. /\ word \in Words
       /\ decode(word) = DataMeaning(OpcodeBits[t.opcode], t.opcode \in TestOps,
                                     RnOf(t), RdOf(t), ShiftedRegister(o[1], 0, o[2]))
  BY <1>1, <1>7, <1>9, RegisterDecodes DEF ReadsOperand
<1>11. Meaning(t) = DataMeaning(13, FALSE, 0, o[1].n, ShiftedRegister(o[1], 0, o[2]))
  BY <1>1, <1>2 DEF Meaning, o
<1>12. RnOf(t) = 0 /\ RdOf(t) = o[1].n /\ (t.opcode \in TestOps) = FALSE
  BY <1>2 DEF RnOf, RdOf, o
<1>. HIDE DEF word
<1>13. decode(word) = Meaning(t)
  BY <1>2, <1>10, <1>11, <1>12
<1>. QED  BY <1>4, <1>5, <1>6, <1>8, <1>10, <1>13, DecodesPlainly

\* The word of a multiply.
MultiplyWord(a, rd, rn, rs, rm) ==
  Shifted(14, 28) \cup Shifted(rd, 16) \cup Shifted(rn, 12) \cup Shifted(rs, 8)
    \cup Shifted(9, 4) \cup Shifted(rm, 0) \cup (IF a THEN {21} ELSE {})

ReadsAsMultiply(word, a, rd, rn, rs, rm) ==
  /\ word \in Words
  /\ decode(word) = [type |-> "MULTIPLY", a |-> a, s |-> FALSE,
                     rd |-> rd, rn |-> rn, rs |-> rs, rm |-> rm]

\* The decoder takes a multiply apart as it was put together.
LEMMA MultiplyWordDecodes ==
  ASSUME NEW a \in BOOLEAN, NEW rd \in 0 .. 15, NEW rn \in 0 .. 15, NEW rs \in 0 .. 15,
         NEW rm \in 0 .. 15, NEW word, word = MultiplyWord(a, rd, rn, rs, rm)
  PROVE  ReadsAsMultiply(word, a, rd, rn, rs, rm)
<1>1. /\ Shifted(14, 28) \subseteq 28 .. 31 /\ Shifted(rd, 16) \subseteq 16 .. 19
      /\ Shifted(rn, 12) \subseteq 12 .. 15 /\ Shifted(rs, 8) \subseteq 8 .. 11
      /\ Shifted(rm, 0) \subseteq 0 .. 3
  <2>1. 14 \in 0 .. 15 /\ 28 \in 0 .. 28 /\ 16 \in 0 .. 28 /\ 12 \in 0 .. 28 /\ 8 \in 0 .. 28
        /\ 0 \in 0 .. 28
    OBVIOUS
  <2>2. /\ Shifted(14, 28) \subseteq 28 .. 28 + 3 /\ Shifted(rd, 16) \subseteq 16 .. 16 + 3
        /\ Shifted(rn, 12) \subseteq 12 .. 12 + 3 /\ Shifted(rs, 8) \subseteq 8 .. 8 + 3
        /\ Shifted(rm, 0) \subseteq 0 .. 0 + 3
    BY <2>1, FourBitField
  <2>3. 28 + 3 = 31 /\ 16 + 3 = 19 /\ 12 + 3 = 15 /\ 8 + 3 = 11 /\ 0 + 3 = 3
    OBVIOUS
  <2>. QED  BY <2>2, <2>3
<1>2. Shifted(9, 4) = {4, 7}
  BY NineBits DEF Shifted
<1>3. /\ word \cap (0 .. 3) = Shifted(rm, 0)
      /\ word \cap (4 .. 7) = {4, 7}
      /\ word \cap (8 .. 11) = Shifted(rs, 8)
      /\ word \cap (12 .. 15) = Shifted(rn, 12)
      /\ word \cap (16 .. 19) = Shifted(rd, 16)
      /\ word \cap (26 .. 27) = {}
      /\ 20 \notin word
      /\ 21 \in word <=> a
      /\ word \in Words
  <2>. DEFINE fields == Shifted(14, 28) \cup Shifted(rd, 16) \cup Shifted(rn, 12)
                          \cup Shifted(rs, 8) \cup Shifted(rm, 0)
              flag == IF a THEN {21} ELSE {}
              marks == {4, 7} \cup flag
  <2>1. word = fields \cup marks
    BY <1>2 DEF MultiplyWord
  <2>2. /\ fields \cap (0 .. 3) = Shifted(rm, 0)
        /\ fields \cap (4 .. 7) = {}
        /\ fields \cap (8 .. 11) = Shifted(rs, 8)
        /\ fields \cap (12 .. 15) = Shifted(rn, 12)
        /\ fields \cap (16 .. 19) = Shifted(rd, 16)
        /\ fields \cap {20, 21, 26, 27} = {}
        /\ fields \subseteq 0 .. 31
    BY <1>1
  <2>3. /\ marks \subseteq {4, 7, 21} /\ 4 \in marks /\ 7 \in marks
        /\ 21 \in marks <=> a
    OBVIOUS
  <2>. HIDE DEF fields, marks
  <2>4. /\ marks \cap (0 .. 3) = {} /\ marks \cap (8 .. 11) = {} /\ marks \cap (12 .. 15) = {}
        /\ marks \cap (16 .. 19) = {} /\ marks \cap (26 .. 27) = {}
        /\ marks \cap (4 .. 7) = {4, 7} /\ 20 \notin marks /\ marks \subseteq 0 .. 31
    BY <2>3
  <2>5. fields \cap (26 .. 27) = {} /\ 20 \notin fields /\ 21 \notin fields
    BY <2>2
  <2>6. word \in Words
    BY <2>1, <2>2, <2>4 DEF Words, Positions
  <2>7. 20 \notin word /\ (21 \in word <=> a)
    BY <2>1, <2>3, <2>4, <2>5
  <2>. QED  BY <2>1, <2>2, <2>4, <2>5, <2>6, <2>7
<1>4. /\ create_mask(0, 3, word) = rm /\ create_mask(8, 11, word) = rs
      /\ create_mask(12, 15, word) = rn /\ create_mask(16, 19, word) = rd
  <2>1. 0 + 3 = 3 /\ 8 + 3 = 11 /\ 12 + 3 = 15 /\ 16 + 3 = 19
        /\ 0 \in 0 .. 28 /\ 8 \in 0 .. 28 /\ 12 \in 0 .. 28 /\ 16 \in 0 .. 28
    OBVIOUS
  <2>2. /\ create_mask(0, 0 + 3, word) = rm /\ create_mask(8, 8 + 3, word) = rs
        /\ create_mask(12, 12 + 3, word) = rn /\ create_mask(16, 16 + 3, word) = rd
    BY <1>3, <2>1, FourBitValue
  <2>. QED  BY <2>1, <2>2
<1>5. get_instr_type(word) = "MULTIPLY"
  <2>1. create_mask(26, 27, word) = 0
    <3>1. Fits(0, 2) /\ Shifted(0, 26) = {} /\ 2 \in 0 .. 31
      BY NineBits DEF Fits, Shifted
    <3>. QED  BY <1>3, <3>1, FieldValue
  <2>2. create_mask(4, 7, word) = 9
    BY <1>3, MarkIsNine DEF MultiplyMark
  <2>. QED  BY <2>1, <2>2 DEF get_instr_type
<1>6. extract_bit(20, word) = FALSE /\ extract_bit(21, word) = a
  BY <1>3 DEF extract_bit
<1>7. decode(word) = [type |-> "MULTIPLY", a |-> a, s |-> FALSE,
                      rd |-> rd, rn |-> rn, rs |-> rs, rm |-> rm]
  BY <1>4, <1>5, <1>6 DEF decode
<1>. QED  BY <1>3, <1>7 DEF ReadsAsMultiply

\* mul and mla decode as they are written.
LEMMA MultiplyTextDecodes ==
  ASSUME NEW t, IsMultiplyText(t)
  PROVE  DecodesAsWritten(t)
<1>. DEFINE o == t.operands
            a == t.opcode = "mla"
            rn == IF a THEN o[4].n ELSE 0
            word == MultiplyWord(a, o[1].n, rn, o[3].n, o[2].n)
<1>1. /\ t.opcode \in {"mul", "mla"}
      /\ Len(o) = IF a THEN 4 ELSE 3
      /\ \A j \in 1 .. Len(o) : o[j].n \in 0 .. 15
  BY DEF IsMultiplyText, IsRegister
<1>2. /\ o[1].n \in 0 .. 15 /\ o[2].n \in 0 .. 15 /\ o[3].n \in 0 .. 15 /\ rn \in 0 .. 15
      /\ a \in BOOLEAN
  <2>1. {1, 2, 3} \subseteq 1 .. Len(o) /\ (a => 4 \in 1 .. Len(o))
    BY <1>1
  <2>. QED  BY <1>1, <2>1
<1>3. /\ t.opcode \notin DataOps /\ t.opcode \in MultiplyOps
      /\ t.opcode \notin TransferOps /\ t.opcode \notin SpecialOps
      /\ t.opcode \notin ThreeOperandOps /\ t.opcode \notin TestOps
      /\ t.opcode # "mov" /\ t.opcode # "lsl"
  BY <1>1 DEF DataOps, OpcodeBits, MultiplyOps, TransferOps, SpecialOps, ThreeOperandOps, TestOps
<1>4. ImmediatesOf(t) = {}
  BY <1>3 DEF ImmediatesOf
<1>5. AssembledWord(t) = assemble_multiply(t)
  BY <1>3 DEF AssembledWord
<1>6. Meaning(t) = [type |-> "MULTIPLY", a |-> a, s |-> FALSE, rd |-> o[1].n, rm |-> o[2].n,
                    rs |-> o[3].n, rn |-> rn]
  BY <1>3 DEF Meaning
<1>7. assemble_multiply(t) = word
  <2>. DEFINE r1 == o[1].n  r2 == o[2].n  r3 == o[3].n  r4 == o[4].n
              mul == ALWAYS \cup set_bits_to({}, r1, 16) \cup set_bits_to({}, r2, 0)
                       \cup set_bits_to({}, r3, 8) \cup set_bits_to({}, 9, 4)
  <2>1. assemble_multiply(t)
          = IF Len(o) = 4
              THEN mul \cup set_bits_to({}, r4, 12) \cup set_bits_to({}, 1, 21)
              ELSE mul
    BY DEF assemble_multiply, number
  <2>2. /\ r1 \in 0 .. 15 /\ r2 \in 0 .. 15 /\ r3 \in 0 .. 15 /\ rn \in 0 .. 15
        /\ a => r4 = rn
        /\ ~a => rn = 0
    BY <1>2
  <2>3. word = MultiplyWord(a, r1, rn, r3, r2)
    OBVIOUS
  <2>4. Len(o) = 4 <=> a
    BY <1>1
  <2>. HIDE DEF r1, r2, r3, r4, rn, a, word, o
  <2>5. /\ set_bits_to({}, r1, 16) = Shifted(r1, 16) /\ set_bits_to({}, r2, 0) = Shifted(r2, 0)
        /\ set_bits_to({}, r3, 8) = Shifted(r3, 8) /\ set_bits_to({}, 9, 4) = Shifted(9, 4)
        /\ set_bits_to({}, rn, 12) = Shifted(rn, 12) /\ ALWAYS = Shifted(14, 28)
        /\ set_bits_to({}, 1, 21) = {21}
    <3>1. 16 \in 0 .. 28 /\ 0 \in 0 .. 28 /\ 8 \in 0 .. 28 /\ 4 \in 0 .. 28 /\ 12 \in 0 .. 28
          /\ 28 \in 0 .. 28 /\ 9 \in 0 .. 15 /\ 14 \in 0 .. 15 /\ 21 \in 0 .. 31
      OBVIOUS
    <3>. QED  BY <2>2, <3>1, FourBitField, OneBit DEF ALWAYS
  <2>6. CASE a
    <3>1. assemble_multiply(t) = mul \cup Shifted(rn, 12) \cup {21}
      BY <2>1, <2>2, <2>4, <2>5, <2>6
    <3>. QED  BY <2>3, <2>5, <2>6, <3>1 DEF MultiplyWord
  <2>7. CASE ~a
    <3>1. assemble_multiply(t) = mul /\ Shifted(rn, 12) = {}
      BY <2>1, <2>2, <2>4, <2>7, NineBits DEF Shifted
    <3>. QED  BY <2>3, <2>5, <2>7, <3>1 DEF MultiplyWord
  <2>. QED  BY <2>6, <2>7
<1>. HIDE DEF o, a, rn
<1>8. /\ word \in Words
      /\ decode(word) = [type |-> "MULTIPLY", a |-> a, s |-> FALSE,
                         rd |-> o[1].n, rn |-> rn, rs |-> o[3].n, rm |-> o[2].n]
  <2>. DEFINE w == word
              rd == o[1].n
              rs == o[3].n
              rm == o[2].n
  <2>1. w = MultiplyWord(a, rd, rn, rs, rm)
    OBVIOUS
  <2>2. rd \in 0 .. 15 /\ rs \in 0 .. 15 /\ rm \in 0 .. 15
    BY <1>2
  <2>. HIDE DEF w, word, rd, rs, rm
  <2>3. ReadsAsMultiply(w, a, rd, rn, rs, rm)
    BY <1>2, <2>1, <2>2, MultiplyWordDecodes
  <2>. QED  BY <2>3 DEF w, rd, rs, rm, ReadsAsMultiply
<1>. HIDE DEF word
<1>9. decode(word) = Meaning(t)
  BY <1>6, <1>8
<1>. QED  BY <1>4, <1>5, <1>7, <1>8, <1>9, DecodesPlainly

(***************************************************************************)
(* Single data transfer                                                    *)
(***************************************************************************)
TransferWord(p, l, u, reg, rn, rd, low) ==
  Shifted(14, 28) \cup {26} \cup Shifted(rn, 16) \cup Shifted(rd, 12) \cup low
    \cup (IF p THEN {24} ELSE {}) \cup (IF l THEN {20} ELSE {})
    \cup (IF u THEN {23} ELSE {}) \cup (IF reg THEN {25} ELSE {})

ReadsAsTransfer(word, p, l, u, reg, rn, rd, low) ==
  /\ word \in Words
  /\ decode(word) = [type |-> "TRANSFER", p |-> p, u |-> u, l |-> l, rn |-> rn, rd |-> rd,
                     offset |-> IF reg THEN shift_rm_register(low)
                                       ELSE [kind |-> "immediate", ones |-> low]]

\* The mark of a transfer.
LEMMA TransferMark == Shifted(1, 26) = {26}
BY SmallBits DEF Shifted

\* No transfer is mistaken for another instruction, whatever its offset's bits.
LEMMA TransferWordDecodes ==
  ASSUME NEW p \in BOOLEAN, NEW l \in BOOLEAN, NEW u \in BOOLEAN, NEW reg \in BOOLEAN,
         NEW rn \in 0 .. 15, NEW rd \in 0 .. 15, NEW low \in SUBSET (0 .. 11), NEW word,
         word = TransferWord(p, l, u, reg, rn, rd, low)
  PROVE  ReadsAsTransfer(word, p, l, u, reg, rn, rd, low)
<1>1. /\ Shifted(14, 28) \subseteq 28 .. 31
      /\ Shifted(rn, 16) \subseteq 16 .. 19 /\ Shifted(rd, 12) \subseteq 12 .. 15
  <2>1. 14 \in 0 .. 15 /\ 28 \in 0 .. 28 /\ 16 \in 0 .. 28 /\ 12 \in 0 .. 28
    OBVIOUS
  <2>2. /\ Shifted(14, 28) \subseteq 28 .. 28 + 3 /\ Shifted(rn, 16) \subseteq 16 .. 16 + 3
        /\ Shifted(rd, 12) \subseteq 12 .. 12 + 3
    BY <2>1, FourBitField
  <2>3. 28 + 3 = 31 /\ 16 + 3 = 19 /\ 12 + 3 = 15
    OBVIOUS
  <2>. QED  BY <2>2, <2>3
<1>2. /\ word \cap (0 .. 11) = low
      /\ word \cap (12 .. 15) = Shifted(rd, 12)
      /\ word \cap (16 .. 19) = Shifted(rn, 16)
      /\ word \cap (26 .. 27) = {26}
      /\ 20 \in word <=> l
      /\ 23 \in word <=> u
      /\ 24 \in word <=> p
      /\ 25 \in word <=> reg
      /\ word \in Words
  <2>. DEFINE fields == Shifted(14, 28) \cup Shifted(rn, 16) \cup Shifted(rd, 12)
              flags == (IF p THEN {24} ELSE {}) \cup (IF l THEN {20} ELSE {})
                         \cup (IF u THEN {23} ELSE {}) \cup (IF reg THEN {25} ELSE {})
              marks == {26} \cup flags
  <2>1. word = fields \cup marks \cup low
    BY DEF TransferWord
  <2>2. /\ fields \cap (0 .. 11) = {}
        /\ fields \cap (12 .. 15) = Shifted(rd, 12)
        /\ fields \cap (16 .. 19) = Shifted(rn, 16)
        /\ fields \cap {20, 23, 24, 25, 26, 27} = {}
        /\ fields \subseteq 0 .. 31
    BY <1>1
  <2>3. /\ flags \subseteq {20, 23, 24, 25}
        /\ 20 \in flags <=> l
        /\ 23 \in flags <=> u
        /\ 24 \in flags <=> p
        /\ 25 \in flags <=> reg
    OBVIOUS
  <2>. HIDE DEF fields, flags
  <2>4. /\ marks \subseteq {20, 23, 24, 25, 26} /\ 26 \in marks
        /\ 20 \in marks <=> l
        /\ 23 \in marks <=> u
        /\ 24 \in marks <=> p
        /\ 25 \in marks <=> reg
    BY <2>3
  <2>. HIDE DEF marks
  <2>5. /\ marks \cap (0 .. 11) = {} /\ marks \cap (12 .. 15) = {} /\ marks \cap (16 .. 19) = {}
        /\ marks \cap (26 .. 27) = {26} /\ marks \subseteq 0 .. 31
    BY <2>4
  <2>6. /\ low \cap (0 .. 11) = low /\ low \cap (12 .. 15) = {} /\ low \cap (16 .. 19) = {}
        /\ low \cap (26 .. 27) = {} /\ low \subseteq 0 .. 31
        /\ 20 \notin low /\ 23 \notin low /\ 24 \notin low /\ 25 \notin low
    <3>1. \A x \in low : x \in 0 .. 11
      OBVIOUS
    <3>2. \A x \in 0 .. 11 : /\ x \notin 12 .. 15 /\ x \notin 16 .. 19 /\ x \notin 26 .. 27
                            /\ x \in 0 .. 31
                            /\ x # 20 /\ x # 23 /\ x # 24 /\ x # 25
      OBVIOUS
    <3>. QED  BY <3>1, <3>2, Zenon
  <2>7. /\ fields \cap (26 .. 27) = {}
        /\ 20 \notin fields /\ 23 \notin fields /\ 24 \notin fields /\ 25 \notin fields
    <3>1. 26 .. 27 = {26, 27}
      OBVIOUS
    <3>2. \A x \in {20, 23, 24, 25, 26, 27} : x \notin fields
      BY <2>2
    <3>. QED  BY <3>1, <3>2, Zenon
  <2>8. word \in Words
    BY <2>1, <2>2, <2>5, <2>6 DEF Words, Positions
  <2>9. /\ 20 \in word <=> l
        /\ 23 \in word <=> u
        /\ 24 \in word <=> p
        /\ 25 \in word <=> reg
    BY <2>1, <2>4, <2>6, <2>7
  <2>10. /\ word \cap (0 .. 11) = low
         /\ word \cap (12 .. 15) = Shifted(rd, 12)
         /\ word \cap (16 .. 19) = Shifted(rn, 16)
         /\ word \cap (26 .. 27) = {26}
    BY <2>1, <2>2, <2>5, <2>6, <2>7
  <2>. QED  BY <2>8, <2>9, <2>10
<1>3. create_mask(12, 15, word) = rd /\ create_mask(16, 19, word) = rn
  <2>1. 12 + 3 = 15 /\ 16 + 3 = 19 /\ 12 \in 0 .. 28 /\ 16 \in 0 .. 28
    OBVIOUS
  <2>2. create_mask(12, 12 + 3, word) = rd /\ create_mask(16, 16 + 3, word) = rn
    BY <1>2, <2>1, FourBitValue
  <2>. QED  BY <2>1, <2>2
<1>4. create_mask(26, 27, word) = 1
  <2>1. Shifted(1, 26) = {26}
    BY TransferMark
  <2>2. Fits(1, 2) /\ 2 \in 0 .. 31 /\ 26 \in Nat
    BY DEF Fits
  <2>3. word \cap (26 .. 27) = Shifted(1, 26)
    BY <1>2, <2>1
  <2>. QED  BY <2>2, <2>3, FieldValue
<1>5. get_instr_type(word) = "TRANSFER"
  BY <1>4 DEF get_instr_type
<1>6. shift_rm_register(word) = shift_rm_register(low)
  <2>1. \A i, j \in 0 .. 11 : create_mask(i, j, word) = create_mask(i, j, low)
    <3>. SUFFICES ASSUME NEW i \in 0 .. 11, NEW j \in 0 .. 11
                  PROVE  create_mask(i, j, word) = create_mask(i, j, low)
      OBVIOUS
    <3>1. word \cap (i .. j) = low \cap (i .. j)
      <4>1. i .. j \subseteq 0 .. 11
        OBVIOUS
      <4>. QED  BY <1>2, <4>1
    <3>. QED  BY <3>1 DEF create_mask
  <2>2. 4 \in word <=> 4 \in low
    BY <1>2
  <2>. QED  BY <2>1, <2>2 DEF shift_rm_register, extract_bit
<1>7. /\ extract_bit(20, word) = l /\ extract_bit(23, word) = u
      /\ extract_bit(24, word) = p /\ extract_bit(25, word) = reg
  BY <1>2 DEF extract_bit
<1>8. decode(word)
        = [type |-> "TRANSFER", p |-> p, u |-> u, l |-> l, rn |-> rn, rd |-> rd,
           offset |-> IF reg THEN shift_rm_register(low)
                             ELSE [kind |-> "immediate", ones |-> low]]
  <2>1. decode(word)
          = [type |-> "TRANSFER", p |-> extract_bit(24, word), u |-> extract_bit(23, word),
             l |-> extract_bit(20, word), rn |-> create_mask(16, 19, word),
             rd |-> create_mask(12, 15, word),
             offset |-> IF extract_bit(25, word) THEN shift_rm_register(word)
                        ELSE [kind |-> "immediate", ones |-> word \cap (0 .. 11)]]
    BY <1>5 DEF decode
  <2>. QED  BY <1>2, <1>3, <1>6, <1>7, <2>1
<1>. QED  BY <1>2, <1>8 DEF ReadsAsTransfer

\* What an offset adds to the word.
OffsetUp(tail) == tail = <<>> \/ ~IsConstant(tail[1]) \/ ~tail[1].negative
OffsetIsRegister(tail) == tail # <<>> /\ ~IsConstant(tail[1])
OffsetBits(tail) ==
  IF tail = <<>> THEN {}
  ELSE IF IsConstant(tail[1]) THEN Shifted(tail[1].n, 0)
  ELSE IF Len(tail) = 3 THEN OperandBits(tail[1], tail[2].n, tail[3])
  ELSE OperandBits(tail[1], 0, NoShift)

\* The decoder reads that as the offset of the text.
LEMMA OffsetIsRead ==
  ASSUME NEW tail, IsOffsetText(tail)
  PROVE  /\ OffsetBits(tail) \in SUBSET (0 .. 11)
         /\ OffsetMeaning(tail) = IF OffsetIsRegister(tail)
                                    THEN shift_rm_register(OffsetBits(tail))
                                    ELSE [kind |-> "immediate", ones |-> OffsetBits(tail)]
<1>. DEFINE low == OffsetBits(tail)
            meant == IF OffsetIsRegister(tail) THEN shift_rm_register(low)
                                               ELSE [kind |-> "immediate", ones |-> low]
<1>1. CASE tail = <<>>
  <2>1. low = {} /\ OffsetMeaning(tail) = [kind |-> "immediate", ones |-> {}]
    BY <1>1 DEF OffsetBits, OffsetMeaning
  <2>2. ~OffsetIsRegister(tail)
    BY <1>1 DEF OffsetIsRegister
  <2>. QED  BY <2>1, <2>2
<1>2. CASE tail # <<>> /\ IsConstant(tail[1])
  <2>1. tail[1].n \in 0 .. 2 ^ 12 - 1
    BY <1>2 DEF IsOffsetText, IsShift, IsRegister, IsConstant, IsNumber
  <2>2. Shifted(tail[1].n, 0) \subseteq 0 .. 11
    <3>1. 12 \in 0 .. 31 /\ Fits(tail[1].n, 12) /\ 0 \in Nat /\ 0 + 12 <= 32 /\ (0 + 12) - 1 = 11
      BY <2>1 DEF Fits
    <3>2. Shifted(tail[1].n, 0) \subseteq 0 .. (0 + 12) - 1
      BY <3>1, FieldPlace
    <3>. QED  BY <3>1, <3>2
  <2>3. Shifted(tail[1].n, 0) = Bits(tail[1].n)
    BY BitsType DEF Shifted, Positions
  <2>4. low = Shifted(tail[1].n, 0) /\ ~OffsetIsRegister(tail)
        /\ OffsetMeaning(tail) = [kind |-> "immediate", ones |-> Bits(tail[1].n)]
    BY <1>2 DEF OffsetBits, OffsetIsRegister, OffsetMeaning, OperandMeaning
  <2>. QED  BY <2>2, <2>3, <2>4
<1>3. CASE tail # <<>> /\ ~IsConstant(tail[1])
  <2>1. OffsetIsRegister(tail) /\ OffsetMeaning(tail) = OperandMeaning(tail)
    BY <1>3 DEF OffsetIsRegister, OffsetMeaning
  <2>2. CASE Len(tail) = 3
    <3>1. IsShift(tail[1], tail[2], tail[3])
      BY <1>3, <2>2 DEF IsOffsetText
    <3>2. /\ IsRegister(tail[1]) /\ tail[2].n \in 0 .. 3
          /\ IsRegister(tail[3]) \/ IsNumber(tail[3], 31)
      BY <3>1 DEF IsShift
    <3>3. /\ low = OperandBits(tail[1], tail[2].n, tail[3])
          /\ OperandMeaning(tail) = ShiftedRegister(tail[1], tail[2].n, tail[3])
      BY <1>3, <2>2 DEF OffsetBits, OperandMeaning
    <3>4. /\ low \in SUBSET (0 .. 11)
          /\ shift_rm_register(low) = ShiftedRegister(tail[1], tail[2].n, tail[3])
      BY <3>2, <3>3, OperandIsRead
    <3>. HIDE DEF low
    <3>. QED  BY <2>1, <3>3, <3>4 DEF low
  <2>3. CASE Len(tail) # 3
    <3>1. IsRegister(tail[1]) /\ 0 \in 0 .. 3 /\ IsNumber(NoShift, 31)
      BY <1>3, <2>3, PlainIsWritten DEF IsOffsetText, IsNumber
    <3>2. /\ low = OperandBits(tail[1], 0, NoShift)
          /\ OperandMeaning(tail) = ShiftedRegister(tail[1], 0, NoShift)
      BY <1>3, <2>3 DEF OffsetBits, OperandMeaning, NoShift
    <3>3. /\ low \in SUBSET (0 .. 11)
          /\ shift_rm_register(low) = ShiftedRegister(tail[1], 0, NoShift)
      BY <3>1, <3>2, OperandIsRead
    <3>. HIDE DEF low
    <3>. QED  BY <2>1, <3>2, <3>3 DEF low
  <2>. QED  BY <2>2, <2>3
<1>. QED  BY <1>1, <1>2, <1>3

\* The encoder writes it, and the sign and the kind of the offset with it.
LEMMA OffsetIsWritten ==
  ASSUME NEW tail, IsOffsetText(tail), NEW word
  PROVE  encode_offset(word, tail)
           = word \cup OffsetBits(tail) \cup (IF OffsetUp(tail) THEN {23} ELSE {})
               \cup (IF OffsetIsRegister(tail) THEN {25} ELSE {})
<1>1. /\ \A w : set_bits_to(w, 1, 23) = w \cup {23}
      /\ \A w : set_bits_to(w, 5, 23) = w \cup {23, 25}
  <2>1. 23 \in Nat /\ 23 \in 0 .. 31
    OBVIOUS
  <2>2. set_bits_to({}, 1, 23) = {23} /\ set_bits_to({}, 5, 23) = {23, 25}
    BY SmallBits DEF set_bits_to
  <2>. QED  BY <2>1, <2>2, SetInto
<1>2. CASE tail = <<>>
  <2>1. encode_offset(word, tail) = set_bits_to(word, 1, 23)
    BY <1>2 DEF encode_offset
  <2>2. OffsetBits(tail) = {} /\ OffsetUp(tail) /\ ~OffsetIsRegister(tail)
    BY <1>2 DEF OffsetBits, OffsetUp, OffsetIsRegister
  <2>. QED  BY <1>1, <2>1, <2>2
<1>3. CASE tail # <<>> /\ IsConstant(tail[1])
  <2>1. tail[1].n \in 0 .. 2 ^ 12 - 1
    BY <1>3 DEF IsOffsetText, IsShift, IsRegister, IsConstant, IsNumber
  <2>2. \A w : set_bits_to(w, tail[1].n, 0) = w \cup Shifted(tail[1].n, 0)
    <3>1. 12 \in 0 .. 31 /\ Fits(tail[1].n, 12) /\ 0 \in Nat /\ 0 + 12 <= 32
      BY <2>1 DEF Fits
    <3>2. set_bits_to({}, tail[1].n, 0) = Shifted(tail[1].n, 0)
      BY <3>1, FieldPlace
    <3>. QED  BY <3>1, <3>2, SetInto
  <2>3. encode_offset(word, tail)
          = set_bits_to(IF tail[1].negative THEN word ELSE set_bits_to(word, 1, 23),
                        tail[1].n, 0)
    BY <1>3 DEF encode_offset, number
  <2>4. /\ OffsetBits(tail) = Shifted(tail[1].n, 0) /\ ~OffsetIsRegister(tail)
        /\ OffsetUp(tail) <=> ~tail[1].negative
    BY <1>3 DEF OffsetBits, OffsetUp, OffsetIsRegister
  <2>5. CASE tail[1].negative
    <3>1. encode_offset(word, tail) = word \cup Shifted(tail[1].n, 0)
      BY <2>2, <2>3, <2>5
    <3>. QED  BY <2>4, <2>5, <3>1
  <2>6. CASE ~tail[1].negative
    <3>1. encode_offset(word, tail) = (word \cup {23}) \cup Shifted(tail[1].n, 0)
      BY <1>1, <2>2, <2>3, <2>6
    <3>. QED  BY <2>4, <2>6, <3>1
  <2>. QED  BY <2>5, <2>6
<1>4. CASE tail # <<>> /\ ~IsConstant(tail[1])
  <2>1. OffsetUp(tail) /\ OffsetIsRegister(tail)
    BY <1>4 DEF OffsetUp, OffsetIsRegister
  <2>2. CASE Len(tail) = 3
    <3>1. IsShift(tail[1], tail[2], tail[3])
      BY <1>4, <2>2 DEF IsOffsetText
    <3>2. /\ IsRegister(tail[1]) /\ tail[2].n \in 0 .. 3
          /\ IsRegister(tail[3]) \/ IsNumber(tail[3], 31)
      BY <3>1 DEF IsShift
    <3>3. encode_offset(word, tail)
            = encode_shifted_reg(set_bits_to(word, 5, 23), tail[1], tail[2], tail[3])
      BY <1>4, <2>2 DEF encode_offset
    <3>4. encode_offset(word, tail)
            = (word \cup {23, 25}) \cup OperandBits(tail[1], tail[2].n, tail[3])
      BY <1>1, <3>2, <3>3, OperandIsWritten
    <3>5. OffsetBits(tail) = OperandBits(tail[1], tail[2].n, tail[3])
      BY <1>4, <2>2 DEF OffsetBits
    <3>. QED  BY <2>1, <3>4, <3>5
  <2>3. CASE Len(tail) # 3
    <3>1. IsRegister(tail[1]) /\ Len(tail) = 1
      BY <1>4, <2>3 DEF IsOffsetText, IsNumber
    <3>2. encode_offset(word, tail) = set_bits_to(set_bits_to(word, 5, 23), tail[1].n, 0)
      BY <1>4, <3>1 DEF encode_offset, number
    <3>3. encode_offset(word, tail) = (word \cup {23, 25}) \cup OperandBits(tail[1], 0, NoShift)
      BY <1>1, <3>1, <3>2, PlainIsWritten
    <3>4. OffsetBits(tail) = OperandBits(tail[1], 0, NoShift)
      BY <1>4, <2>3 DEF OffsetBits
    <3>. QED  BY <2>1, <3>3, <3>4
  <2>. QED  BY <2>2, <2>3
<1>. QED  BY <1>2, <1>3, <1>4

\* The fields both forms of a transfer share.
LEMMA FieldsOfTransfer ==
  ASSUME NEW t, NEW rd \in 0 .. 15, number(t.operands[1]) = rd
  PROVE  TransferFields(t)
           = Shifted(14, 28) \cup {26} \cup Shifted(rd, 12)
               \cup (IF t.opcode = "ldr" THEN {20} ELSE {})
<1>1. \A w : set_bits_to(w, 2, 25) = w \cup {26} /\ set_bits_to(w, 1, 20) = w \cup {20}
  <2>1. 25 \in Nat /\ 20 \in Nat /\ 20 \in 0 .. 31
    OBVIOUS
  <2>2. set_bits_to({}, 2, 25) = {26} /\ set_bits_to({}, 1, 20) = {20}
    BY SmallBits DEF set_bits_to
  <2>. QED  BY <2>1, <2>2, SetInto
<1>2. /\ ALWAYS = Shifted(14, 28)
      /\ \A w : set_bits_to(w, rd, 12) = w \cup Shifted(rd, 12)
  <2>1. 12 \in Nat /\ 12 \in 0 .. 28 /\ 28 \in 0 .. 28 /\ 14 \in 0 .. 15
    OBVIOUS
  <2>2. set_bits_to({}, 14, 28) = Shifted(14, 28) /\ set_bits_to({}, rd, 12) = Shifted(rd, 12)
    BY <2>1, FourBitField
  <2>. QED  BY <2>1, <2>2, SetInto DEF ALWAYS
<1>3. TransferFields(t)
        = LET word == set_bits_to(set_bits_to(ALWAYS, 2, 25), rd, 12)
          IN  IF t.opcode = "ldr" THEN set_bits_to(word, 1, 20) ELSE word
  BY DEF TransferFields
<1>4. set_bits_to(set_bits_to(ALWAYS, 2, 25), rd, 12)
        = Shifted(14, 28) \cup {26} \cup Shifted(rd, 12)
  BY <1>1, <1>2
<1>. QED  BY <1>1, <1>3, <1>4

\* ldr and str decode as they are written, with every offset.
LEMMA TransferTextDecodes ==
  ASSUME NEW t, IsTransferText(t), NEW S, t.operands \in Seq(S)
  PROVE  DecodesAsWritten(t)
<1>. DEFINE o == t.operands
            rd == o[1].n
            rn == o[2].n
            p == Len(o) = 2
            l == t.opcode = "ldr"
            tail == OffsetOf(t)
            u == OffsetUp(tail)
            reg == OffsetIsRegister(tail)
            low == OffsetBits(tail)
            base == set_bits_to(TransferFields(t), rn, 16)
            word == encode_offset(IF p THEN set_bits_to(base, 1, 24) ELSE base, tail)
<1>1. /\ t.opcode \in TransferOps /\ IsRegister(o[1])
      /\ o[2].kind = "address" /\ rn \in 0 .. 15 /\ rd \in 0 .. 15
      /\ IsOffsetText(tail)
  BY DEF IsTransferText, IsRegister
<1>2. /\ t.opcode \notin DataOps /\ t.opcode \notin MultiplyOps /\ t.opcode \notin SpecialOps
      /\ t.opcode \notin ThreeOperandOps /\ t.opcode \notin TestOps
      /\ t.opcode # "mov" /\ t.opcode # "lsl"
  BY <1>1 DEF DataOps, OpcodeBits, MultiplyOps, TransferOps, SpecialOps, ThreeOperandOps, TestOps
<1>3. ImmediatesOf(t) = {}
  BY <1>2 DEF ImmediatesOf
<1>4. AssembledWord(t) = word
  <2>1. AssembledWord(t) = assemble_single_data_transfer(t, 0, 0, 0)
    BY <1>1, <1>2 DEF AssembledWord
  <2>2. ~IsLiteralLoad(t) /\ ~UsesPool(t)
    BY <1>1 DEF IsLiteralLoad, UsesPool, IsConstant
  <2>3. assemble_single_data_transfer(t, 0, 0, 0) = word
    BY <2>2 DEF assemble_single_data_transfer
  <2>. QED  BY <2>1, <2>3
<1>5. Meaning(t) = [type |-> "TRANSFER", p |-> p, u |-> u, l |-> l, rn |-> rn, rd |-> rd,
                    offset |-> OffsetMeaning(tail)]
  <2>1. Meaning(t) = TransferMeaning(t)
    BY <1>1, <1>2 DEF Meaning
  <2>2. TransferMeaning(t)
          = [type |-> "TRANSFER", p |-> p, u |-> u, l |-> l, rn |-> rn, rd |-> rd,
             offset |-> OffsetMeaning(tail)]
    BY DEF TransferMeaning, OffsetOf, OffsetUp
  <2>. QED  BY <2>1, <2>2
<1>6. /\ low \in SUBSET (0 .. 11)
      /\ OffsetMeaning(tail) = IF reg THEN shift_rm_register(low)
                                      ELSE [kind |-> "immediate", ones |-> low]
  BY <1>1, OffsetIsRead
<1>7. p \in BOOLEAN /\ l \in BOOLEAN /\ reg \in BOOLEAN /\ u \in BOOLEAN
  BY DEF OffsetUp, OffsetIsRegister
<1>8. \A w : encode_offset(w, tail) = w \cup low \cup (IF u THEN {23} ELSE {})
                                        \cup (IF reg THEN {25} ELSE {})
  BY <1>1, OffsetIsWritten
<1>9. number(t.operands[1]) = rd
  BY DEF number
<1>. HIDE DEF o, rd, rn, p, tail, u, reg, low
<1>10. TransferFields(t) = Shifted(14, 28) \cup {26} \cup Shifted(rd, 12)
                             \cup (IF l THEN {20} ELSE {})
  BY <1>1, <1>9, FieldsOfTransfer
<1>. HIDE DEF l
<1>11. base = TransferFields(t) \cup Shifted(rn, 16)
  <2>1. 16 \in Nat /\ 16 \in 0 .. 28
    OBVIOUS
  <2>2. set_bits_to({}, rn, 16) = Shifted(rn, 16)
    BY <1>1, <2>1, FourBitField
  <2>. QED  BY <2>1, <2>2, SetInto
<1>12. set_bits_to(base, 1, 24) = base \cup {24}
  <2>1. 24 \in Nat /\ 24 \in 0 .. 31
    OBVIOUS
  <2>. QED  BY <2>1, SetInto, OneBit
<1>. HIDE DEF base
<1>13. word = TransferWord(p, l, u, reg, rn, rd, low)
  <2>. DEFINE indexed == IF p THEN set_bits_to(base, 1, 24) ELSE base
  <2>1. indexed = base \cup (IF p THEN {24} ELSE {})
    BY <1>12
  <2>2. word = indexed \cup low \cup (IF u THEN {23} ELSE {}) \cup (IF reg THEN {25} ELSE {})
    BY <1>8
  <2>. HIDE DEF indexed, word
  <2>. QED  BY <1>10, <1>11, <2>1, <2>2 DEF TransferWord
<1>. HIDE DEF word
<1>14. ReadsAsTransfer(word, p, l, u, reg, rn, rd, low)
  BY <1>1, <1>6, <1>7, <1>13, TransferWordDecodes
<1>15. word \in Words /\ decode(word) = Meaning(t)
  BY <1>5, <1>6, <1>14 DEF ReadsAsTransfer
<1>. QED  BY <1>3, <1>4, <1>15, DecodesPlainly

(***************************************************************************)
(* print and input                                                         *)
(***************************************************************************)
SpecialWord(string, input, reg, n) ==
  Shifted(14, 28) \cup {25, 26, 27} \cup Shifted(n, 0)
    \cup (IF string THEN {22} ELSE {}) \cup (IF input THEN {23} ELSE {})
    \cup (IF reg THEN {21} ELSE {})

ReadsAsSpecial(word, string, input, reg, n) ==
  /\ word \in Words
  /\ decode(word) = [type |-> IF input THEN "INPUT" ELSE "PRINT", is_string |-> string,
                     reg |-> reg, start_address |-> n]

\* The mark of a print or an input.
LEMMA BitsOfThree == Bits(3) = {0, 1}
<1>1. Bits(1 + 2 ^ 1 * 1) = Bits(1) \cup Shifted(1, 1)
  <2>1. 1 \in Nat /\ 1 + 1 <= 31 /\ 1 \in 0 .. 2 ^ 1 - 1
    OBVIOUS
  <2>. QED  BY <2>1, BitsOfSum
<1>2. 1 + 2 ^ 1 * 1 = 3
  OBVIOUS
<1>. QED  BY <1>1, <1>2, SmallBits DEF Shifted

\* The decoder takes them apart as they were put together.
LEMMA SpecialWordDecodes ==
  ASSUME NEW string \in BOOLEAN, NEW input \in BOOLEAN, NEW reg \in BOOLEAN,
         NEW n \in 0 .. 2 ^ 21 - 1, NEW word, word = SpecialWord(string, input, reg, n)
  PROVE  ReadsAsSpecial(word, string, input, reg, n)
<1>1. Fits(n, 21) /\ 21 \in 0 .. 31 /\ 0 \in Nat /\ 0 + 21 <= 32 /\ (0 + 21) - 1 = 20
  BY DEF Fits
<1>2. Shifted(14, 28) \subseteq 28 .. 31 /\ Shifted(n, 0) \subseteq 0 .. 20
  <2>1. 14 \in 0 .. 15 /\ 28 \in 0 .. 28 /\ 28 + 3 = 31
    OBVIOUS
  <2>2. Shifted(14, 28) \subseteq 28 .. 28 + 3
    BY <2>1, FourBitField
  <2>3. Shifted(n, 0) \subseteq 0 .. (0 + 21) - 1
    BY <1>1, FieldPlace
  <2>. QED  BY <1>1, <2>1, <2>2, <2>3
<1>3. /\ word \cap (0 .. 20) = Shifted(n, 0)
      /\ word \cap (26 .. 27) = {26, 27}
      /\ 21 \in word <=> reg
      /\ 22 \in word <=> string
      /\ 23 \in word <=> input
      /\ word \in Words
  <2>. DEFINE fields == Shifted(14, 28) \cup Shifted(n, 0)
              flags == (IF string THEN {22} ELSE {}) \cup (IF input THEN {23} ELSE {})
                         \cup (IF reg THEN {21} ELSE {})
              marks == {25, 26, 27} \cup flags
  <2>1. word = fields \cup marks
    BY DEF SpecialWord
  <2>2. /\ fields \cap (0 .. 20) = Shifted(n, 0)
        /\ fields \cap {21, 22, 23, 25, 26, 27} = {}
        /\ fields \subseteq 0 .. 31
    BY <1>2
  <2>3. /\ flags \subseteq {21, 22, 23}
        /\ 21 \in flags <=> reg
        /\ 22 \in flags <=> string
        /\ 23 \in flags <=> input
    OBVIOUS
  <2>. HIDE DEF fields, flags
  <2>4. /\ marks \subseteq {21, 22, 23, 25, 26, 27} /\ 26 \in marks /\ 27 \in marks
        /\ 21 \in marks <=> reg
        /\ 22 \in marks <=> string
        /\ 23 \in marks <=> input
    BY <2>3
  <2>. HIDE DEF marks
  <2>5. marks \cap (0 .. 20) = {} /\ marks \cap (26 .. 27) = {26, 27} /\ marks \subseteq 0 .. 31
    BY <2>4
  <2>6. /\ fields \cap (26 .. 27) = {}
        /\ 21 \notin fields /\ 22 \notin fields /\ 23 \notin fields
    <3>1. 26 .. 27 = {26, 27}
      OBVIOUS
    <3>2. \A x \in {21, 22, 23, 25, 26, 27} : x \notin fields
      BY <2>2
    <3>. QED  BY <3>1, <3>2, Zenon
  <2>7. word \in Words
    BY <2>1, <2>2, <2>5 DEF Words, Positions
  <2>8. /\ 21 \in word <=> reg
        /\ 22 \in word <=> string
        /\ 23 \in word <=> input
    BY <2>1, <2>4, <2>6
  <2>. QED  BY <2>1, <2>2, <2>5, <2>6, <2>7, <2>8
<1>4. create_mask(0, 20, word) = n
  BY <1>1, <1>3, FieldValue
<1>5. create_mask(26, 27, word) = 3
  <2>1. Bits(3) = {0, 1}
    BY BitsOfThree
  <2>2. Shifted(3, 26) = {26, 27}
    BY <2>1 DEF Shifted
  <2>3. Fits(3, 2) /\ 2 \in 0 .. 31 /\ 26 \in Nat
    BY DEF Fits
  <2>4. word \cap (26 .. 27) = Shifted(3, 26)
    BY <1>3, <2>2
  <2>. QED  BY <2>3, <2>4, FieldValue
<1>6. get_instr_type(word) = IF input THEN "INPUT" ELSE "PRINT"
  BY <1>3, <1>5 DEF get_instr_type, extract_bit
<1>7. extract_bit(21, word) = reg /\ extract_bit(22, word) = string
  BY <1>3 DEF extract_bit
<1>8. decode(word) = [type |-> IF input THEN "INPUT" ELSE "PRINT", is_string |-> string,
                      reg |-> reg, start_address |-> n]
  <2>1. decode(word)
          = [type |-> get_instr_type(word), is_string |-> extract_bit(22, word),
             reg |-> extract_bit(21, word), start_address |-> create_mask(0, 20, word)]
    BY <1>6 DEF decode
  <2>. QED  BY <1>4, <1>6, <1>7, <2>1
<1>. QED  BY <1>3, <1>8 DEF ReadsAsSpecial

\* prints, printn, inputs and inputn decode as they are written.
LEMMA SpecialTextDecodes ==
  ASSUME NEW t, IsSpecialText(t)
  PROVE  DecodesAsWritten(t)
<1>. DEFINE n == t.operands[1].n
            string == t.opcode \in {"prints", "inputs"}
            input == t.opcode \in {"inputs", "inputn"}
            reg == t.operands[1].kind = "register"
            word == assemble_special(t)
<1>1. t.opcode \in {"prints", "printn", "inputs", "inputn"} /\ n \in 0 .. 2 ^ 21 - 1
  <2>1. IsRegister(t.operands[1]) => n \in 0 .. 2 ^ 21 - 1
    BY DEF IsRegister
  <2>. HIDE DEF n
  <2>. QED  BY <2>1 DEF IsSpecialText, SpecialOps, IsNumber, n
<1>2. /\ t.opcode \notin DataOps /\ t.opcode \notin MultiplyOps /\ t.opcode \notin TransferOps
      /\ t.opcode \in SpecialOps /\ t.opcode \notin ThreeOperandOps /\ t.opcode \notin TestOps
      /\ t.opcode # "mov" /\ t.opcode # "lsl"
  BY <1>1 DEF DataOps, OpcodeBits, MultiplyOps, TransferOps, SpecialOps, ThreeOperandOps, TestOps
<1>3. ImmediatesOf(t) = {}
  BY <1>2 DEF ImmediatesOf
<1>4. AssembledWord(t) = word
  BY <1>2 DEF AssembledWord
<1>5. Meaning(t) = [type |-> IF input THEN "INPUT" ELSE "PRINT", is_string |-> string,
                    reg |-> reg, start_address |-> n]
  <2>1. Meaning(t)
          = [type |-> IF t.opcode \in {"prints", "printn"} THEN "PRINT" ELSE "INPUT",
             is_string |-> string, reg |-> reg, start_address |-> n]
    BY <1>2 DEF Meaning
  <2>2. t.opcode \in {"prints", "printn"} <=> ~input
    BY <1>1
  <2>. QED  BY <2>1, <2>2
<1>6. string \in BOOLEAN /\ input \in BOOLEAN /\ reg \in BOOLEAN
  OBVIOUS
<1>7. word = ALWAYS \cup set_bits_to({}, 7, 25)
               \cup (IF string THEN {22} ELSE {}) \cup (IF input THEN {23} ELSE {})
               \cup (IF reg THEN {21} ELSE {}) \cup set_bits_to({}, n, 0)
  BY DEF assemble_special, number
<1>. HIDE DEF n, string, input, reg, word
<1>8. /\ set_bits_to({}, n, 0) = Shifted(n, 0)
      /\ ALWAYS = Shifted(14, 28)
      /\ set_bits_to({}, 7, 25) = {25, 26, 27}
  <2>1. set_bits_to({}, n, 0) = Shifted(n, 0)
    <3>1. 21 \in 0 .. 31 /\ Fits(n, 21) /\ 0 \in Nat /\ 0 + 21 <= 32
      BY <1>1 DEF Fits
    <3>. QED  BY <3>1, FieldPlace
  <2>2. ALWAYS = Shifted(14, 28)
    <3>1. 14 \in 0 .. 15 /\ 28 \in 0 .. 28
      OBVIOUS
    <3>. QED  BY <3>1, FourBitField DEF ALWAYS
  <2>3. set_bits_to({}, 7, 25) = {25, 26, 27}
    BY NineBits DEF set_bits_to
  <2>. QED  BY <2>1, <2>2, <2>3
<1>9. word = SpecialWord(string, input, reg, n)
  BY <1>7, <1>8 DEF SpecialWord
<1>10. ReadsAsSpecial(word, string, input, reg, n)
  BY <1>1, <1>6, <1>9, SpecialWordDecodes
<1>11. word \in Words /\ decode(word) = Meaning(t)
  BY <1>5, <1>10 DEF ReadsAsSpecial
<1>. QED  BY <1>3, <1>4, <1>11, DecodesPlainly

(***************************************************************************)
(* Every text                                                              *)
(***************************************************************************)
\* Assembling an instruction and decoding its word gives back what its text denotes
\* (call_instruction against get_instr_type and the field extractions), for every
\* text: all registers, shifts, offsets, addresses and constants of 31 bits.  The
\* exceptions are exact: the immediates that are refused, those that spill a ninth
\* bit, and those that look like a multiply.
THEOREM InstructionsDecode ==
  ASSUME NEW t, IsInstructionText(t)
  PROVE  DecodesAsWritten(t)
<1>. DEFINE S == {t.operands[j] : j \in DOMAIN t.operands}
<1>1. t.operands \in Seq(S)
  BY DEF IsInstructionText
<1>. HIDE DEF S
<1>2. IsDataText(t) \/ IsLslText(t) \/ IsMultiplyText(t) \/ IsTransferText(t) \/ IsSpecialText(t)
  BY DEF IsInstructionText
<1>. QED  BY <1>1, <1>2, DataTextDecodes, LslTextDecodes, MultiplyTextDecodes,
             TransferTextDecodes, SpecialTextDecodes

(***************************************************************************)
(* Counting instructions                                                   *)
(***************************************************************************)
\* The count moves by one behind an instruction, and stays behind a label.
LEMMA CountLine ==
  ASSUME NEW l \in Nat, l # 0
  PROVE  /\ InstructionsBefore(l) \in Nat
         /\ InstructionsBefore(l + 1)
              = IF IsInstruction(l) THEN InstructionsBefore(l) + 1 ELSE InstructionsBefore(l)
<1>. DEFINE B == {m \in 1 .. l - 1 : IsInstruction(m)}
<1>1. IsFiniteSet(B) /\ Cardinality(B) \in Nat
  <2>1. IsFiniteSet(1 .. l - 1)
    BY FS_Interval
  <2>2. IsFiniteSet(B)
    BY <2>1, FS_Subset
  <2>. QED  BY <2>2, FS_CardinalityType
<1>2. l \notin B
  OBVIOUS
<1>3. {m \in 1 .. l + 1 - 1 : IsInstruction(m)} = IF IsInstruction(l) THEN B \cup {l} ELSE B
  <2>1. 1 .. l + 1 - 1 = (1 .. l - 1) \cup {l}
    OBVIOUS
  <2>. QED  BY <2>1
<1>4. Cardinality(B \cup {l}) = Cardinality(B) + 1
  BY <1>1, <1>2, FS_AddElement
<1>5. /\ InstructionsBefore(l) = Cardinality(B)
      /\ InstructionsBefore(l + 1) = Cardinality({m \in 1 .. l + 1 - 1 : IsInstruction(m)})
  BY DEF InstructionsBefore
<1>. HIDE DEF B
<1>. QED  BY <1>1, <1>3, <1>4, <1>5

LEMMA CountNothing == InstructionsBefore(1) = 0
<1>1. {m \in 1 .. 1 - 1 : IsInstruction(m)} = {}
  OBVIOUS
<1>. QED  BY <1>1, FS_EmptySet DEF InstructionsBefore

\* A file of words is a sequence, of whatever the encoders return.
IsSequence(s) == \E S : s \in Seq(S)

LEMMA AppendAny ==
  ASSUME NEW s, IsSequence(s), NEW w
  PROVE  IsSequence(Append(s, w)) /\ Len(Append(s, w)) = Len(s) + 1 /\ Len(s) \in Nat
<1>1. PICK S : s \in Seq(S)
  BY DEF IsSequence
<1>2. s \in Seq(S \cup {w}) /\ w \in S \cup {w}
  BY <1>1, SeqMonotonic
<1>. QED  BY <1>2, AppendProperties DEF IsSequence

(***************************************************************************)
(* The inductive invariant                                                 *)
(***************************************************************************)
LengthsAgree == calling_address \in Nat /\ Len(file) = Len(old) + calling_address

CountInv ==
  /\ Len(lines) \in Nat
  /\ cursor \in 0 .. Len(lines)
  /\ phase \in Phase
  /\ IsSequence(old) /\ IsSequence(file) /\ IsSequence(pool)
  /\ phase = "first" =>
       /\ address = InstructionsBefore(cursor + 1)
       /\ calling_address = 0 /\ file = old
  /\ phase # "first" => address = InstructionsBefore(Len(lines) + 1)
  /\ phase \in {"second", "failed", "undefined"} =>
       /\ calling_address = InstructionsBefore(cursor + 1)
       /\ LengthsAgree
  /\ phase = "pool" => calling_address = address /\ LengthsAgree
  /\ phase = "done" =>
       /\ calling_address = address
       /\ Len(file) = Len(old) + address + Len(pool)

LEMMA InitCount == Init => CountInv
<1>. SUFFICES ASSUME Init PROVE CountInv
  OBVIOUS
<1>1. Len(lines) \in Nat /\ IsSequence(old) /\ IsSequence(pool)
  <2>1. old \in Seq(SUBSET Positions) /\ pool \in Seq({})
    BY SourcesAssumption DEF Init
  <2>. QED  BY <2>1, SourcesAssumption DEF Init, IsSequence
<1>. QED  BY <1>1, CountNothing DEF Init, CountInv, Phase

LEMMA CountStays ==
  ASSUME lines' = lines
  PROVE  \A l : InstructionsBefore(l)' = InstructionsBefore(l)
BY DEF InstructionsBefore, IsInstruction

\* The first pass.
LEMMA FirstPassStep ==
  ASSUME CountInv, EnterLabel \/ CountInstruction \/ StartSecondPass
  PROVE  CountInv'
<1>1. /\ phase = "first" /\ UNCHANGED <<lines, calling_address, pool, old, file>>
      /\ Len(lines) \in Nat /\ cursor \in 0 .. Len(lines) /\ cursor + 1 \in Nat /\ cursor + 1 # 0
      /\ \A l : InstructionsBefore(l)' = InstructionsBefore(l)
  <2>1. phase = "first" /\ UNCHANGED <<lines, calling_address, pool, old, file>>
    BY DEF EnterLabel, CountInstruction, StartSecondPass
  <2>. QED  BY <2>1, CountStays DEF CountInv
<1>2. CASE EnterLabel \/ CountInstruction
  <2>1. /\ cursor < Len(lines) /\ cursor' = cursor + 1 /\ phase' = phase
        /\ address' = IF IsInstruction(cursor + 1) THEN address + 1 ELSE address
    BY <1>2 DEF EnterLabel, CountInstruction, MoreLines, NextLine, line, IsInstruction
  <2>2. address' = InstructionsBefore(cursor + 1 + 1)
    BY <1>1, <2>1, CountLine DEF CountInv
  <2>3. cursor' \in 0 .. Len(lines)
    BY <1>1, <2>1
  <2>. QED  BY <1>1, <2>1, <2>2, <2>3 DEF CountInv
<1>3. CASE StartSecondPass
  <2>1. cursor' = 0 /\ phase' = "second" /\ cursor = Len(lines) /\ address' = address
    BY <1>1, <1>3 DEF StartSecondPass, MoreLines
  <2>2. Len(file) \in Nat /\ Len(old) \in Nat
    BY AppendAny DEF CountInv
  <2>3. LengthsAgree'
    BY <1>1, <2>2 DEF LengthsAgree, CountInv
  <2>. QED  BY <1>1, <2>1, <2>3, CountNothing DEF CountInv, Phase
<1>. QED  BY <1>2, <1>3

\* A line of the second pass that writes nothing.
LEMMA SilentStep ==
  ASSUME CountInv,
         \/ SkipLabel \/ OverflowPool \/ CrashInLookup \/ RefuseMnemonic \/ FinishSecondPass
  PROVE  CountInv'
<1>1. /\ phase = "second"
      /\ UNCHANGED <<lines, address, calling_address, pool, old, file>>
      /\ Len(lines) \in Nat /\ cursor \in 0 .. Len(lines) /\ cursor + 1 \in Nat /\ cursor + 1 # 0
      /\ \A l : InstructionsBefore(l)' = InstructionsBefore(l)
      /\ calling_address = InstructionsBefore(cursor + 1) /\ LengthsAgree
  <2>1. phase = "second" /\ UNCHANGED <<lines, address, calling_address, pool, old, file>>
    BY DEF SkipLabel, OverflowPool, CrashInLookup, RefuseMnemonic, FinishSecondPass, Assembling
  <2>. QED  BY <2>1, CountStays DEF CountInv
<1>2. LengthsAgree'
  BY <1>1 DEF LengthsAgree
<1>3. CASE SkipLabel
  <2>1. cursor < Len(lines) /\ cursor' = cursor + 1 /\ phase' = phase /\ ~IsInstruction(cursor + 1)
    BY <1>3 DEF SkipLabel, MoreLines, NextLine, line, IsInstruction
  <2>2. calling_address = InstructionsBefore(cursor + 1 + 1)
    BY <1>1, <2>1, CountLine
  <2>3. cursor' \in 0 .. Len(lines)
    BY <1>1, <2>1
  <2>. QED  BY <1>1, <1>2, <2>1, <2>2, <2>3 DEF CountInv
<1>4. CASE OverflowPool \/ CrashInLookup \/ RefuseMnemonic
  <2>1. cursor' = cursor /\ phase' \in {"failed", "undefined"}
    BY <1>4 DEF OverflowPool, CrashInLookup, RefuseMnemonic
  <2>. QED  BY <1>1, <1>2, <2>1 DEF CountInv, Phase
<1>5. CASE FinishSecondPass
  <2>1. cursor' = cursor /\ phase' = "pool" /\ cursor = Len(lines)
    BY <1>1, <1>5 DEF FinishSecondPass, MoreLines
  <2>. QED  BY <1>1, <1>2, <2>1 DEF CountInv, Phase
<1>. QED  BY <1>3, <1>4, <1>5

\* binary_writer, or an exit: one word and one count, or neither.
LEMMA WriteStep ==
  ASSUME CountInv, phase = "second", MoreLines, IsInstruction(cursor + 1),
         NEW word, Write(word), IsSequence(pool')
  PROVE  CountInv'
<1>1. /\ UNCHANGED <<lines, address, old>>
      /\ Len(lines) \in Nat /\ cursor \in 0 .. Len(lines) /\ cursor + 1 \in Nat /\ cursor + 1 # 0
      /\ cursor < Len(lines)
      /\ \A l : InstructionsBefore(l)' = InstructionsBefore(l)
      /\ calling_address = InstructionsBefore(cursor + 1) /\ LengthsAgree
      /\ IsSequence(file) /\ IsSequence(old)
  <2>1. UNCHANGED <<lines, address, old>>
    BY DEF Write
  <2>. QED  BY <2>1, CountStays DEF CountInv, MoreLines
<1>2. CASE word = EXIT
  <2>1. phase' = "failed" /\ UNCHANGED <<file, cursor, calling_address>>
    BY <1>2 DEF Write
  <2>2. LengthsAgree'
    BY <1>1, <2>1 DEF LengthsAgree
  <2>. QED  BY <1>1, <2>1, <2>2 DEF CountInv, Phase
<1>3. CASE word # EXIT
  <2>1. /\ file' = Append(file, word) /\ calling_address' = calling_address + 1
        /\ cursor' = cursor + 1 /\ phase' = phase
    BY <1>3 DEF Write, NextLine
  <2>2. IsSequence(file') /\ Len(file') = Len(file) + 1 /\ Len(old) \in Nat
    BY <1>1, <2>1, AppendAny
  <2>3. LengthsAgree'
    BY <1>1, <2>1, <2>2 DEF LengthsAgree
  <2>4. calling_address' = InstructionsBefore(cursor + 1 + 1)
    BY <1>1, <2>1, CountLine
  <2>5. cursor' \in 0 .. Len(lines)
    BY <1>1, <2>1
  <2>. QED  BY <1>1, <2>1, <2>2, <2>3, <2>4, <2>5 DEF CountInv
<1>. QED  BY <1>2, <1>3

LEMMA EncodeStep ==
  ASSUME CountInv,
         \/ AssembleDataProcessing \/ AssembleMultiply \/ AssembleTransfer
         \/ AssembleLiteralLoad \/ AssembleBranch \/ AssembleSpecial
  PROVE  CountInv'
<1>1. phase = "second" /\ MoreLines /\ IsInstruction(cursor + 1)
  BY DEF AssembleDataProcessing, AssembleMultiply, AssembleTransfer, AssembleLiteralLoad,
         AssembleBranch, AssembleSpecial, Assembling, line, IsInstruction
<1>2. IsSequence(pool')
  <2>1. IsSequence(pool)
    BY DEF CountInv
  <2>2. CASE AssembleLiteralLoad
    BY <2>1, <2>2, AppendAny DEF AssembleLiteralLoad
  <2>3. CASE ~AssembleLiteralLoad
    <3>1. pool' = pool
      BY <2>3 DEF AssembleDataProcessing, AssembleMultiply, AssembleTransfer, AssembleBranch,
                  AssembleSpecial
    <3>. QED  BY <2>1, <3>1
  <2>. QED  BY <2>2, <2>3
<1>3. \E word : Write(word)
  BY DEF AssembleDataProcessing, AssembleMultiply, AssembleTransfer, AssembleLiteralLoad,
         AssembleBranch, AssembleSpecial
<1>. QED  BY <1>1, <1>2, <1>3, WriteStep

LEMMA PoolStep == CountInv /\ WritePool => CountInv'
<1>. SUFFICES ASSUME CountInv, WritePool PROVE CountInv'
  OBVIOUS
<1>1. /\ phase = "pool" /\ phase' = "done" /\ UNCHANGED <<lines, cursor, address, old, pool>>
      /\ calling_address' = calling_address /\ calling_address = address /\ LengthsAgree
      /\ \A l : InstructionsBefore(l)' = InstructionsBefore(l)
  BY CountStays DEF WritePool, CountInv
<1>. DEFINE words == [k \in 1 .. Len(pool) |-> Bits(pool[k])]
<1>2. Len(pool) \in Nat /\ Len(old) \in Nat
  BY AppendAny DEF CountInv
<1>3. words \in Seq({Bits(pool[k]) : k \in 1 .. Len(pool)}) /\ Len(words) = Len(pool)
  BY <1>2, IsASeq
<1>. HIDE DEF words
<1>4. PICK S, T : file \in Seq(S) /\ words \in Seq(T)
  BY <1>3 DEF CountInv, IsSequence
<1>5. file \in Seq(S \cup T) /\ words \in Seq(S \cup T)
  BY <1>4, SeqMonotonic
<1>6. file' = file \o words
  BY DEF WritePool, words
<1>7. IsSequence(file') /\ Len(file') = Len(file) + Len(pool)
  <2>1. file \o words \in Seq(S \cup T) /\ Len(file \o words) = Len(file) + Len(words)
    BY <1>5, ConcatProperties
  <2>. QED  BY <2>1, <1>3, <1>6 DEF IsSequence
<1>8. Len(file') = Len(old) + address + Len(pool)
  BY <1>1, <1>2, <1>7 DEF LengthsAgree
<1>. QED  BY <1>1, <1>7, <1>8 DEF CountInv, Phase

LEMMA CountStep == CountInv /\ [Next]_vars => CountInv'
<1>. SUFFICES ASSUME CountInv, [Next]_vars PROVE CountInv'
  OBVIOUS
<1>1. CASE UNCHANGED vars
  BY <1>1, CountStays DEF vars, CountInv, LengthsAgree
<1>2. CASE Next
  BY <1>2, FirstPassStep, SilentStep, EncodeStep, PoolStep DEF Next
<1>. QED  BY <1>1, <1>2

\* The count a branch or a literal load is encoded from is the one its label
\* was entered with, and a run that fails leaves the words before its line.
THEOREM PassesNumberAlike == Spec => []PassesAgree
<1>1. CountInv => PassesAgree
  BY DEF CountInv, PassesAgree, LengthsAgree
<1>. QED  BY <1>1, InitCount, CountStep, PTL DEF Spec

(***************************************************************************)
(* The symbol table                                                        *)
(***************************************************************************)
\* What is known of every symbol table holds of the assembler's.
LEMMA KnownTable ==
  /\ TABLE_SIZE \in Nat \ {0}
  /\ hash \in [Symbols -> Known!Slot]
  /\ Nat \subseteq Nat
  /\ FALSE \in BOOLEAN
BY LabelsAssumption DEF Known!Slot

LEMMA SameTable ==
  /\ Table!Init <=> Known!Init
  /\ Table!TypeOK <=> Known!TypeOK
  /\ Table!ABSENT = Known!ABSENT
  /\ \A s : Table!Chain(s) = Known!Chain(s)
  /\ \A s, a : Table!Insert(s, a) <=> Known!Insert(s, a)
  /\ \A s : Table!Lookup(s) <=> Known!Lookup(s)
<1>1. /\ Table!Slot = Known!Slot /\ Table!Entry = Known!Entry /\ Table!ABSENT = Known!ABSENT
      /\ \A s : Table!Chain(s) = Known!Chain(s)
      /\ \A chain, s : Table!Holds(chain, s) <=> Known!Holds(chain, s)
      /\ \A chain, s : Table!Position(chain, s) = Known!Position(chain, s)
      /\ \A s, a : Table!create_entry(s, a) = Known!create_entry(s, a)
  BY DEF Table!Slot, Known!Slot, Table!Entry, Known!Entry, Table!ABSENT, Known!ABSENT,
         Table!Chain, Known!Chain, Table!Holds, Known!Holds, Table!Position, Known!Position,
         Table!create_entry, Known!create_entry
<1>2. Table!Init <=> Known!Init
  BY <1>1 DEF Table!Init, Known!Init
<1>3. Table!TypeOK <=> Known!TypeOK
  BY <1>1 DEF Table!TypeOK, Known!TypeOK
<1>4. ASSUME NEW s, NEW a PROVE Table!Insert(s, a) <=> Known!Insert(s, a)
  <2>1. Table!InsertIntoEmptySlot(s, a) <=> Known!InsertIntoEmptySlot(s, a)
    BY <1>1 DEF Table!InsertIntoEmptySlot, Known!InsertIntoEmptySlot
  <2>2. Table!ReplaceAddress(s, a) <=> Known!ReplaceAddress(s, a)
    BY <1>1 DEF Table!ReplaceAddress, Known!ReplaceAddress
  <2>3. Table!AppendToChain(s, a) <=> Known!AppendToChain(s, a)
    BY <1>1 DEF Table!AppendToChain, Known!AppendToChain
  <2>. QED  BY <2>1, <2>2, <2>3 DEF Table!Insert, Known!Insert
<1>5. ASSUME NEW s PROVE Table!Lookup(s) <=> Known!Lookup(s)
  <2>1. Table!LookupEmptySlot(s) <=> Known!LookupEmptySlot(s)
    BY <1>1 DEF Table!LookupEmptySlot, Known!LookupEmptySlot
  <2>2. Table!LookupFinds(s) <=> Known!LookupFinds(s)
    BY <1>1 DEF Table!LookupFinds, Known!LookupFinds
  <2>3. Table!LookupMisses(s) <=> Known!LookupMisses(s)
    BY <1>1 DEF Table!LookupMisses, Known!LookupMisses
  <2>. QED  BY <2>1, <2>2, <2>3 DEF Table!Lookup, Known!Lookup
<1>. QED  BY <1>1, <1>2, <1>3, <1>4, <1>5

\* No walk empties a bucket: a label that was entered leaves its bucket in use.
BucketsStay == \A s \in Symbols : last[s] # Table!ABSENT => Table!Chain(s) # <<>>

TableInv == Known!TableInv /\ BucketsStay

LEMMA InsertKeeps ==
  ASSUME TableInv, NEW s \in Symbols, NEW a \in Nat, Table!Insert(s, a)
  PROVE  TableInv' /\ last' = [last EXCEPT ![s] = a]
<1>1. Known!Insert(s, a) /\ Known!TypeOK /\ Known!EntriesAreCurrent /\ Known!TableInv
  BY SameTable DEF TableInv, Known!TableInv
<1>2. Known!TableInv'
  BY <1>1, KnownTable, Known!InsertKeepsTable
<1>3. PICK new \in Seq(Known!Entry) :
        entries' = [entries EXCEPT ![hash[s]] = new] /\ new # <<>>
  BY <1>1, KnownTable, Known!InsertEffect
<1>4. last' = [last EXCEPT ![s] = a]
  BY <1>1 DEF Known!Insert
<1>5. entries \in [Known!Slot -> Seq(Known!Entry)] /\ last \in [Symbols -> Nat \cup {Known!ABSENT}]
  BY <1>1 DEF Known!TypeOK
<1>6. BucketsStay'
  <2>. SUFFICES ASSUME NEW r \in Symbols, last'[r] # Table!ABSENT PROVE Table!Chain(r)' # <<>>
    BY DEF BucketsStay, Table!ABSENT
  <2>1. hash[r] \in Known!Slot /\ hash[s] \in Known!Slot
    BY KnownTable
  <2>2. CASE hash[r] = hash[s]
    BY <1>3, <1>5, <2>1, <2>2 DEF Table!Chain
  <2>3. CASE hash[r] # hash[s]
    <3>1. last[r] # Table!ABSENT
      BY <1>4, <1>5, <2>3
    <3>2. entries[hash[r]] # <<>>
      BY <3>1 DEF TableInv, BucketsStay, Table!Chain
    <3>. QED  BY <1>3, <1>5, <2>1, <2>3, <3>2 DEF Table!Chain
  <2>. QED  BY <2>2, <2>3
<1>. QED  BY <1>2, <1>4, <1>6 DEF TableInv

\* A lookup that does not crash finds the label, if there is one.
LEMMA LookupKeeps ==
  ASSUME TableInv, NEW s \in Symbols, Table!Lookup(s)
  PROVE  /\ TableInv' /\ UNCHANGED last
         /\ ~crashed' => answer' = last[s]
<1>1. Known!Lookup(s) /\ Known!TypeOK /\ Known!EntriesAreCurrent /\ Known!TableInv
  BY SameTable DEF TableInv, Known!TableInv
<1>2. Known!TableInv'
  BY <1>1, KnownTable, Known!LookupKeepsTable
<1>3. PICK rest \in Seq(Known!Entry) :
        entries' = [entries EXCEPT ![hash[s]] = rest] /\ (rest = <<>> <=> Known!Chain(s) = <<>>)
  BY <1>1, KnownTable, Known!LookupEffect
<1>4. last' = last
  BY <1>1 DEF Known!Lookup
<1>5. entries \in [Known!Slot -> Seq(Known!Entry)]
  BY <1>1 DEF Known!TypeOK
<1>6. BucketsStay'
  <2>. SUFFICES ASSUME NEW r \in Symbols, last'[r] # Table!ABSENT PROVE Table!Chain(r)' # <<>>
    BY DEF BucketsStay, Table!ABSENT
  <2>1. hash[r] \in Known!Slot /\ hash[s] \in Known!Slot
    BY KnownTable
  <2>2. entries[hash[r]] # <<>>
    BY <1>4 DEF TableInv, BucketsStay, Table!Chain
  <2>. QED  BY <1>3, <1>5, <2>1, <2>2 DEF Table!Chain, Known!Chain
<1>7. ASSUME ~crashed' PROVE answer' = last[s]
  <2>1. CASE Known!LookupEmptySlot(s)
    BY <2>1, SameTable DEF Known!LookupEmptySlot, TableInv, BucketsStay
  <2>2. CASE Known!LookupFinds(s)
    <3>1. /\ Known!Chain(s) \in Seq(Known!Entry)
          /\ Known!ChainIsCurrent(Known!Chain(s), hash[s], last)
          /\ Known!Holds(Known!Chain(s), s)
      BY <1>1, <2>2, KnownTable, Known!ChainType DEF Known!LookupFinds
    <3>2. /\ Known!Position(Known!Chain(s), s) \in DOMAIN Known!Chain(s)
          /\ Known!Chain(s)[Known!Position(Known!Chain(s), s)].symbol = s
      BY <3>1, KnownTable, Known!PositionOf
    <3>. QED  BY <2>2, <3>1, <3>2 DEF Known!LookupFinds, Known!ChainIsCurrent
  <2>3. CASE Known!LookupMisses(s)
    BY <1>7, <2>3 DEF Known!LookupMisses
  <2>. QED  BY <1>1, <2>1, <2>2, <2>3 DEF Known!Lookup
<1>. QED  BY <1>2, <1>4, <1>6, <1>7 DEF TableInv

(***************************************************************************)
(* What every step does                                                    *)
(***************************************************************************)
\* The line that is read is one of the source file's.
LEMMA LineRead ==
  ASSUME lines \in Programs, cursor \in 0 .. Len(lines), MoreLines
  PROVE  cursor + 1 \in 1 .. Len(lines) /\ line = lines[cursor + 1] /\ IsLine(line)
BY SourcesAssumption DEF MoreLines, line

\* What an encoder writes to the file, and to the pool.
LEMMA EncodedWord ==
  ASSUME lines \in Programs, cursor \in 0 .. Len(lines), TableInv,
         \/ AssembleDataProcessing \/ AssembleMultiply \/ AssembleTransfer
         \/ AssembleLiteralLoad \/ AssembleBranch \/ AssembleSpecial
  PROVE  \E word \in Words \cup {EXIT} : Write(word)
<1>1. CASE AssembleDataProcessing
  BY <1>1, DataProcessingType DEF AssembleDataProcessing
<1>2. CASE AssembleMultiply
  BY <1>2, MultiplyType DEF AssembleMultiply
<1>3. CASE AssembleTransfer \/ AssembleLiteralLoad
  <2>1. IsTokenized(line.token) /\ line.token.opcode \in TransferOps /\ Write(Transfer)
    BY <1>3, LineRead DEF AssembleTransfer, AssembleLiteralLoad, Assembling, IsLine
  <2>2. IsLiteralLoad(line.token) \/ IsOffset(OffsetOf(line.token))
    BY <2>1 DEF IsTokenized
  <2>3. Transfer \in Words \cup {EXIT}
    BY <2>2, TransferType DEF Transfer
  <2>. QED  BY <2>1, <2>3
<1>4. CASE AssembleBranch
  BY <1>4, BranchType DEF AssembleBranch
<1>5. CASE AssembleSpecial
  BY <1>5, SpecialType DEF AssembleSpecial
<1>. QED  BY <1>1, <1>2, <1>3, <1>4, <1>5

\* Only labels are entered, and only branches looked up.
LEMMA TableSteps ==
  ASSUME lines \in Programs, cursor \in 0 .. Len(lines), address \in Nat, TableInv, [Next]_vars
  PROVE  /\ TableInv'
         /\ last' = IF EnterLabel THEN [last EXCEPT ![line.name] = 4 * address] ELSE last
         /\ EnterLabel => line.name \in Symbols
<1>1. CASE EnterLabel
  <2>1. line.kind = "label" /\ Table!Insert(line.name, 4 * address) /\ MoreLines
    BY <1>1 DEF EnterLabel
  <2>2. line.name \in Symbols
    BY <2>1, LineRead DEF IsLine
  <2>3. 4 * address \in Nat
    OBVIOUS
  <2>. QED  BY <1>1, <2>1, <2>2, <2>3, InsertKeeps
<1>2. CASE AssembleBranch \/ CrashInLookup
  <2>1. /\ line.kind = "instruction" /\ line.token.opcode \in BranchOps /\ MoreLines
        /\ Table!Lookup(Target.name) /\ phase = "second"
    BY <1>2 DEF AssembleBranch, CrashInLookup, Assembling
  <2>2. Target.name \in Symbols
    BY <2>1, LineRead DEF IsLine, IsTokenized, Target
  <2>3. ~EnterLabel
    BY <2>1 DEF EnterLabel
  <2>. QED  BY <2>1, <2>2, <2>3, LookupKeeps
<1>3. CASE ~(EnterLabel \/ AssembleBranch \/ CrashInLookup)
  <2>1. UNCHANGED tableVars
    BY <1>3 DEF Next, vars, CountInstruction, StartSecondPass, SkipLabel, AssembleDataProcessing,
         AssembleMultiply, AssembleTransfer, AssembleLiteralLoad, OverflowPool, AssembleSpecial,
         RefuseMnemonic, FinishSecondPass, WritePool
  <2>2. UNCHANGED <<entries, count, answer, crashed, last>>
    BY <2>1 DEF tableVars
  <2>3. Known!TableInv'
    BY <2>2 DEF TableInv, Known!TableInv, Known!TypeOK, Known!EntriesAreCurrent, Known!Entry,
                Known!Slot, Known!ABSENT
  <2>4. BucketsStay'
    BY <2>2 DEF TableInv, BucketsStay, Table!Chain, Table!ABSENT
  <2>. QED  BY <1>3, <2>2, <2>3, <2>4 DEF TableInv
<1>. QED  BY <1>1, <1>2, <1>3

(***************************************************************************)
(* Types                                                                   *)
(***************************************************************************)
TypeInv ==
  /\ CountInv
  /\ lines \in Programs
  /\ pool \in Seq(Int)
  /\ file \in Seq(Words) /\ old \in Seq(Words)
  /\ TableInv

\* Further lines hold no fewer instructions, and more if the first is one.
LEMMA MoreInstructions ==
  ASSUME NEW l \in Nat, NEW m \in Nat, 0 < l, l <= m
  PROVE  /\ InstructionsBefore(l) \in 0 .. l - 1
         /\ InstructionsBefore(l) <= InstructionsBefore(m)
         /\ l < m /\ IsInstruction(l) => InstructionsBefore(l) < InstructionsBefore(m)
<1>. DEFINE B(n) == {k \in 1 .. n - 1 : IsInstruction(k)}
<1>1. ASSUME NEW n \in Nat, 0 < n
      PROVE  /\ IsFiniteSet(B(n)) /\ InstructionsBefore(n) = Cardinality(B(n))
             /\ InstructionsBefore(n) \in Nat /\ InstructionsBefore(n) <= n - 1
  <2>1. IsFiniteSet(1 .. n - 1) /\ Cardinality(1 .. n - 1) = n - 1
    BY <1>1, FS_Interval
  <2>2. B(n) \subseteq 1 .. n - 1
    OBVIOUS
  <2>3. IsFiniteSet(B(n)) /\ Cardinality(B(n)) <= Cardinality(1 .. n - 1)
    BY <2>1, <2>2, FS_Subset
  <2>. QED  BY <2>1, <2>3, FS_CardinalityType DEF InstructionsBefore
<1>2. ASSUME NEW a \in Nat, NEW b \in Nat, 0 < a, a <= b
      PROVE  InstructionsBefore(a) <= InstructionsBefore(b)
  <2>1. B(a) \subseteq B(b)
    BY <1>2
  <2>. HIDE DEF B
  <2>2. Cardinality(B(a)) <= Cardinality(B(b))
    BY <1>1, <1>2, <2>1, FS_Subset
  <2>. QED  BY <1>1, <1>2, <2>2
<1>3. ASSUME l < m, IsInstruction(l)
      PROVE  InstructionsBefore(l) < InstructionsBefore(m)
  <2>1. l + 1 \in Nat /\ 0 < l + 1 /\ l + 1 <= m
    BY <1>3
  <2>2. InstructionsBefore(l + 1) = InstructionsBefore(l) + 1
    BY <1>3, CountLine
  <2>3. InstructionsBefore(l + 1) <= InstructionsBefore(m)
    BY <1>2, <2>1
  <2>4. 0 < m
    BY <1>3
  <2>5. InstructionsBefore(l) \in Nat /\ InstructionsBefore(m) \in Nat
    BY <1>1, <2>4
  <2>. QED  BY <2>2, <2>3, <2>5
<1>4. InstructionsBefore(l) \in Nat /\ InstructionsBefore(l) <= l - 1
  BY <1>1
<1>. HIDE DEF B
<1>. QED  BY <1>2, <1>3, <1>4

\* What the counts of both passes range over.
LEMMA CountsInRange ==
  ASSUME CountInv
  PROVE  /\ InstructionsBefore(cursor + 1) \in 0 .. cursor
         /\ InstructionsBefore(Len(lines) + 1) \in 0 .. Len(lines)
         /\ InstructionsBefore(cursor + 1) <= InstructionsBefore(Len(lines) + 1)
         /\ address \in Nat /\ calling_address \in 0 .. address
         /\ address <= Len(lines)
<1>1. /\ Len(lines) \in Nat /\ cursor \in 0 .. Len(lines) /\ phase \in Phase
      /\ cursor + 1 \in Nat /\ 0 < cursor + 1 /\ Len(lines) + 1 \in Nat /\ 0 < Len(lines) + 1
      /\ cursor + 1 <= Len(lines) + 1
  BY DEF CountInv
<1>2. /\ InstructionsBefore(cursor + 1) \in 0 .. cursor + 1 - 1
      /\ InstructionsBefore(cursor + 1) <= InstructionsBefore(Len(lines) + 1)
  BY <1>1, MoreInstructions
<1>3. Len(lines) + 1 <= Len(lines) + 1
  BY <1>1
<1>4. InstructionsBefore(Len(lines) + 1) \in 0 .. Len(lines) + 1 - 1
  BY <1>1, <1>3, MoreInstructions
<1>5. /\ phase = "first" => address = InstructionsBefore(cursor + 1) /\ calling_address = 0
      /\ phase # "first" => address = InstructionsBefore(Len(lines) + 1)
      /\ phase \in {"second", "failed", "undefined"} => calling_address = InstructionsBefore(cursor + 1)
      /\ phase \in {"pool", "done"} => calling_address = address
  BY DEF CountInv
<1>. QED  BY <1>1, <1>2, <1>4, <1>5 DEF Phase

LEMMA InitTyped == Init => TypeInv
<1>. SUFFICES ASSUME Init PROVE TypeInv
  OBVIOUS
<1>1. pool \in Seq(Int) /\ old \in Seq(Words) /\ file \in Seq(Words) /\ lines \in Programs
  BY SourcesAssumption DEF Init, Words
<1>2. Known!TableInv
  BY SameTable, KnownTable, Known!InitTable DEF Init
<1>3. BucketsStay
  BY DEF Init, Table!Init, BucketsStay
<1>. QED  BY <1>1, <1>2, <1>3, InitCount DEF TypeInv, TableInv

LEMMA SourceStays == [Next]_vars => lines' = lines /\ old' = old
BY DEF Next, vars, EnterLabel, CountInstruction, StartSecondPass, SkipLabel,
       AssembleDataProcessing, AssembleMultiply, AssembleTransfer, AssembleLiteralLoad,
       OverflowPool, AssembleBranch, CrashInLookup, AssembleSpecial, RefuseMnemonic,
       FinishSecondPass, WritePool, Write

LEMMA TypeStep == TypeInv /\ [Next]_vars => TypeInv'
<1>. SUFFICES ASSUME TypeInv, [Next]_vars PROVE TypeInv'
  OBVIOUS
<1>1. lines \in Programs /\ cursor \in 0 .. Len(lines) /\ CountInv' /\ TableInv
  BY CountStep DEF TypeInv, CountInv
<1>2. address \in Nat
  BY CountsInRange DEF TypeInv
<1>3. TableInv'
  BY <1>1, <1>2, TableSteps
<1>4. lines' = lines /\ old' = old
  BY SourceStays
<1>5. pool' \in Seq(Int)
  <2>1. CASE AssembleLiteralLoad
    <3>1. IsTokenized(line.token) /\ line.token.opcode \in TransferOps /\ UsesPool(line.token)
      BY <1>1, <2>1, LineRead DEF AssembleLiteralLoad, Assembling, IsLine
    <3>2. number(line.token.operands[2]) \in Int
      BY <3>1 DEF IsTokenized, UsesPool
    <3>. QED  BY <2>1, <3>2 DEF AssembleLiteralLoad, TypeInv
  <2>2. CASE ~AssembleLiteralLoad
    <3>1. pool' = pool
      BY <2>2 DEF Next, vars, EnterLabel, CountInstruction, StartSecondPass, SkipLabel,
         AssembleDataProcessing, AssembleMultiply, AssembleTransfer,
         OverflowPool, AssembleBranch, CrashInLookup, AssembleSpecial, RefuseMnemonic,
         FinishSecondPass, WritePool
    <3>. QED  BY <3>1 DEF TypeInv
  <2>. QED  BY <2>1, <2>2
<1>6. file' \in Seq(Words)
  <2>1. CASE \/ AssembleDataProcessing \/ AssembleMultiply \/ AssembleTransfer
             \/ AssembleLiteralLoad \/ AssembleBranch \/ AssembleSpecial
    <3>1. PICK word \in Words \cup {EXIT} : Write(word)
      BY <1>1, <2>1, EncodedWord
    <3>2. file' = file \/ (word # EXIT /\ file' = Append(file, word))
      BY <3>1 DEF Write
    <3>3. CASE word # EXIT /\ file' = Append(file, word)
      <4>1. word \in Words
        BY <3>3
      <4>. QED  BY <3>3, <4>1, AppendProperties DEF TypeInv
    <3>. QED  BY <3>2, <3>3 DEF TypeInv
  <2>2. CASE WritePool
    <3>. DEFINE words == [k \in 1 .. Len(pool) |-> Bits(pool[k])]
    <3>1. Len(pool) \in Nat
      BY DEF TypeInv
    <3>2. \A k \in 1 .. Len(pool) : Bits(pool[k]) \in Words
      BY BitsType DEF Words
    <3>3. words \in Seq(Words)
      BY <3>1, <3>2, IsASeq
    <3>4. file' = file \o words
      BY <2>2 DEF WritePool
    <3>. HIDE DEF words
    <3>. QED  BY <3>3, <3>4, ConcatProperties DEF TypeInv
  <2>3. CASE ~ \/ AssembleDataProcessing \/ AssembleMultiply \/ AssembleTransfer
               \/ AssembleLiteralLoad \/ AssembleBranch \/ AssembleSpecial \/ WritePool
    <3>1. file' = file
      BY <2>3 DEF Next, vars, EnterLabel, CountInstruction, StartSecondPass, SkipLabel,
         OverflowPool, CrashInLookup, RefuseMnemonic, FinishSecondPass
    <3>. QED  BY <3>1 DEF TypeInv
  <2>. QED  BY <2>1, <2>2, <2>3
<1>. QED  BY <1>1, <1>3, <1>4, <1>5, <1>6 DEF TypeInv

\* The counts never pass the number of lines, the file holds only words, and
\* the pool only numbers, whatever the source file.
THEOREM AssemblerType == Spec => []TypeOK
<1>1. TypeInv => TypeOK
  <2>. SUFFICES ASSUME TypeInv PROVE TypeOK
    OBVIOUS
  <2>1. Len(lines) \in Nat /\ cursor \in 0 .. Len(lines) /\ phase \in Phase
    BY DEF TypeInv, CountInv
  <2>2. address \in 0 .. Len(lines) /\ calling_address \in 0 .. address
    BY <2>1, CountsInRange DEF TypeInv
  <2>3. Table!TypeOK
    BY SameTable DEF TypeInv, TableInv, Known!TableInv
  <2>. QED  BY <2>1, <2>2, <2>3 DEF TypeInv, TypeOK, Words
<1>. QED  BY <1>1, InitTyped, TypeStep, PTL DEF Spec

(***************************************************************************)
(* What is written stays, and where it lies                                *)
(***************************************************************************)
Encodes ==
  \/ AssembleDataProcessing \/ AssembleMultiply \/ AssembleTransfer
  \/ AssembleLiteralLoad \/ AssembleBranch \/ AssembleSpecial

LEMMA AssembledPlace ==
  ASSUME TypeInv, NEW l \in 1 .. Len(lines), Assembled(l)
  PROVE  /\ InstructionsBefore(l) \in Nat /\ InstructionsBefore(l) < address
         /\ Len(old) + InstructionsBefore(l) + 1 \in 1 .. Len(file)
         /\ phase # "first"
<1>1. Len(lines) \in Nat /\ l \in Nat /\ 0 < l /\ l <= l /\ Len(old) \in Nat
  BY DEF TypeInv, CountInv
<1>2. InstructionsBefore(l) \in Nat
  BY <1>1, MoreInstructions
<1>3. calling_address \in 0 .. address /\ address \in Nat
  BY CountsInRange DEF TypeInv
<1>4. /\ phase \in Phase
      /\ phase = "first" => calling_address = 0
      /\ phase \in {"second", "failed", "undefined", "pool"} =>
           Len(file) = Len(old) + calling_address
      /\ phase = "done" => calling_address = address /\ Len(file) = Len(old) + address + Len(pool)
      /\ Len(pool) \in Nat
  BY DEF TypeInv, CountInv, LengthsAgree
<1>. QED  BY <1>1, <1>2, <1>3, <1>4 DEF Assembled, Phase

LEMMA FileGrows ==
  ASSUME TypeInv, [Next]_vars, NEW i \in 1 .. Len(file)
  PROVE  file'[i] = file[i]
<1>1. file \in Seq(Words) /\ pool \in Seq(Int) /\ Len(pool) \in Nat
  BY DEF TypeInv
<1>2. CASE Encodes
  <2>1. PICK word \in Words \cup {EXIT} : Write(word)
    BY <1>2, EncodedWord DEF Encodes, TypeInv, CountInv
  <2>2. file' = file \/ (word # EXIT /\ file' = Append(file, word))
    BY <2>1 DEF Write
  <2>3. CASE word # EXIT /\ file' = Append(file, word)
    <3>1. word \in Words
      BY <2>3
    <3>. QED  BY <1>1, <2>3, <3>1, AppendProperties
  <2>. QED  BY <2>2, <2>3
<1>3. CASE WritePool
  <2>. DEFINE words == [k \in 1 .. Len(pool) |-> Bits(pool[k])]
  <2>1. words \in Seq(Words)
    BY <1>1, BitsType, IsASeq DEF Words
  <2>2. file' = file \o words
    BY <1>3 DEF WritePool
  <2>. HIDE DEF words
  <2>. QED  BY <1>1, <2>1, <2>2, ConcatProperties
<1>4. CASE ~(Encodes \/ WritePool)
  BY <1>4 DEF Encodes, Next, vars, EnterLabel, CountInstruction, StartSecondPass, SkipLabel,
              OverflowPool, CrashInLookup, RefuseMnemonic, FinishSecondPass
<1>. QED  BY <1>2, <1>3, <1>4

\* The words of the lines behind are as they were written; one more line is
\* assembled when its encoder writes a word.
LEMMA NewWord ==
  ASSUME TypeInv, [Next]_vars, NEW l \in 1 .. Len(lines), Assembled(l)'
  PROVE  \/ Assembled(l) /\ Word(l)' = Word(l)
         \/ /\ Encodes /\ ~Assembled(l)
            /\ line = lines[l] /\ calling_address = InstructionsBefore(l)
            /\ \A word : Write(word) => Word(l)' = word
<1>1. /\ lines' = lines /\ old' = old
      /\ InstructionsBefore(l)' = InstructionsBefore(l)
      /\ IsInstruction(l)' = IsInstruction(l)
  BY SourceStays, CountStays DEF IsInstruction
<1>2. CASE Assembled(l)
  BY <1>1, <1>2, AssembledPlace, FileGrows DEF Word
<1>3. CASE ~Assembled(l)
  <2>1. calling_address' # calling_address
    BY <1>1, <1>3 DEF Assembled
  <2>2. Encodes
    BY <2>1 DEF Encodes, Next, vars, EnterLabel, CountInstruction, StartSecondPass, SkipLabel,
                OverflowPool, CrashInLookup, RefuseMnemonic, FinishSecondPass, WritePool
  <2>3. phase = "second" /\ MoreLines /\ IsInstruction(cursor + 1)
    BY <2>2 DEF Encodes, AssembleDataProcessing, AssembleMultiply, AssembleTransfer,
                AssembleLiteralLoad, AssembleBranch, AssembleSpecial, Assembling, line,
                IsInstruction
  <2>4. /\ Len(lines) \in Nat /\ cursor \in 0 .. Len(lines) /\ cursor < Len(lines)
        /\ calling_address = InstructionsBefore(cursor + 1) /\ Len(old) \in Nat
        /\ Len(file) = Len(old) + calling_address /\ calling_address \in Nat
        /\ file \in Seq(Words)
    BY <2>3 DEF TypeInv, CountInv, LengthsAgree, MoreLines
  <2>5. \A word : Write(word) => /\ word # EXIT /\ file' = Append(file, word)
                                 /\ calling_address' = calling_address + 1
    BY <2>1 DEF Write
  <2>6. PICK word \in Words \cup {EXIT} : Write(word)
    BY <2>2, EncodedWord DEF Encodes, TypeInv, CountInv
  <2>7. word \in Words /\ file' = Append(file, word) /\ calling_address' = calling_address + 1
    BY <2>5, <2>6
  <2>8. /\ l \in Nat /\ 0 < l /\ cursor + 1 \in Nat /\ 0 < cursor + 1
        /\ InstructionsBefore(l) \in Nat
    BY <2>4, MoreInstructions
  <2>9. InstructionsBefore(l) = InstructionsBefore(cursor + 1) /\ IsInstruction(l)
    BY <1>1, <1>3, <2>4, <2>7, <2>8 DEF Assembled
  <2>10. l = cursor + 1
    <3>1. ~(l < cursor + 1)
      BY <2>4, <2>8, <2>9, MoreInstructions
    <3>2. ~(cursor + 1 < l)
      BY <2>3, <2>4, <2>8, <2>9, MoreInstructions
    <3>. QED  BY <2>8, <3>1, <3>2
  <2>11. \A w : Write(w) => Word(l)' = w
    <3>. SUFFICES ASSUME NEW w, Write(w) PROVE Word(l)' = w
      OBVIOUS
    <3>1. file' = Append(file, w)
      BY <2>5
    <3>2. file \in Seq(Words \cup {w}) /\ w \in Words \cup {w}
      BY <2>4, SeqMonotonic
    <3>3. file'[Len(file) + 1] = w
      BY <3>1, <3>2, AppendProperties
    <3>4. Len(old) + InstructionsBefore(l) + 1 = Len(file) + 1
      BY <2>4, <2>9
    <3>. QED  BY <1>1, <3>3, <3>4 DEF Word
  <2>. QED  BY <1>3, <2>2, <2>4, <2>9, <2>10, <2>11 DEF line
<1>. QED  BY <1>2, <1>3

(***************************************************************************)
(* Labels                                                                  *)
(***************************************************************************)
DefinedBy(n, name) == {l \in 1 .. n : Defines(l, name)}

\* What the symbol table holds of a label after n lines.
EnteredAddress(n, name) ==
  IF DefinedBy(n, name) = {} THEN Table!ABSENT
                             ELSE 4 * InstructionsBefore(Max(DefinedBy(n, name)))

LinesRead == IF phase = "first" THEN cursor ELSE Len(lines)

LabelsEntered == \A s \in Symbols : last[s] = EnteredAddress(LinesRead, s)

LEMMA MaxOfLines ==
  ASSUME NEW n \in Nat, NEW D \in SUBSET (1 .. n), D # {}
  PROVE  Max(D) \in D
<1>. DEFINE Above == {k \in Nat : \A x \in D : x <= k}
<1>1. n \in Above
  OBVIOUS
<1>2. PICK k \in Above : \A j \in Above : ~(j < k)
  BY <1>1, LeastNatural
<1>3. k \in D
  <2>. SUFFICES ASSUME k \notin D PROVE FALSE
    OBVIOUS
  <2>1. PICK x \in D : TRUE
    OBVIOUS
  <2>2. x \in Nat /\ 0 < x /\ x <= k
    BY <1>2
  <2>3. \A y \in D : y <= k - 1
    BY <1>2
  <2>4. k - 1 \in Above
    BY <2>2, <2>3
  <2>. QED  BY <1>2, <2>4
<1>4. \A y \in D : k >= y
  BY <1>2
<1>. QED  BY <1>3, <1>4 DEF Max

LEMMA MaxOfOneMore ==
  ASSUME NEW n \in Nat, NEW D \in SUBSET (1 .. n)
  PROVE  Max(D \cup {n + 1}) = n + 1
<1>. DEFINE E == D \cup {n + 1}
<1>1. /\ n + 1 \in E /\ \A y \in E : n + 1 >= y
      /\ \A x \in E : (\A y \in E : x >= y) => x = n + 1
  OBVIOUS
<1>. HIDE DEF E
<1>2. Max(E) = n + 1
  BY <1>1 DEF Max
<1>. QED  BY <1>2 DEF E

\* One more line is a label's definition, or leaves what is entered of it.
LEMMA OneMoreLine ==
  ASSUME NEW n \in Nat, NEW name
  PROVE  EnteredAddress(n + 1, name) =
           IF Defines(n + 1, name) THEN 4 * InstructionsBefore(n + 1)
                                   ELSE EnteredAddress(n, name)
<1>1. 1 .. n + 1 = (1 .. n) \cup {n + 1}
  OBVIOUS
<1>2. DefinedBy(n + 1, name) =
        IF Defines(n + 1, name) THEN DefinedBy(n, name) \cup {n + 1} ELSE DefinedBy(n, name)
  BY <1>1 DEF DefinedBy
<1>3. DefinedBy(n, name) \in SUBSET (1 .. n)
  BY DEF DefinedBy
<1>4. CASE Defines(n + 1, name)
  BY <1>2, <1>3, <1>4, MaxOfOneMore DEF EnteredAddress
<1>5. CASE ~Defines(n + 1, name)
  BY <1>2, <1>5 DEF EnteredAddress
<1>. QED  BY <1>4, <1>5

LEMMA LabelsStep == TypeInv /\ LabelsEntered /\ [Next]_vars => LabelsEntered'
<1>. SUFFICES ASSUME TypeInv, LabelsEntered, [Next]_vars, NEW s \in Symbols
              PROVE  last'[s] = EnteredAddress(LinesRead, s)'
  BY DEF LabelsEntered
<1>1. lines' = lines /\ \A l : InstructionsBefore(l)' = InstructionsBefore(l)
  BY SourceStays, CountStays
<1>2. EnteredAddress(LinesRead, s)' = EnteredAddress(LinesRead', s)
  BY <1>1 DEF EnteredAddress, DefinedBy, Defines, InstructionsBefore, IsInstruction, Table!ABSENT
<1>3. /\ Len(lines) \in Nat /\ cursor \in 0 .. Len(lines) /\ address \in Nat
      /\ lines \in Programs /\ TableInv
      /\ phase = "first" => address = InstructionsBefore(cursor + 1)
      /\ last \in [Symbols -> Nat \cup {Known!ABSENT}]
  BY CountsInRange DEF TypeInv, CountInv, TableInv, Known!TableInv, Known!TypeOK
<1>4. last' = IF EnterLabel THEN [last EXCEPT ![line.name] = 4 * address] ELSE last
  BY <1>3, TableSteps
<1>5. last[s] = EnteredAddress(LinesRead, s)
  BY DEF LabelsEntered
<1>6. CASE EnterLabel \/ CountInstruction
  <2>1. /\ LinesRead = cursor /\ LinesRead' = cursor + 1
        /\ address = InstructionsBefore(cursor + 1)
        /\ EnterLabel <=> line.kind = "label"
    BY <1>1, <1>3, <1>6 DEF EnterLabel, CountInstruction, NextLine, LinesRead
  <2>2. Defines(cursor + 1, s) <=> EnterLabel /\ line.name = s
    BY <2>1 DEF Defines, line
  <2>3. EnteredAddress(LinesRead', s) =
          IF Defines(cursor + 1, s) THEN 4 * InstructionsBefore(cursor + 1)
                                    ELSE EnteredAddress(cursor, s)
    <3>1. cursor \in Nat
      BY <1>3
    <3>2. EnteredAddress(cursor + 1, s) =
            IF Defines(cursor + 1, s) THEN 4 * InstructionsBefore(cursor + 1)
                                      ELSE EnteredAddress(cursor, s)
      BY <3>1, OneMoreLine
    <3>. QED  BY <2>1, <3>2
  <2>. QED  BY <1>2, <1>3, <1>4, <1>5, <2>1, <2>2, <2>3
<1>7. CASE ~(EnterLabel \/ CountInstruction)
  <2>1. LinesRead' = LinesRead
    BY <1>1, <1>3, <1>7 DEF Next, vars, LinesRead, StartSecondPass, MoreLines, SkipLabel,
         AssembleDataProcessing, AssembleMultiply, AssembleTransfer, AssembleLiteralLoad,
         OverflowPool, AssembleBranch, CrashInLookup, AssembleSpecial, RefuseMnemonic,
         FinishSecondPass, WritePool, Write, Assembling
  <2>. QED  BY <1>2, <1>4, <1>5, <1>7, <2>1
<1>. QED  BY <1>6, <1>7

LEMMA InitLabels == Init => LabelsEntered
<1>. SUFFICES ASSUME Init, NEW s \in Symbols PROVE last[s] = EnteredAddress(LinesRead, s)
  BY DEF LabelsEntered
<1>1. LinesRead = 0 /\ last[s] = Table!ABSENT
  BY DEF Init, Table!Init, LinesRead
<1>2. DefinedBy(0, s) = {}
  BY DEF DefinedBy
<1>. QED  BY <1>1, <1>2 DEF EnteredAddress

(***************************************************************************)
(* Branches                                                                *)
(***************************************************************************)
\* Every branch to a label was encoded with the label's address.
BranchWords ==
  \A l \in 1 .. Len(lines) :
    Assembled(l) /\ Uses(l, BranchOps) /\ Defined(BranchName(l)) # {} =>
      Word(l) = assemble_branch(lines[l].token, LabelAddress(BranchName(l)),
                                InstructionsBefore(l))

\* The instruction line a label stands before.
LEMMA LabelPlace ==
  ASSUME Len(lines) \in Nat, NEW name, Defined(name) # {}
  PROVE  /\ Max(Defined(name)) \in 1 .. Len(lines)
         /\ InstructionsBefore(Max(Defined(name))) \in Nat
         /\ LabelAddress(name) = EnteredAddress(Len(lines), name)
<1>1. Defined(name) \in SUBSET (1 .. Len(lines)) /\ Defined(name) = DefinedBy(Len(lines), name)
  BY DEF Defined, DefinedBy
<1>2. Max(Defined(name)) \in 1 .. Len(lines)
  BY <1>1, MaxOfLines
<1>3. InstructionsBefore(Max(Defined(name))) \in Nat
  BY <1>2, CountLine
<1>. QED  BY <1>1, <1>2, <1>3 DEF LabelAddress, EnteredAddress

LEMMA BranchStep ==
  TypeInv /\ LabelsEntered /\ BranchWords /\ [Next]_vars => BranchWords'
<1>. SUFFICES ASSUME TypeInv, LabelsEntered, BranchWords, [Next]_vars PROVE BranchWords'
  OBVIOUS
<1>1. lines' = lines /\ \A l : InstructionsBefore(l)' = InstructionsBefore(l)
  BY SourceStays, CountStays
<1>. SUFFICES ASSUME NEW l \in 1 .. Len(lines), Assembled(l)', Uses(l, BranchOps),
                     Defined(BranchName(l)) # {}
              PROVE  Word(l)' = assemble_branch(lines[l].token, LabelAddress(BranchName(l)),
                                                InstructionsBefore(l))
  BY <1>1 DEF BranchWords, Uses, BranchName, LabelAddress, Defined, Defines
<1>2. CASE Assembled(l) /\ Word(l)' = Word(l)
  BY <1>2 DEF BranchWords
<1>3. CASE /\ Encodes /\ line = lines[l] /\ calling_address = InstructionsBefore(l)
           /\ \A word : Write(word) => Word(l)' = word
  <2>1. AssembleBranch
    BY <1>3 DEF Uses, Encodes, AssembleDataProcessing, AssembleMultiply, AssembleTransfer,
                AssembleLiteralLoad, AssembleSpecial, Assembling,
                DataOps, MultiplyOps, TransferOps, BranchOps, SpecialOps, OpcodeBits, CondBits
  <2>2. /\ Table!Lookup(BranchName(l)) /\ ~crashed' /\ phase = "second"
        /\ Target.name = BranchName(l)
    BY <1>3, <2>1 DEF AssembleBranch, Assembling, BranchName, Target
  <2>3. BranchName(l) \in Symbols
    BY <1>3, <2>1, LineRead DEF TypeInv, CountInv, AssembleBranch, Assembling, IsLine,
         IsTokenized, BranchName
  <2>4. answer' = last[BranchName(l)]
    BY <2>2, <2>3, LookupKeeps DEF TypeInv
  <2>5. answer' = LabelAddress(BranchName(l)) /\ LabelAddress(BranchName(l)) \in Nat
    BY <2>2, <2>3, <2>4, LabelPlace DEF LabelsEntered, LinesRead, TypeInv, CountInv, LabelAddress
  <2>6. answer' # Table!ABSENT
    BY <2>5 DEF Table!ABSENT
  <2>. QED  BY <1>3, <2>1, <2>5, <2>6 DEF AssembleBranch
<1>. QED  BY <1>2, <1>3, NewWord

(***************************************************************************)
(* Literals                                                                *)
(***************************************************************************)
\* The literal of line l is the k-th of the pool, and its load says so.
LoadsLiteral(l, k) ==
  /\ pool[k] = number(lines[l].token.operands[2])
  /\ Word(l) = assemble_single_data_transfer(lines[l].token, InstructionsBefore(l), address, k - 1)

\* The pool never holds more than its array, every load found its place in it,
\* and the words behind the program are the pool's.
LiteralWords ==
  /\ Len(pool) <= PoolLimit
  /\ \A l \in 1 .. Len(lines) :
       Assembled(l) /\ Uses(l, {"ldr"}) /\ UsesPool(lines[l].token) =>
         \E k \in 1 .. Len(pool) : LoadsLiteral(l, k)
  /\ phase = "done" =>
       \A k \in 1 .. Len(pool) : file[Len(old) + address + k] = Bits(pool[k])

\* The pool only grows, by the literal of the line that is assembled.
LEMMA PoolGrows ==
  ASSUME TypeInv, [Next]_vars, Len(pool) <= PoolLimit
  PROVE  /\ Len(pool') \in Nat /\ Len(pool) \in Nat
         /\ Len(pool) <= Len(pool') /\ Len(pool') <= PoolLimit
         /\ \A k \in 1 .. Len(pool) : pool'[k] = pool[k]
         /\ AssembleLiteralLoad =>
              /\ Len(pool') = Len(pool) + 1
              /\ pool'[Len(pool) + 1] = number(line.token.operands[2])
         /\ ~AssembleLiteralLoad => pool' = pool
<1>1. pool \in Seq(Int) /\ pool' \in Seq(Int)
  BY TypeStep DEF TypeInv
<1>2. CASE AssembleLiteralLoad
  <2>1. pool' = Append(pool, number(line.token.operands[2])) /\ Len(pool) < PoolLimit
    BY <1>2 DEF AssembleLiteralLoad
  <2>2. /\ pool \in Seq(Int \cup {number(line.token.operands[2])})
        /\ number(line.token.operands[2]) \in Int \cup {number(line.token.operands[2])}
    BY <1>1, SeqMonotonic
  <2>. QED  BY <1>1, <1>2, <2>1, <2>2, SourcesAssumption, AppendProperties
<1>3. CASE ~AssembleLiteralLoad
  <2>1. pool' = pool
    BY <1>3 DEF Next, vars, EnterLabel, CountInstruction, StartSecondPass, SkipLabel,
         AssembleDataProcessing, AssembleMultiply, AssembleTransfer,
         OverflowPool, AssembleBranch, CrashInLookup, AssembleSpecial, RefuseMnemonic,
         FinishSecondPass, WritePool
  <2>. QED  BY <1>1, <1>3, <2>1
<1>. QED  BY <1>2, <1>3

\* Once an instruction is assembled, the first count stands.
LEMMA AddressStands ==
  ASSUME [Next]_vars, phase # "first"
  PROVE  address' = address /\ phase' # "first"
BY DEF Next, vars, EnterLabel, CountInstruction, StartSecondPass, SkipLabel,
       AssembleDataProcessing, AssembleMultiply, AssembleTransfer, AssembleLiteralLoad,
       OverflowPool, AssembleBranch, CrashInLookup, AssembleSpecial, RefuseMnemonic,
       FinishSecondPass, WritePool, Write, Assembling

LEMMA LiteralStep ==
  TypeInv /\ LiteralWords /\ [Next]_vars => LiteralWords'
<1>. SUFFICES ASSUME TypeInv, LiteralWords, [Next]_vars PROVE LiteralWords'
  OBVIOUS
<1>1. /\ lines' = lines /\ old' = old
      /\ \A l : InstructionsBefore(l)' = InstructionsBefore(l)
  BY SourceStays, CountStays
<1>2. /\ Len(pool') \in Nat /\ Len(pool) \in Nat
      /\ Len(pool) <= Len(pool') /\ Len(pool') <= PoolLimit
      /\ \A k \in 1 .. Len(pool) : pool'[k] = pool[k]
  BY PoolGrows DEF LiteralWords
<1>3. ASSUME NEW l \in 1 .. Len(lines), Assembled(l)', Uses(l, {"ldr"}), UsesPool(lines[l].token)
      PROVE  \E k \in 1 .. Len(pool') : LoadsLiteral(l, k)'
  <2>1. CASE Assembled(l) /\ Word(l)' = Word(l)
    <3>1. PICK k \in 1 .. Len(pool) : LoadsLiteral(l, k)
      BY <1>3, <2>1 DEF LiteralWords
    <3>2. address' = address
      BY <2>1, AssembledPlace, AddressStands
    <3>3. k \in 1 .. Len(pool') /\ pool'[k] = pool[k]
      BY <1>2
    <3>. QED  BY <1>1, <2>1, <3>1, <3>2, <3>3 DEF LoadsLiteral
  <2>2. CASE /\ Encodes /\ line = lines[l] /\ calling_address = InstructionsBefore(l)
             /\ \A word : Write(word) => Word(l)' = word
    <3>1. AssembleLiteralLoad
      BY <1>3, <2>2 DEF Uses, Encodes, AssembleDataProcessing, AssembleMultiply, AssembleTransfer,
                  AssembleBranch, AssembleSpecial, Assembling,
                  DataOps, MultiplyOps, TransferOps, BranchOps, SpecialOps, OpcodeBits, CondBits
    <3>2. /\ Len(pool') = Len(pool) + 1
          /\ pool'[Len(pool) + 1] = number(line.token.operands[2])
      BY <3>1, PoolGrows DEF LiteralWords
    <3>3. phase = "second" /\ Write(Transfer)
      BY <3>1 DEF AssembleLiteralLoad, Assembling
    <3>4. address' = address
      BY <3>3, AddressStands
    <3>5. Word(l)' = assemble_single_data_transfer(lines[l].token, InstructionsBefore(l), address,
                                                   Len(pool))
      BY <2>2, <3>3 DEF Transfer
    <3>6. PICK k \in 1 .. Len(pool') : k = Len(pool) + 1
      BY <1>2, <3>2
    <3>7. LoadsLiteral(l, k)'
      BY <1>1, <1>2, <2>2, <3>2, <3>4, <3>5, <3>6 DEF LoadsLiteral
    <3>. QED  BY <3>7
  <2>. QED  BY <1>3, <2>1, <2>2, NewWord
<1>4. ASSUME phase' = "done", NEW k \in 1 .. Len(pool')
      PROVE  file'[Len(old) + address' + k] = Bits(pool'[k])
  <2>1. file \in Seq(Words) /\ Len(old) \in Nat /\ address \in Nat
    BY CountsInRange DEF TypeInv
  <2>2. CASE phase = "done"
    <3>1. pool' = pool /\ address' = address /\ file' = file
      BY <2>2 DEF Next, vars, EnterLabel, CountInstruction, StartSecondPass, SkipLabel,
         AssembleDataProcessing, AssembleMultiply, AssembleTransfer, AssembleLiteralLoad,
         OverflowPool, AssembleBranch, CrashInLookup, AssembleSpecial, RefuseMnemonic,
         FinishSecondPass, WritePool, Assembling
    <3>. QED  BY <2>2, <3>1 DEF LiteralWords
  <2>3. CASE phase # "done"
    <3>1. WritePool
      BY <1>4, <2>3 DEF Next, vars, EnterLabel, CountInstruction, StartSecondPass, SkipLabel,
         AssembleDataProcessing, AssembleMultiply, AssembleTransfer, AssembleLiteralLoad,
         OverflowPool, AssembleBranch, CrashInLookup, AssembleSpecial, RefuseMnemonic,
         FinishSecondPass, Write, Assembling
    <3>2. /\ pool' = pool /\ address' = address /\ Len(file) = Len(old) + address
      BY <3>1 DEF WritePool, TypeInv, CountInv, LengthsAgree
    <3>. DEFINE words == [i \in 1 .. Len(pool) |-> Bits(pool[i])]
    <3>3. words \in Seq(Words) /\ Len(words) = Len(pool) /\ words[k] = Bits(pool[k])
      BY <1>2, <3>2, BitsType, IsASeq DEF Words, TypeInv
    <3>4. file' = file \o words
      BY <3>1 DEF WritePool
    <3>. HIDE DEF words
    <3>5. file'[Len(file) + k] = words[k]
      BY <1>2, <2>1, <3>2, <3>3, <3>4, ConcatProperties
    <3>. QED  BY <3>2, <3>3, <3>5
  <2>. QED  BY <2>2, <2>3
<1>. QED  BY <1>1, <1>2, <1>3, <1>4 DEF LiteralWords, Uses

LEMMA InitWords == Init => BranchWords /\ LiteralWords
<1>. SUFFICES ASSUME Init PROVE BranchWords /\ LiteralWords
  OBVIOUS
<1>1. \A l \in 1 .. Len(lines) : ~Assembled(l)
  BY InitTyped, AssembledPlace DEF Init
<1>. QED  BY <1>1, SourcesAssumption DEF Init, BranchWords, LiteralWords

(***************************************************************************)
(* What the emulator finds                                                 *)
(***************************************************************************)
EncodedInv == TypeInv /\ LabelsEntered /\ BranchWords /\ LiteralWords

LEMMA EncodedAlways == Spec => []EncodedInv
<1>1. Init => EncodedInv
  BY InitTyped, InitLabels, InitWords DEF EncodedInv
<1>2. EncodedInv /\ [Next]_vars => EncodedInv'
  BY TypeStep, LabelsStep, BranchStep, LiteralStep DEF EncodedInv
<1>. QED  BY <1>1, <1>2, PTL DEF Spec

\* The 24 bits of a branch, in words, reach over the program.
BranchesFit == \A p \in Programs : Len(p) + 2 <= 2 ^ 23

\* Every branch back to a label goes to the label's last definition, in every
\* source file short enough for the offset's field.
THEOREM BranchesGoBack ==
  ASSUME BranchesFit
  PROVE  Spec => []BackwardBranchesHit
<1>1. EncodedInv => BackwardBranchesHit
  <2>. SUFFICES ASSUME EncodedInv, NEW l \in 1 .. Len(lines), Assembled(l), Uses(l, BranchOps),
                       Defined(BranchName(l)) # {},
                       LabelAddress(BranchName(l)) <= 4 * InstructionsBefore(l)
                PROVE  BranchHits(l)
    BY DEF BackwardBranchesHit
  <2>. DEFINE t == lines[l].token
              pc == InstructionsBefore(l)
              j == InstructionsBefore(Max(Defined(BranchName(l))))
  <2>1. Word(l) = assemble_branch(t, LabelAddress(BranchName(l)), pc)
    BY DEF EncodedInv, BranchWords
  <2>2. LabelAddress(BranchName(l)) = 4 * j /\ j \in Nat
    BY LabelPlace DEF EncodedInv, TypeInv, CountInv, LabelAddress
  <2>3. pc \in Nat /\ pc < address /\ address <= Len(lines) /\ address \in Nat
    BY AssembledPlace, CountsInRange DEF EncodedInv, TypeInv
  <2>4. Len(lines) \in Nat /\ Len(lines) + 2 <= 2 ^ 23 /\ t.opcode \in BranchOps
    BY BranchesFit DEF BranchesFit, EncodedInv, TypeInv, CountInv, Uses
  <2>. HIDE DEF t, pc, j
  <2>5. 4 * j <= 4 * pc
    BY <2>2 DEF pc
  <2>6. j \in 0 .. pc /\ pc + 2 - j <= 2 ^ 23
    BY <2>2, <2>3, <2>4, <2>5
  <2>7. LET word == decode(assemble_branch(t, 4 * j, pc))
        IN  /\ word.type = "BRANCH"
            /\ word.cond = CondBits[t.opcode]
            /\ word.offset = 4 * j - 4 * pc - 8
    BY <2>3, <2>4, <2>6, BackwardBranchDecodes
  <2>8. 4 * pc + 8 + (4 * j - 4 * pc - 8) = 4 * j
    BY <2>2, <2>3
  <2>. QED  BY <2>1, <2>2, <2>7, <2>8 DEF BranchHits, BranchTarget, t, pc
<1>. QED  BY <1>1, EncodedAlways, PTL

\* The 12 bits of a load's offset, in bytes, reach over program and pool.
OffsetsFit == \A p \in Programs : Len(p) + PoolLimit <= 1026

\* Every load of a literal finds it behind the program, in every source file
\* that is short enough, together with the pool, for the offset's field.
THEOREM LiteralsAreReached ==
  ASSUME OffsetsFit
  PROVE  Spec => []LiteralsReached
<1>1. EncodedInv => LiteralsReached
  <2>. SUFFICES ASSUME EncodedInv, phase = "done", NEW l \in 1 .. Len(lines),
                       Uses(l, {"ldr"}), UsesPool(lines[l].token),
                       InstructionsBefore(l) < address - 1
                PROVE  LiteralLoadHits(l)
    BY DEF LiteralsReached
  <2>. DEFINE t == lines[l].token
              pc == InstructionsBefore(l)
              word == decode(Word(l))
  <2>1. Assembled(l)
    <3>1. /\ calling_address = address /\ address \in Nat
          /\ l \in Nat /\ l # 0
      BY CountsInRange DEF EncodedInv, TypeInv, CountInv
    <3>2. InstructionsBefore(l) \in Nat
      BY <3>1, CountLine
    <3>. QED  BY <3>1, <3>2 DEF Assembled, IsInstruction, Uses
  <2>2. PICK k \in 1 .. Len(pool) : LoadsLiteral(l, k)
    BY <2>1 DEF EncodedInv, LiteralWords
  <2>3. /\ pc \in Nat /\ address \in Nat /\ address <= Len(lines) /\ pc + 1 < address
        /\ Len(lines) \in Nat /\ Len(old) \in Nat /\ Len(pool) \in Nat
    <3>1. TypeInv /\ CountInv
      BY DEF EncodedInv, TypeInv
    <3>2. pc \in Nat
      BY <2>1, <3>1, AssembledPlace
    <3>3. address \in Nat /\ address <= Len(lines)
      BY <3>1, CountsInRange
    <3>4. Len(lines) \in Nat /\ Len(old) \in Nat /\ Len(pool) \in Nat
      BY <3>1 DEF TypeInv, CountInv
    <3>. QED  BY <3>2, <3>3, <3>4
  <2>4. Len(file) = Len(old) + address + Len(pool) /\ file \in Seq(Words)
    BY DEF EncodedInv, TypeInv, CountInv
  <2>5. /\ Len(lines) + PoolLimit <= 1026 /\ Len(pool) <= PoolLimit /\ PoolLimit \in Nat
        /\ IsLine(lines[l])
    BY OffsetsFit, SourcesAssumption DEF OffsetsFit, EncodedInv, TypeInv, LiteralWords
  <2>6. number(t.operands[1]) \in 0 .. 15
    BY <2>5 DEF IsLine, IsTokenized, Uses, TransferOps
  <2>7. k \in Nat /\ k - 1 \in Nat /\ address - pc + (k - 1) <= 1025
    BY <2>3, <2>5
  <2>. HIDE DEF pc
  <2>8. /\ word.type = "TRANSFER" /\ word.l /\ word.p /\ word.u /\ word.rn = 15
        /\ word.rd = number(t.operands[1])
        /\ Value(word.offset.ones) = 4 * (address - pc + (k - 1)) - 8
    <3>1. word = decode(assemble_single_data_transfer(t, pc, address, k - 1))
      BY <2>2 DEF LoadsLiteral, pc
    <3>2. UsesPool(t)
      OBVIOUS
    <3>. HIDE DEF word, t
    <3>3. pc \in Nat /\ address \in Nat /\ k - 1 \in Nat /\ pc + 1 < address
      BY <2>3, <2>7
    <3>4. LET w == decode(assemble_single_data_transfer(t, pc, address, k - 1))
          IN  /\ w.type = "TRANSFER" /\ w.l /\ w.p /\ w.u /\ w.rn = 15
              /\ w.rd = number(t.operands[1])
              /\ Value(w.offset.ones) = 4 * (address - pc + (k - 1)) - 8
      BY <2>6, <2>7, <3>2, <3>3, PoolLoadDecodes
    <3>. QED  BY <3>1, <3>4
  <2>. HIDE DEF word
  <2>9. LiteralAddress(l) = 4 * (address + (k - 1))
    <3>1. LiteralAddress(l) = 4 * pc + 8 + Value(word.offset.ones)
      BY DEF LiteralAddress, word, pc
    <3>2. 4 * pc + 8 + (4 * (address - pc + (k - 1)) - 8) = 4 * (address + (k - 1))
      BY <2>3, <2>7
    <3>. QED  BY <2>8, <3>1, <3>2
  <2>10. LiteralAddress(l) \div 4 = address + (k - 1)
    BY <2>3, <2>7, <2>9
  <2>11. Len(old) + LiteralAddress(l) \div 4 + 1 = Len(old) + address + k
    BY <2>3, <2>7, <2>10
  <2>12. Len(old) + address + k \in DOMAIN file
    BY <2>3, <2>4
  <2>13. file[Len(old) + address + k] = Bits(number(t.operands[2]))
    BY <2>2 DEF EncodedInv, LiteralWords, LoadsLiteral
  <2>. QED  BY <2>8, <2>11, <2>12, <2>13 DEF LiteralLoadHits, LoadedAt, word, number
<1>. QED  BY <1>1, EncodedAlways, PTL
==============================================================================
