---------------------------- MODULE ProcessorLemmas ----------------------------
(***************************************************************************)
(* What the operators of Processor return: every instruction leaves a      *)
(* processor of the right type, whatever the width of a word, the size of  *)
(* memory and the instruction table.                                       *)
(***************************************************************************)
EXTENDS Processor, NaturalsInduction, WellFoundedInduction, TLAPS

(***************************************************************************)
(* Words and bytes                                                         *)
(***************************************************************************)
\* The table of powers is positive at every width the code shifts by.
LEMMA Pow2Positive ==
  /\ WordBits \in Nat \ {0}
  /\ WordSize \in Nat \ {0}
  /\ ByteSize \in Nat \ {0}
  /\ \A n \in 0 .. WordBits : Pow2[n] \in Nat \ {0}
<1>1. CharBit \in Nat \ {0} /\ WordBits \in Nat \ {0}
  BY WidthAssumption DEF WordBits, BYTES_PER_INSTRUCTION
<1>2. CharBit \in 0 .. WordBits /\ WordBits \in 0 .. WordBits
  BY <1>1 DEF WordBits, BYTES_PER_INSTRUCTION
<1>. QED  BY <1>1, <1>2, WidthAssumption DEF WordSize, ByteSize

\* uint32_t arithmetic stays within a word.
LEMMA ToWordType == \A x \in Int : ToWord(x) \in Word
BY Pow2Positive, Z3 DEF ToWord, Word

\* The remainder by a byte's size is a byte.
LEMMA ByteRemainder == \A x \in Int : x % ByteSize \in Byte
BY Pow2Positive, Z3 DEF Byte

\* A word is a natural number.
LEMMA WordIsNat ==
  /\ \A w \in Word : w \in Nat
  /\ \A b \in Byte : b \in Nat
  /\ 0 \in Word /\ 0 \in Byte
BY Pow2Positive DEF Word, Byte

\* A remainder is the only one in its range.
LEMMA RemainderIsUnique ==
  ASSUME NEW n \in Nat \ {0}, NEW x \in Int, NEW q \in Int, NEW r \in 0 .. n - 1,
         x = n * q + r
  PROVE  x % n = r
<1>. DEFINE d == x \div n
            e == x % n
<1>1. d \in Int /\ e \in 0 .. n - 1 /\ x = n * d + e
  BY Z3
<1>. HIDE DEF d, e
<1>2. n * (q - d) = e - r
  BY <1>1
<1>3. q - d = 0
  <2>1. CASE q - d >= 1
    <3>1. n * (q - d) >= n
      BY <2>1, <1>1
    <3>. QED  BY <3>1, <1>1, <1>2
  <2>2. CASE q - d <= -1
    <3>1. n * (q - d) <= -n
      BY <2>2, <1>1
    <3>. QED  BY <3>1, <1>1, <1>2
  <2>. QED  BY <2>1, <2>2, <1>1
<1>. QED  BY <1>1, <1>2, <1>3 DEF e

\* Reducing an intermediate result changes nothing.
LEMMA ToWordSum ==
  ASSUME NEW x \in Int, NEW y \in Int
  PROVE  ToWord(ToWord(x) + y) = ToWord(x + y)
<1>. DEFINE n == WordSize
            d == x \div n
            e == x % n
            f == (e + y) \div n
            g == (e + y) % n
<1>1. n \in Nat \ {0}
  BY Pow2Positive
<1>. HIDE DEF n
<1>2. d \in Int /\ e \in 0 .. n - 1 /\ x = n * d + e
  BY <1>1, Z3
<1>. HIDE DEF d, e
<1>3. f \in Int /\ g \in 0 .. n - 1 /\ e + y = n * f + g
  BY <1>1, <1>2, Z3
<1>. HIDE DEF f, g
<1>. DEFINE q == d + f
            s == x + y
<1>4. q \in Int /\ s \in Int /\ s = n * q + g
  BY <1>1, <1>2, <1>3
<1>. HIDE DEF q, s
<1>5. s % n = g
  BY <1>1, <1>3, <1>4, RemainderIsUnique
<1>. QED  BY <1>5 DEF ToWord, n, e, g, s

\* A quotient is no greater than its dividend: lsr stays within a word.
LEMMA QuotientBound ==
  ASSUME NEW n \in Nat, NEW m \in Nat \ {0}
  PROVE  n \div m \in 0 .. n
BY Z3

\* A byte of a word starts at one of its bits.
LEMMA ByteBoundary ==
  /\ CharBit \in 0 .. WordBits
  /\ \A k \in 0 .. 3 : k * CharBit \in 0 .. WordBits
<1>1. CharBit \in Nat /\ WordBits = 4 * CharBit
  BY WidthAssumption DEF WordBits, BYTES_PER_INSTRUCTION
<1>2. ASSUME NEW k \in 0 .. 3 PROVE k * CharBit \in 0 .. WordBits
  <2>1. k = 0 \/ k = 1 \/ k = 2 \/ k = 3
    OBVIOUS
  <2>. QED  BY <1>1, <2>1
<1>. QED  BY <1>1, <1>2

\* Four bytes make a word, whichever reader assembles them.
LEMMA WordOfType == \A b \in [0 .. 3 -> Byte] : WordOf(b) \in Word
<1>. SUFFICES ASSUME NEW b \in [0 .. 3 -> Byte] PROVE WordOf(b) \in Word
  OBVIOUS
<1>1. \A k \in 0 .. 3 : b[k] \in Int
  BY WordIsNat
<1>2. Pow2[CharBit] \in Int /\ Pow2[2 * CharBit] \in Int /\ Pow2[3 * CharBit] \in Int
  BY ByteBoundary, Pow2Positive
<1>3. b[0] \in Int /\ b[1] * Pow2[CharBit] \in Int /\ b[2] * Pow2[2 * CharBit] \in Int
        /\ b[3] * Pow2[3 * CharBit] \in Int
  BY <1>1, <1>2
<1>. QED  BY <1>3, ToWordType DEF WordOf

\* The bytes of a word.
LEMMA ByteOfType == \A w \in Word, k \in 0 .. 3 : ByteOf(w, k) \in Byte
<1>. SUFFICES ASSUME NEW w \in Word, NEW k \in 0 .. 3 PROVE ByteOf(w, k) \in Byte
  OBVIOUS
<1>1. k * CharBit \in 0 .. WordBits
  BY ByteBoundary
<1>2. w \in Nat /\ Pow2[k * CharBit] \in Nat \ {0}
  BY <1>1, WordIsNat, Pow2Positive
<1>3. w \div Pow2[k * CharBit] \in Int
  BY <1>2, QuotientBound
<1>. QED  BY <1>3, ByteRemainder DEF ByteOf

\* A set of naturals that is not empty has a least one.
LEMMA LeastNatural ==
  ASSUME NEW T \in SUBSET Nat, T # {}
  PROVE  \E x \in T : \A y \in T : ~(y < x)
<1>1. PICK x \in T : \A y \in T : ~(<<y, x>> \in OpToRel(<, Nat))
  BY NatLessThanWellFounded, WFMin
<1>. QED  BY <1>1 DEF OpToRel

\* The table of powers multiplies as powers do: shifting twice is shifting by the sum.
LEMMA PowersMultiply ==
  ASSUME NEW a \in 0 .. WordBits, NEW b \in 0 .. WordBits - a
  PROVE  Pow2[a + b] = Pow2[a] * Pow2[b]
<1>. DEFINE Wrong == {n \in 0 .. WordBits - a : Pow2[a + n] # Pow2[a] * Pow2[n]}
<1>1. WordBits \in Nat /\ \A n \in 0 .. WordBits : Pow2[n] \in Nat
  BY Pow2Positive
<1>2. Wrong \in SUBSET Nat
  OBVIOUS
<1>3. SUFFICES ASSUME Wrong # {} PROVE FALSE
  OBVIOUS
<1>4. PICK n \in Wrong : \A m \in Wrong : ~(m < n)
  BY <1>2, <1>3, LeastNatural
<1>5. n # 0
  <2>1. Pow2[a + 0] = Pow2[a] * Pow2[0]
    BY <1>1, WidthAssumption
  <2>. QED  BY <2>1
<1>6. Pow2[a + (n - 1)] = Pow2[a] * Pow2[n - 1] /\ n - 1 \in Nat
  <2>1. n - 1 \in 0 .. WordBits - a /\ n - 1 < n
    BY <1>5, <1>1
  <2>. QED  BY <1>4, <2>1
<1>7. Pow2[a + (n - 1) + 1] = 2 * Pow2[a + (n - 1)] /\ Pow2[n - 1 + 1] = 2 * Pow2[n - 1]
  <2>1. a + (n - 1) \in 0 .. WordBits - 1 /\ n - 1 \in 0 .. WordBits - 1
    BY <1>1, <1>6
  <2>. QED  BY <2>1, WidthAssumption
<1>8. a + (n - 1) + 1 = a + n /\ n - 1 + 1 = n
  BY <1>6
<1>9. Pow2[a] \in Nat /\ Pow2[n - 1] \in Nat
  BY <1>1, <1>6
<1>10. Pow2[a + n] = 2 * (Pow2[a] * Pow2[n - 1]) /\ Pow2[n] = 2 * Pow2[n - 1]
  BY <1>6, <1>7, <1>8
<1>11. 2 * (Pow2[a] * Pow2[n - 1]) = Pow2[a] * (2 * Pow2[n - 1])
  BY <1>9
<1>. QED  BY <1>10, <1>11

\* With its remainder in range, a quotient is the only one.
LEMMA QuotientIsUnique ==
  ASSUME NEW n \in Nat \ {0}, NEW x \in Int, NEW q \in Int, NEW r \in 0 .. n - 1,
         x = n * q + r
  PROVE  x \div n = q
<1>. DEFINE d == x \div n
<1>1. d \in Int /\ x = n * d + (x % n)
  BY Z3
<1>2. x % n = r
  BY RemainderIsUnique
<1>. HIDE DEF d
<1>3. n * (d - q) = 0
  BY <1>1, <1>2
<1>4. d = q
  BY <1>1, <1>3
<1>. QED  BY <1>4 DEF d

\* A digit d before a remainder below n.
LEMMA DigitBelow ==
  ASSUME NEW n \in Nat \ {0}, NEW m \in Nat \ {0}, NEW d \in 0 .. m - 1, NEW r \in 0 .. n - 1
  PROVE  n * d + r \in 0 .. n * m - 1
<1>1. n * d \in Nat /\ n * (m - 1 - d) \in Nat
  OBVIOUS
<1>2. n * (m - 1 - d) = n * m - n - n * d
  OBVIOUS
<1>3. n * m \in Nat
  OBVIOUS
<1>. QED  BY <1>1, <1>2, <1>3

\* A byte's place is worth a byte's size times the place below it.
LEMMA PlaceValues ==
  LET P == ByteSize
      Q == P * P
      R == P * Q
  IN  /\ P \in Nat \ {0} /\ Q \in Nat \ {0} /\ R \in Nat \ {0}
      /\ Pow2[0] = 1 /\ Pow2[CharBit] = P /\ Pow2[2 * CharBit] = Q /\ Pow2[3 * CharBit] = R
      /\ WordSize = P * R
<1>. DEFINE P == ByteSize
            Q == P * P
            R == P * Q
<1>1. CharBit \in Nat /\ WordBits = 4 * CharBit /\ WordBits \in Nat
  BY WidthAssumption DEF WordBits, BYTES_PER_INSTRUCTION
<1>2. CharBit \in 0 .. WordBits /\ 2 * CharBit \in 0 .. WordBits /\ 3 * CharBit \in 0 .. WordBits
  BY <1>1
<1>3. P \in Nat \ {0} /\ Pow2[CharBit] = P
  BY Pow2Positive DEF ByteSize
<1>4. /\ CharBit \in 0 .. WordBits - CharBit
      /\ 2 * CharBit \in 0 .. WordBits - CharBit
      /\ 3 * CharBit \in 0 .. WordBits - CharBit
  BY <1>1
<1>5. /\ Pow2[CharBit + CharBit] = Pow2[CharBit] * Pow2[CharBit]
      /\ Pow2[CharBit + 2 * CharBit] = Pow2[CharBit] * Pow2[2 * CharBit]
      /\ Pow2[CharBit + 3 * CharBit] = Pow2[CharBit] * Pow2[3 * CharBit]
  BY <1>2, <1>4, PowersMultiply
<1>6. /\ CharBit + CharBit = 2 * CharBit /\ CharBit + 2 * CharBit = 3 * CharBit
      /\ CharBit + 3 * CharBit = WordBits
  BY <1>1
<1>7. /\ Pow2[2 * CharBit] = P * P
      /\ Pow2[3 * CharBit] = P * (P * P)
      /\ Pow2[WordBits] = P * (P * (P * P))
  BY <1>3, <1>5, <1>6
<1>. HIDE DEF P
<1>8. P * P \in Nat \ {0}
  BY <1>3
<1>. HIDE DEF Q
<1>9. R \in Nat \ {0}
  BY <1>3, <1>8 DEF Q
<1>. QED  BY <1>3, <1>7, <1>8, <1>9, WidthAssumption DEF WordSize, P, Q

\* The bytes a word is put together from are the ones it is taken apart into.
LEMMA BytesOfWord ==
  ASSUME NEW b \in [0 .. 3 -> Byte], NEW k \in 0 .. 3
  PROVE  ByteOf(WordOf(b), k) = b[k]
<1>. DEFINE P == ByteSize
            Q == P * P
            R == P * Q
            w == b[0] + b[1] * P + b[2] * Q + b[3] * R
<1>1. /\ P \in Nat \ {0} /\ Q \in Nat \ {0} /\ R \in Nat \ {0}
      /\ Pow2[0] = 1 /\ Pow2[CharBit] = P /\ Pow2[2 * CharBit] = Q /\ Pow2[3 * CharBit] = R
      /\ WordSize = P * R
  BY PlaceValues
<1>2. WordOf(b) = ToWord(w)
  BY <1>1 DEF WordOf
<1>3. /\ b[0] \in 0 .. P - 1 /\ b[1] \in 0 .. P - 1
      /\ b[2] \in 0 .. P - 1 /\ b[3] \in 0 .. P - 1
  BY DEF Byte
<1>. DEFINE b0 == b[0]  b1 == b[1]  b2 == b[2]  b3 == b[3]
<1>. HIDE DEF P
<1>4. Q = P * P /\ R = P * Q
  OBVIOUS
<1>. HIDE DEF Q
<1>5. R = P * Q
  OBVIOUS
<1>. HIDE DEF R, b0, b1, b2, b3
<1>6. /\ b0 \in 0 .. P - 1 /\ b1 \in 0 .. P - 1 /\ b2 \in 0 .. P - 1 /\ b3 \in 0 .. P - 1
      /\ w = b0 + b1 * P + b2 * Q + b3 * R
  BY <1>3 DEF b0, b1, b2, b3
<1>. HIDE DEF w
<1>. DEFINE l1 == P * b1 + b0
            l2 == Q * b2 + l1
            h3 == P * b3 + b2
            h2 == P * h3 + b1
<1>7. l1 \in 0 .. Q - 1
  BY <1>1, <1>4, <1>6, DigitBelow
<1>8. l2 \in 0 .. R - 1
  <2>1. l2 \in 0 .. Q * P - 1
    <3>. HIDE DEF l1
    <3>. QED  BY <1>1, <1>6, <1>7, DigitBelow
  <2>. QED  BY <1>1, <1>5, <2>1
<1>9. w \in 0 .. WordSize - 1 /\ w = R * b3 + l2
  <2>1. w = R * b3 + l2
    BY <1>1, <1>6
  <2>. HIDE DEF l2
  <2>2. R * b3 + l2 \in 0 .. R * P - 1
    BY <1>1, <1>6, <1>8, DigitBelow
  <2>. QED  BY <1>1, <2>1, <2>2
<1>10. h3 \in Int /\ h2 \in Int /\ w \in Int /\ h3 \in Nat
  BY <1>1, <1>6, <1>9
<1>11. w = P * h2 + b0
  <2>1. P * h2 = P * (P * (P * b3 + b2)) + P * b1
    BY <1>1, <1>6
  <2>2. P * (P * (P * b3 + b2)) = (P * (P * P)) * b3 + (P * P) * b2
    BY <1>1, <1>6
  <2>. QED  BY <1>1, <1>4, <1>6, <2>1, <2>2
<1>12. w = Q * h3 + l1
  <2>1. Q * h3 = (Q * P) * b3 + Q * b2
    BY <1>1, <1>6
  <2>2. Q * P = R
    BY <1>1, <1>5
  <2>. QED  BY <1>1, <1>6, <2>1, <2>2
<1>13. w \div P = h2 /\ w % P = b0 /\ w \div Q = h3 /\ w \div R = b3
  <2>. HIDE DEF h2, h3, l1, l2
  <2>1. w \div P = h2 /\ w % P = b0
    BY <1>1, <1>6, <1>10, <1>11, QuotientIsUnique, RemainderIsUnique
  <2>2. w \div Q = h3
    BY <1>1, <1>7, <1>10, <1>12, QuotientIsUnique
  <2>3. b3 \in Int
    BY <1>6
  <2>4. w \div R = b3
    BY <1>1, <1>8, <1>9, <1>10, <2>3, QuotientIsUnique
  <2>. QED  BY <2>1, <2>2, <2>4
<1>14. h2 % P = b1 /\ h3 % P = b2 /\ b3 % P = b3
  <2>1. b3 = P * 0 + b3
    BY <1>1, <1>6
  <2>. HIDE DEF h3
  <2>2. h2 % P = b1
    <3>1. h2 = P * h3 + b1
      OBVIOUS
    <3>. HIDE DEF h2
    <3>. QED  BY <1>1, <1>6, <1>10, <3>1, RemainderIsUnique
  <2>3. h3 % P = b2
    <3>1. h3 = P * b3 + b2
      BY DEF h3
    <3>. QED  BY <1>1, <1>6, <1>10, <3>1, RemainderIsUnique
  <2>. QED  BY <1>1, <1>6, <2>1, <2>2, <2>3, RemainderIsUnique
<1>15. ToWord(w) = w
  <2>1. w = WordSize * 0 + w /\ WordSize \in Nat \ {0}
    BY <1>9, Pow2Positive
  <2>. QED  BY <1>9, <1>10, <2>1, RemainderIsUnique DEF ToWord
<1>16. w \div 1 = w
  BY <1>10
<1>17. /\ ByteOf(w, 0) = b0 /\ ByteOf(w, 1) = b1 /\ ByteOf(w, 2) = b2 /\ ByteOf(w, 3) = b3
  <2>1. /\ 0 * CharBit = 0 /\ 1 * CharBit = CharBit
    BY ByteBoundary, WidthAssumption
  <2>2. ByteSize = P
    BY DEF P
  <2>. HIDE DEF h2, h3
  <2>. QED  BY <1>1, <1>13, <1>14, <1>16, <2>1, <2>2 DEF ByteOf
<1>18. k = 0 \/ k = 1 \/ k = 2 \/ k = 3
  OBVIOUS
<1>. QED  BY <1>2, <1>15, <1>17, <1>18 DEF b0, b1, b2, b3

\* What create_mask makes of a latch is a word, so Decode knows it.
LEMMA LatchWordType == \A latch \in Latch : LatchWord(latch) \in Word
<1>. SUFFICES ASSUME NEW latch \in Latch PROVE LatchWord(latch) \in Word
  OBVIOUS
<1>1. [k \in 0 .. 3 |-> ReverseByte[latch[3 - k]]] \in [0 .. 3 -> Byte]
  BY BitsAssumption DEF Latch
<1>. QED  BY <1>1, WordOfType DEF LatchWord

\* A fetch returns four bytes, inside memory or not.
LEMMA LatchesType ==
  ASSUME NEW memory \in [Address -> Byte], NEW a \in Int, a >= 0
  PROVE  Latches(memory, a) \subseteq Latch
<1>1. CASE a + 3 \in Address
  <2>1. \A k \in 0 .. 3 : a + k \in Address
    BY <1>1, MemoryAssumption DEF Address
  <2>. QED  BY <1>1, <2>1 DEF Latches, Latch
<1>2. CASE a + 3 \notin Address
  BY <1>2, EnvironmentAssumption DEF Latches
<1>. QED  BY <1>1, <1>2

\* A mirrored index is an integer, and so the position of a byte is a word.
LEMMA PositionType ==
  \A a \in Int, offset \in Int : change_endianness(a, offset) \in Int
BY DEF change_endianness

LEMMA BytePositionType == \A a \in Int, k \in 0 .. 4 : BytePosition(a, k) \in Word
<1>. SUFFICES ASSUME NEW a \in Int, NEW k \in 0 .. 4 PROVE BytePosition(a, k) \in Word
  OBVIOUS
<1>1. ToWord(a + k) \in Int
  BY ToWordType, WordIsNat
<1>. QED  BY <1>1, PositionType, ToWordType DEF BytePosition

(***************************************************************************)
(* load                                                                    *)
(***************************************************************************)
\* CPSR has room for its four flags.
LEMMA RestIsWide ==
  /\ WordBits \in Nat /\ WordBits >= 4
  /\ Pow2[WordBits - 4] \in Nat \ {0}
  /\ 0 \in 0 .. Pow2[WordBits - 4] - 1
<1>1. WordBits \in Nat /\ WordBits >= 4
  BY WidthAssumption DEF WordBits, BYTES_PER_INSTRUCTION
<1>2. WordBits - 4 \in 0 .. WordBits
  BY <1>1
<1>3. Pow2[WordBits - 4] \in Nat \ {0}
  BY <1>2, Pow2Positive
<1>. QED  BY <1>1, <1>3

\* load puts bytes everywhere, and the processor it starts from is one.
LEMMA InitialProcessorType ==
  ASSUME NEW image \in Seq(Word)
  PROVE  InitialProcessor(image) \in ProcessorState
<1>1. LoadedMemory(image) \in [Address -> Byte]
  <2>. SUFFICES ASSUME NEW a \in Address, a \div 4 < Len(image)
                PROVE  ByteOf(image[a \div 4 + 1], change_endianness(a, 0) % 4) \in Byte
    BY BitsAssumption, WordIsNat DEF LoadedMemory
  <2>1. a \in Nat
    BY MemoryAssumption DEF Address
  <2>2. a \div 4 + 1 \in 1 .. Len(image)
    BY <2>1
  <2>3. image[a \div 4 + 1] \in Word
    BY <2>2
  <2>4. change_endianness(a, 0) \in Int
    BY <2>1, PositionType
  <2>5. change_endianness(a, 0) % 4 \in 0 .. 3
    BY <2>4
  <2>. QED  BY <2>3, <2>5, ByteOfType
<1>2. 0 \in 0 .. Pow2[WordBits - 4] - 1
  BY RestIsWide
<1>. QED  BY <1>1, <1>2, WordIsNat DEF InitialProcessor, ProcessorState, Flags

(***************************************************************************)
(* Flags and the barrel shifter                                            *)
(***************************************************************************)
\* The setters return flags.
LEMMA FlagsType ==
  ASSUME NEW cpsr \in Flags, NEW result \in Word, NEW set \in BOOLEAN
  PROVE  /\ set_n(cpsr, result) \in Flags
         /\ set_z(cpsr, result) \in Flags
         /\ set_c(cpsr, set) \in Flags
BY DEF Flags, set_n, set_z, set_c, Negative

\* CPSR is a number, and every word is a CPSR.
LEMMA CpsrType ==
  /\ \A cpsr \in Flags : CpsrWord(cpsr) \in Nat
  /\ \A w \in Word : FlagsOf(w) \in Flags
<1>. DEFINE n == WordBits
<1>1. n \in Nat /\ n >= 4 /\ Pow2[n - 4] \in Nat \ {0}
  BY RestIsWide
<1>2. /\ Pow2[n - 1] \in Nat /\ Pow2[n - 2] \in Nat
      /\ Pow2[n - 3] \in Nat /\ Pow2[n - 4] \in Nat
  <2>1. n - 1 \in 0 .. n /\ n - 2 \in 0 .. n /\ n - 3 \in 0 .. n /\ n - 4 \in 0 .. n
    BY <1>1
  <2>. HIDE DEF n
  <2>. QED  BY <2>1, Pow2Positive DEF n
<1>. HIDE DEF n
<1>3. ASSUME NEW cpsr \in Flags PROVE CpsrWord(cpsr) \in Nat
  <2>1. cpsr.rest \in Nat
    BY <1>1 DEF Flags, n
  <2>. QED  BY <1>2, <2>1 DEF CpsrWord, n
<1>4. ASSUME NEW w \in Word PROVE FlagsOf(w) \in Flags
  <2>1. w % Pow2[n - 4] \in 0 .. Pow2[n - 4] - 1
    BY <1>1, WordIsNat, Z3
  <2>2. \A i : BitOfWord(w, i) \in BOOLEAN
    BY DEF BitOfWord
  <2>. QED  BY <2>1, <2>2 DEF FlagsOf, Flags, n
<1>. QED  BY <1>3, <1>4

\* What a shift returns.
Shifted == [value : Word, carry : BOOLEAN]

\* A shift by less than the width returns a word, for each of the four types.
LEMMA ShiftValueType ==
  ASSUME NEW n \in Word, NEW shift_type \in 0 .. 3, NEW amount \in 0 .. WordBits - 1
  PROVE  /\ ShiftValue(n, shift_type, amount) \in Word
         /\ rotate_right(n, amount) \in Word
<1>1. n \in Nat /\ n < WordSize /\ WordSize \in Nat
  BY WordIsNat, Pow2Positive DEF Word
<1>2. amount \in 0 .. WordBits /\ WordBits \in Nat \ {0}
  BY Pow2Positive
<1>3. Pow2[amount] \in Nat \ {0}
  BY <1>2, Pow2Positive
<1>4. ToWord(n * Pow2[amount]) \in Word
  <2>1. n * Pow2[amount] \in Int
    BY <1>1, <1>3
  <2>. QED  BY <2>1, ToWordType
<1>5. n \div Pow2[amount] \in Word
  BY <1>1, <1>3, QuotientBound DEF Word
<1>6. ToWord(Signed(n) \div Pow2[amount]) \in Word
  <2>1. Signed(n) \in Int
    BY <1>1 DEF Signed
  <2>2. Signed(n) \div Pow2[amount] \in Int
    BY <2>1, <1>3
  <2>. QED  BY <2>2, ToWordType
<1>7. rotate_right(n, amount) \in Word
  <2>. DEFINE r == amount % WordBits
  <2>1. r \in 0 .. WordBits /\ WordBits - r \in 0 .. WordBits
    BY <1>2
  <2>2. Pow2[r] \in Nat \ {0} /\ Pow2[WordBits - r] \in Nat \ {0}
    BY <2>1, Pow2Positive
  <2>. HIDE DEF r
  <2>3. n \div Pow2[r] \in Int /\ n % Pow2[r] \in Int
    BY <1>1, <2>2
  <2>4. (n % Pow2[r]) * Pow2[WordBits - r] \in Int
    BY <2>2, <2>3
  <2>5. n \div Pow2[r] + (n % Pow2[r]) * Pow2[WordBits - r] \in Int
    BY <2>3, <2>4
  <2>. QED  BY <2>5, ToWordType DEF rotate_right, r
<1>. QED  BY <1>4, <1>5, <1>6, <1>7 DEF ShiftValue

\* The second operand is a word with a carry, even where a shift is undefined.
LEMMA OperandsType ==
  ASSUME NEW p \in ProcessorState, NEW o \in Operand2
  PROVE  Operands(p, o) \subseteq Shifted
<1>1. CASE o.kind = "immediate"
  <2>1. o.value \in Word /\ o.rotate \in 0 .. WordBits - 1
    BY <1>1 DEF Operand2
  <2>2. rotate_right(o.value, o.rotate) \in Word
    BY <2>1, ShiftValueType
  <2>. QED  BY <1>1, <2>2 DEF Operands, Shifted
<1>2. CASE o.kind # "immediate"
  <2>1. o.rm \in Register /\ o.rs \in Register /\ o.shift_type \in 0 .. 3
          /\ o.amount \in 0 .. WordBits - 1
    BY <1>2 DEF Operand2
  <2>. DEFINE n == p.registers[o.rm]
              amount == IF o.by_register THEN p.registers[o.rs] % ShiftRange
                                         ELSE o.amount
  <2>2. n \in Word /\ p.registers[o.rs] \in Word
    BY <2>1 DEF ProcessorState
  <2>3. p.registers[o.rs] % ShiftRange \in Nat
    BY <2>2, WordIsNat, WidthAssumption
  <2>4. amount \in Nat
    BY <2>1, <2>3, Pow2Positive
  <2>. HIDE DEF n, amount
  <2>5. shift(n, o.shift_type, amount) \subseteq Shifted
    <3>1. CASE amount < WordBits
      <4>1. amount \in 0 .. WordBits - 1
        BY <3>1, <2>4, Pow2Positive
      <4>2. ShiftValue(n, o.shift_type, amount) \in Word
        BY <4>1, <2>1, <2>2, ShiftValueType
      <4>. QED  BY <3>1, <4>2 DEF shift, Shifted, ShiftCarry
    <3>2. CASE ~(amount < WordBits)
      BY <3>2, EnvironmentAssumption DEF shift, Shifted
    <3>. QED  BY <3>1, <3>2
  <2>. QED  BY <1>2, <2>5 DEF Operands, n, amount
<1>. QED  BY <1>1, <1>2

(***************************************************************************)
(* Data processing and multiplication                                      *)
(***************************************************************************)
\* Every opcode's result is a word, the unknown ones' too.
LEMMA AluResultsType ==
  ASSUME NEW opcode \in 0 .. 15, NEW rn \in Word, NEW op2 \in Word
  PROVE  AluResults(opcode, rn, op2) \subseteq Word
<1>1. rn \in Int /\ op2 \in Int
  BY WordIsNat
<1>2. rn - op2 \in Int /\ op2 - rn \in Int /\ rn + op2 \in Int
  BY <1>1
<1>3. ToWord(rn - op2) \in Word /\ ToWord(op2 - rn) \in Word /\ ToWord(rn + op2) \in Word
  BY <1>2, ToWordType
<1>4. BitAnd(rn, op2) \in Word /\ BitOr(rn, op2) \in Word /\ BitXor(rn, op2) \in Word
  BY BitsAssumption
<1>. QED  BY <1>3, <1>4, EnvironmentAssumption DEF AluResults

\* A register takes a word.
LEMMA RegisterWrite ==
  ASSUME NEW p \in ProcessorState, NEW r \in Register, NEW w \in Word
  PROVE  [p EXCEPT !.registers[r] = w] \in ProcessorState
BY DEF ProcessorState

\* A register takes a word while the flags change.
SetBoth(p, r, w, flags) == [p EXCEPT !.registers[r] = w, !.cpsr = flags]

LEMMA SetBothType ==
  ASSUME NEW p \in ProcessorState, NEW r \in Register, NEW w \in Word,
         NEW flags \in Flags
  PROVE  SetBoth(p, r, w, flags) \in ProcessorState
BY DEF ProcessorState, SetBoth

\* Data processing leaves a processor.
LEMMA DataProcessingType ==
  ASSUME NEW p \in ProcessorState, NEW i \in Instruction, i.type = "DATA_PROCESS"
  PROVE  DataProcessing(p, i) \subseteq ProcessorState
<1>1. i.opcode \in 0 .. 15 /\ i.s \in BOOLEAN /\ i.rn \in Register /\ i.rd \in Register
        /\ i.op2 \in Operand2
  BY DEF Instruction
<1>. SUFFICES ASSUME NEW op2 \in Operands(p, i.op2),
                     NEW result \in AluResults(i.opcode, p.registers[i.rn], op2.value)
              PROVE  AfterDataProcessing(p, i, op2, result) \in ProcessorState
  BY DEF DataProcessing
<1>2. op2 \in Shifted
  BY <1>1, OperandsType
<1>3. p.registers[i.rn] \in Word /\ p.cpsr \in Flags /\ p.registers[i.rd] \in Word
  BY <1>1 DEF ProcessorState
<1>4. result \in Word
  BY <1>1, <1>2, <1>3, AluResultsType DEF Shifted
<1>. DEFINE carry == \/ op2.carry
                     \/ AluCarry(i.opcode, p.registers[i.rn], op2.value)
            flags == IF ~i.s THEN p.cpsr
                     ELSE set_n(set_z(set_c(p.cpsr, carry), result), result)
            value == IF WritesResult(i.opcode) THEN result ELSE p.registers[i.rd]
<1>5. carry \in BOOLEAN
  BY <1>2 DEF Shifted, AluCarry
<1>6. flags \in Flags
  <2>. HIDE DEF carry
  <2>1. set_c(p.cpsr, carry) \in Flags
    BY <1>3, <1>4, <1>5, FlagsType
  <2>2. set_z(set_c(p.cpsr, carry), result) \in Flags
    BY <2>1, <1>4, FlagsType
  <2>. QED  BY <2>2, <1>3, <1>4, FlagsType
<1>7. value \in Word
  BY <1>3, <1>4
<1>8. AfterDataProcessing(p, i, op2, result)
        = SetBoth(p, i.rd, value, flags)
  BY DEF AfterDataProcessing, SetBoth
<1>. HIDE DEF carry, flags, value
<1>. QED  BY <1>1, <1>6, <1>7, <1>8, SetBothType

\* Multiplication leaves a processor.
LEMMA MultiplyType ==
  ASSUME NEW p \in ProcessorState, NEW i \in Instruction, i.type = "MULTIPLY"
  PROVE  Multiply(p, i) \in ProcessorState
<1>1. i.a \in BOOLEAN /\ i.s \in BOOLEAN /\ i.rd \in Register /\ i.rn \in Register
        /\ i.rs \in Register /\ i.rm \in Register
  BY DEF Instruction
<1>2. p.registers[i.rm] \in Int /\ p.registers[i.rs] \in Int /\ p.registers[i.rn] \in Int
  BY <1>1, WordIsNat DEF ProcessorState
<1>. DEFINE product == ToWord(p.registers[i.rm] * p.registers[i.rs]
                                + (IF i.a THEN p.registers[i.rn] ELSE 0))
            flags == IF i.s THEN set_n(set_z(p.cpsr, product), product) ELSE p.cpsr
<1>3. product \in Word
  <2>1. p.registers[i.rm] * p.registers[i.rs] \in Int
    BY <1>2
  <2>2. p.registers[i.rm] * p.registers[i.rs]
          + (IF i.a THEN p.registers[i.rn] ELSE 0) \in Int
    BY <1>2, <2>1
  <2>. QED  BY <2>2, ToWordType
<1>4. Multiply(p, i) = SetBoth(p, i.rd, product, flags)
  BY DEF Multiply, SetBoth
<1>. HIDE DEF product
<1>5. flags \in Flags
  <2>1. p.cpsr \in Flags
    BY DEF ProcessorState
  <2>2. set_z(p.cpsr, product) \in Flags
    BY <2>1, <1>3, FlagsType
  <2>. QED  BY <2>1, <2>2, <1>3, FlagsType
<1>. HIDE DEF flags
<1>. QED  BY <1>1, <1>3, <1>4, <1>5, SetBothType

(***************************************************************************)
(* Branches, transfers and input.  None of them touches a flag, but for a  *)
(* number typed into CPSR.                                                 *)
(***************************************************************************)
\* A taken branch leaves a processor, and only register 15 changes.
LEMMA BranchType ==
  ASSUME NEW p \in ProcessorState, NEW i \in Instruction, i.type = "BRANCH"
  PROVE  Branch(p, i) \in ProcessorState /\ Branch(p, i).cpsr = p.cpsr
<1>1. i.offset \in Int /\ PC_REGISTER \in Register
  <2>1. i.offset \in Int
    BY DEF Instruction
  <2>. QED  BY <2>1 DEF PC_REGISTER, Register
<1>2. p.registers[PC_REGISTER] \in Int
  BY <1>1, WordIsNat DEF ProcessorState
<1>3. ToWord(p.registers[PC_REGISTER] + i.offset) \in Word
  BY <1>1, <1>2, ToWordType
<1>. QED  BY <1>1, <1>3, RegisterWrite DEF Branch, ProcessorState

\* str leaves bytes in memory.
LEMMA StoreWordType ==
  ASSUME NEW memory \in [Address -> Byte], NEW a \in Int, NEW w \in Word
  PROVE  StoreWord(memory, a, w) \in [Address -> Byte]
<1>. SUFFICES ASSUME NEW b \in Address, NEW k \in 0 .. 3
              PROVE  ReverseByte[ByteOf(w, 3 - k)] \in Byte
  BY DEF StoreWord
<1>1. 3 - k \in 0 .. 3
  OBVIOUS
<1>. QED  BY <1>1, ByteOfType, BitsAssumption

\* ldr of a word whose bytes lie in memory loads a word.
LEMMA LoadWordType ==
  ASSUME NEW memory \in [Address -> Byte], NEW a \in Int, InBounds(a, TRUE)
  PROVE  LoadWord(memory, a) \in Word
<1>1. ASSUME NEW k \in 0 .. 3 PROVE ReverseByte[memory[BytePosition(a, k)]] \in Byte
  BY BitsAssumption DEF InBounds
<1>2. [k \in 0 .. 3 |-> ReverseByte[memory[BytePosition(a, k)]]] \in [0 .. 3 -> Byte]
  BY <1>1
<1>. QED  BY <1>2, WordOfType DEF LoadWord

\* Memory is replaced as a whole.
LEMMA MemoryWrite ==
  ASSUME NEW p \in ProcessorState, NEW memory \in [Address -> Byte]
  PROVE  /\ [p EXCEPT !.memory = memory] \in ProcessorState
         /\ [p EXCEPT !.memory = memory].cpsr = p.cpsr
BY DEF ProcessorState

\* A transfer leaves a processor.
LEMMA TransferType ==
  ASSUME NEW p \in ProcessorState, NEW i \in Instruction, i.type = "TRANSFER",
         NEW q \in Transfer(p, i)
  PROVE  q \in ProcessorState /\ q.cpsr = p.cpsr
<1>1. i.p \in BOOLEAN /\ i.u \in BOOLEAN /\ i.l \in BOOLEAN /\ i.rn \in Register
        /\ i.rd \in Register /\ i.offset \in Operand2
  BY DEF Instruction
<1>2. PICK o \in Operands(p, i.offset) :
        ~TransferAborts(p, i, o.value) /\ q = AfterTransfer(p, i, o.value)
  BY DEF Transfer
<1>3. o.value \in Word /\ p.registers[i.rn] \in Word /\ p.registers[i.rd] \in Word
  BY <1>1, OperandsType DEF Shifted, ProcessorState
<1>. DEFINE a == TransferAddress(p, i, o.value)
<1>4. a \in Word
  <2>1. p.registers[i.rn] + o.value \in Int /\ p.registers[i.rn] - o.value \in Int
    BY <1>3, WordIsNat
  <2>. QED  BY <2>1, <1>3, ToWordType DEF TransferAddress
<1>5. ReachesMemory(a) => InBounds(a, i.l)
  BY <1>2 DEF TransferAborts
<1>. HIDE DEF a
<1>6. AfterAccess(p, i, a) \in ProcessorState /\ AfterAccess(p, i, a).cpsr = p.cpsr
  <2>1. CASE IsGpioPin(a)
    BY <2>1, <1>1, <1>4 DEF AfterAccess, ProcessorState
  <2>2. CASE ~IsGpioPin(a) /\ ~ReachesMemory(a)
    BY <2>2 DEF AfterAccess
  <2>3. CASE ~IsGpioPin(a) /\ ReachesMemory(a) /\ i.l
    <3>1. InBounds(a, TRUE)
      BY <2>3, <1>5 DEF InBounds
    <3>2. LoadWord(p.memory, a) \in Word
      <4>1. a \in Int /\ p.memory \in [Address -> Byte]
        BY <1>4, WordIsNat DEF ProcessorState
      <4>. QED  BY <3>1, <4>1, LoadWordType
    <3>. QED  BY <2>3, <3>2, <1>1 DEF AfterAccess, ProcessorState
  <2>4. CASE ~IsGpioPin(a) /\ ReachesMemory(a) /\ ~i.l
    <3>1. StoreWord(p.memory, a, p.registers[i.rd]) \in [Address -> Byte]
      BY <1>3, <1>4, WordIsNat, StoreWordType DEF ProcessorState
    <3>. QED  BY <2>4, <3>1, MemoryWrite DEF AfterAccess
  <2>. QED  BY <2>1, <2>2, <2>3, <2>4
<1>. DEFINE r == AfterAccess(p, i, a)
            base == ToWord(IF i.u THEN r.registers[i.rn] + o.value
                                  ELSE r.registers[i.rn] - o.value)
<1>7. base \in Word
  <2>1. r.registers[i.rn] \in Word
    BY <1>1, <1>6 DEF ProcessorState
  <2>2. r.registers[i.rn] + o.value \in Int /\ r.registers[i.rn] - o.value \in Int
    BY <2>1, <1>3, WordIsNat
  <2>. QED  BY <2>2, ToWordType
<1>8. q = IF i.p THEN r ELSE [r EXCEPT !.registers[i.rn] = base]
  BY <1>2 DEF AfterTransfer, a
<1>. HIDE DEF r, base
<1>9. r \in ProcessorState /\ r.cpsr = p.cpsr
  BY <1>6 DEF r
<1>. QED  BY <1>1, <1>7, <1>8, <1>9 DEF ProcessorState

\* Input leaves a processor: a number fits a register or is cut to a byte, and
\* a string's bytes are written as they were typed.
LEMMA InputType ==
  ASSUME NEW p \in ProcessorState, NEW i \in Instruction, i.type = "INPUT",
         NEW q \in Input(p, i)
  PROVE  /\ q \in ProcessorState
         /\ i.is_string \/ ~i.reg \/ i.start_address # CPSR_REGISTER => q.cpsr = p.cpsr
<1>0. i.is_string \in BOOLEAN /\ i.reg \in BOOLEAN /\ i.start_address \in Nat
  BY WordIsNat DEF Instruction
<1>1. CASE q = p
  BY <1>1
<1>. DEFINE r == i.start_address
<1>5. ~WildRegister(i) /\ i.reg /\ r # CPSR_REGISTER => r \in Register
  BY <1>0 DEF WildRegister, CPSR_REGISTER, Register
<1>2. ASSUME i.is_string, ~WildRegister(i), NEW t \in InputStrings,
             q = AfterInputString(p, i, t)
      PROVE  q \in ProcessorState /\ q.cpsr = p.cpsr
  <2>. DEFINE at == StringLocation(p, i)
              memory == [b \in Address |->
                           IF b \in at .. at + Len(t) - 1 THEN t[b - at + 1]
                           ELSE IF b = at + Len(t) THEN 0
                           ELSE p.memory[b]]
  <2>1. t \in Seq(Byte) /\ Len(t) \in Nat
    BY EnvironmentAssumption
  <2>2. at \in Nat
    <3>1. p.cpsr \in Flags /\ p.registers \in [Register -> Word]
      BY DEF ProcessorState
    <3>2. r \in Register => p.registers[r] \in Nat
      BY <3>1, WordIsNat
    <3>. QED  BY <1>0, <1>2, <1>5, <3>1, <3>2, CpsrType DEF StringLocation
  <2>. HIDE DEF at
  <2>3. memory \in [Address -> Byte]
    <3>. SUFFICES ASSUME NEW b \in Address, b \in at .. at + Len(t) - 1
                  PROVE  t[b - at + 1] \in Byte
      BY WordIsNat DEF ProcessorState
    <3>1. b - at + 1 \in 1 .. Len(t)
      BY <2>1, <2>2
    <3>. QED  BY <2>1, <3>1
  <2>4. q = [p EXCEPT !.memory = memory]
    BY <1>2 DEF AfterInputString, at, ProcessorState
  <2>. HIDE DEF memory
  <2>. QED  BY <2>3, <2>4, MemoryWrite
<1>3. ASSUME ~i.is_string, ~WildRegister(i), NEW w \in InputWords,
             q = AfterInputNumber(p, i, w)
      PROVE  q \in ProcessorState /\ (~i.reg \/ r # CPSR_REGISTER => q.cpsr = p.cpsr)
  <2>1. w \in Word
    BY EnvironmentAssumption
  <2>2. CASE i.reg /\ r # CPSR_REGISTER
    <3>1. r \in Register
      BY <1>3, <1>5, <2>2
    <3>. QED  BY <1>3, <2>1, <2>2, <3>1 DEF AfterInputNumber, ProcessorState
  <2>4. CASE i.reg /\ r = CPSR_REGISTER
    <3>1. q = [p EXCEPT !.cpsr = FlagsOf(w)] /\ FlagsOf(w) \in Flags
      BY <1>3, <2>1, <2>4, CpsrType DEF AfterInputNumber
    <3>. QED  BY <2>4, <3>1 DEF ProcessorState
  <2>3. CASE ~i.reg
    <3>. DEFINE memory == [b \in Address |-> IF b = i.start_address THEN w % ByteSize
                                             ELSE p.memory[b]]
    <3>1. memory \in [Address -> Byte]
      BY <2>1, WordIsNat, ByteRemainder DEF ProcessorState
    <3>2. q = [p EXCEPT !.memory = memory]
      BY <1>3, <2>3 DEF AfterInputNumber, ProcessorState
    <3>. HIDE DEF memory
    <3>. QED  BY <3>1, <3>2, MemoryWrite
  <2>. QED  BY <1>0, <2>2, <2>3, <2>4
<1>. QED  BY <1>1, <1>2, <1>3 DEF Input

(***************************************************************************)
(* Mirroring                                                               *)
(***************************************************************************)
\* A position is mirrored in its word.
LEMMA Mirror ==
  ASSUME NEW q \in Int, NEW r \in 0 .. 3
  PROVE  /\ change_endianness(4 * q + r, 0) = 4 * q + (3 - r)
         /\ (4 * q + r) \div 4 = q /\ (4 * q + r) % 4 = r
<1>1. (4 * q + r) \div 4 = q /\ (4 * q + r) % 4 = r
  BY Z3
<1>2. change_endianness(4 * q + r, 0) = (q + 1) * 4 - 1 - r + 0
  BY <1>1 DEF change_endianness
<1>. QED  BY <1>1, <1>2

LEMMA InItsWord ==
  ASSUME NEW x \in Int
  PROVE  /\ x \div 4 \in Int /\ x % 4 \in 0 .. 3 /\ x = 4 * (x \div 4) + (x % 4)
BY Z3

\* About the word boundaries that a itself lies on, byte k of a word is byte 3 - k.
LEMMA MirrorAbout ==
  ASSUME NEW a \in Int, NEW k \in 0 .. 3
  PROVE  change_endianness(a + k, a % 4) = a + (3 - k)
<1>. DEFINE q == a \div 4  r == a % 4  i == a + k - r
<1>1. q \in Int /\ r \in 0 .. 3 /\ a = 4 * q + r
  BY InItsWord
<1>. HIDE DEF q, r
<1>2. i = 4 * q + k
  BY <1>1
<1>3. i \div 4 = q /\ i % 4 = k
  BY <1>1, <1>2, Mirror
<1>. HIDE DEF i
<1>4. change_endianness(a + k, r) = ((i \div 4) + 1) * 4 - 1 - (i % 4) + r
  BY <1>1 DEF change_endianness, i
<1>5. change_endianness(a + k, r) = (q + 1) * 4 - 1 - k + r
  BY <1>3, <1>4
<1>6. change_endianness(a + k, r) = a + (3 - k)
  BY <1>1, <1>5
<1>. QED  BY <1>6 DEF r

\* Memory ends a whole number of words before the addresses do.
LEMMA Sizes ==
  /\ \E n \in Nat : WordSize = 4 * n
  /\ \E m \in Nat : MemSize = 4 * m
  /\ MemSize \in Nat /\ WordSize \in Nat /\ MemSize + 4 <= WordSize
<1>1. WordBits \in Nat /\ WordBits >= 4
  BY WidthAssumption DEF WordBits, BYTES_PER_INSTRUCTION
<1>2. WordBits - 1 \in 0 .. WordBits - 1 /\ WordBits - 2 \in 0 .. WordBits - 1
      /\ WordBits - 2 + 1 = WordBits - 1 /\ WordBits - 1 + 1 = WordBits
  BY <1>1
<1>3. Pow2[WordBits] = 2 * Pow2[WordBits - 1] /\ Pow2[WordBits - 1] = 2 * Pow2[WordBits - 2]
      /\ Pow2[WordBits - 2] \in Nat
  <2>1. Pow2[WordBits - 1 + 1] = 2 * Pow2[WordBits - 1]
    BY <1>2, WidthAssumption
  <2>2. Pow2[WordBits - 2 + 1] = 2 * Pow2[WordBits - 2]
    BY <1>2, WidthAssumption
  <2>3. WordBits - 2 \in 0 .. WordBits
    BY <1>1
  <2>4. Pow2[WordBits - 2] \in Nat
    BY <2>3, WidthAssumption
  <2>. QED  BY <1>2, <2>1, <2>2, <2>4
<1>4. PICK n \in Nat : WordSize = 4 * n
  BY <1>3 DEF WordSize
<1>5. PICK m \in Nat : MemSize = 4 * m
  <2>1. MemSize \in Nat /\ MemSize % 4 = 0
    BY MemoryAssumption
  <2>2. MemSize \div 4 \in Int /\ MemSize = 4 * (MemSize \div 4) + 0
    BY <2>1, InItsWord
  <2>. DEFINE d == MemSize \div 4
  <2>. HIDE DEF d
  <2>3. d \in Int /\ MemSize = 4 * d
    BY <2>2 DEF d
  <2>4. d \in Nat
    BY <2>1, <2>3
  <2>. QED  BY <2>3, <2>4
<1>6. GpioStart \in 0 .. WordSize - 1 /\ GpioStart \notin 0 .. MemSize - 1 /\ MemSize \in Nat
  BY MemoryAssumption DEF Word, Address
<1>7. MemSize < WordSize
  BY <1>4, <1>6
<1>. QED  BY <1>4, <1>5, <1>6, <1>7

\* A word is its own value modulo the size of a word.
LEMMA WordIsReduced ==
  ASSUME NEW x \in Word
  PROVE  ToWord(x) = x
<1>1. x = WordSize * 0 + x /\ x \in 0 .. WordSize - 1 /\ x \in Int
  BY Sizes DEF Word
<1>. QED  BY <1>1, Pow2Positive, RemainderIsUnique DEF ToWord

\* Mirroring keeps a position in its word, and so in memory or out of it; done
\* twice it does nothing.
LEMMA MirrorStays ==
  ASSUME NEW x \in Word
  PROVE  /\ change_endianness(x, 0) \in Word
         /\ ToWord(change_endianness(x, 0)) = change_endianness(x, 0)
         /\ change_endianness(x, 0) \in Address <=> x \in Address
         /\ change_endianness(change_endianness(x, 0), 0) = x
         /\ change_endianness(x, 0) \div 4 = x \div 4
<1>. DEFINE q == x \div 4  r == x % 4  y == change_endianness(x, 0)
<1>1. x \in Nat /\ x < WordSize
  BY Sizes DEF Word
<1>2. q \in Int /\ r \in 0 .. 3 /\ x = 4 * q + r
  BY <1>1, InItsWord
<1>. HIDE DEF q, r
<1>3. y = 4 * q + (3 - r) /\ 3 - r \in 0 .. 3
  BY <1>2, Mirror
<1>. HIDE DEF y
<1>4. change_endianness(y, 0) = 4 * q + (3 - (3 - r)) /\ y \div 4 = q
  BY <1>2, <1>3, Mirror
<1>5. change_endianness(y, 0) = x
  BY <1>2, <1>4
<1>6. PICK n \in Nat, m \in Nat : WordSize = 4 * n /\ MemSize = 4 * m
  BY Sizes
<1>7. q >= 0 /\ q < n
  BY <1>1, <1>2, <1>6
<1>8. y \in Word
  BY <1>2, <1>3, <1>6, <1>7 DEF Word
<1>9. y \in Address <=> x \in Address
  BY <1>2, <1>3, <1>6, <1>7 DEF Address
<1>10. ToWord(y) = y
  BY <1>8, WordIsReduced
<1>. QED  BY <1>4, <1>5, <1>8, <1>9, <1>10 DEF y, q

(***************************************************************************)
(* Where a word's bytes lie                                                *)
(***************************************************************************)
\* An access that reaches a byte outside memory does not pass: a word whose
\* first and last byte are inside is inside.
LEMMA ReachedWordFits ==
  ASSUME NEW a \in Word, BytePosition(a, 0) \in Address, BytePosition(a, 3) \in Address
  PROVE  a \in Address /\ a + 3 \in Address
<1>1. a \in Nat /\ a < WordSize
  BY Sizes DEF Word
<1>3. a \in Address
  <2>1. ToWord(a + 0) = a
    BY <1>1, WordIsReduced
  <2>. QED  BY <2>1, MirrorStays DEF BytePosition
<1>4. a + 3 \in Nat /\ a + 3 < WordSize
  BY <1>3, Sizes DEF Address
<1>5. ToWord(a + 3) = a + 3 /\ a + 3 \in Word
  BY <1>4, Sizes, WordIsReduced DEF Word
<1>6. change_endianness(a + 3, 0) \in Address
  BY <1>5, MirrorStays DEF BytePosition
<1>7. a + 3 \in Address
  BY <1>5, <1>6, MirrorStays
<1>. QED  BY <1>3, <1>7

\* The positions ldr and str compute for such a word.
LEMMA Positions ==
  ASSUME NEW a \in Address, a + 3 \in Address, NEW k \in 0 .. 3
  PROVE  /\ a + k \in Address /\ a + (3 - k) \in Address
         /\ BytePosition(a, k) = change_endianness(a + k, 0)
         /\ StorePosition(a, k) = change_endianness(a + (3 - k), 0)
<1>1. a \in Nat /\ a + k \in Address /\ a + (3 - k) \in Address
  BY Sizes DEF Address
<1>2. a + k \in Word /\ a + (3 - k) \in Word
  BY <1>1, Sizes DEF Address, Word
<1>3. ToWord(a + k) = a + k
  BY <1>2, WordIsReduced
<1>4. BytePosition(a, k) = change_endianness(a + k, 0)
  BY <1>2, <1>3, MirrorStays DEF BytePosition
<1>5. change_endianness(a + k, a % 4) = a + (3 - k)
  BY <1>1, MirrorAbout
<1>6. StorePosition(a, k) = change_endianness(a + (3 - k), 0)
  BY <1>2, <1>3, <1>5, MirrorStays DEF StorePosition
<1>. QED  BY <1>1, <1>4, <1>6

\* Addresses are addresses of words' bytes.
LEMMA AddressIsWord == Address \subseteq Word /\ Address \subseteq Nat
BY Sizes DEF Address, Word

==============================================================================
