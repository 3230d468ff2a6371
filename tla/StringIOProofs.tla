---------------------------- MODULE StringIOProofs ----------------------------
(***************************************************************************)
(* A string literal that compiled code stores word by word prints back     *)
(* whole, for every width of a byte, size of memory, literal and order of  *)
(* stores, inputs and prints.                                              *)
(***************************************************************************)
EXTENDS StringIO, ProcessorLemmas, SequenceTheorems, FiniteSetTheorems

(***************************************************************************)
(* The words of a literal                                                  *)
(***************************************************************************)
LEMMA CharType ==
  ASSUME NEW s \in Seq(Byte), NEW n \in Int
  PROVE  Char(s, n) \in Byte
BY WordIsNat DEF Char

\* There is a word for the NUL, unless too many backslashes go uncounted.
LEMMA WordsCounted ==
  ASSUME NEW s \in Seq(Byte)
  PROVE  /\ Counted(s) \in Nat
         /\ num_ins(s) \in Nat \ {0}
         /\ BackslashesFit(s) => Len(s) + 1 <= 4 * num_ins(s)
<1>. DEFINE c == Counted(s)
            l == Len(s)
            n == num_ins(s)
<1>1. c \in Nat /\ l \in Nat
  <2>1. IsFiniteSet(DOMAIN s)
    <3>1. DOMAIN s = 1 .. Len(s) /\ Len(s) \in Nat
      OBVIOUS
    <3>. QED  BY <3>1, FS_Interval
  <2>2. IsFiniteSet({k \in DOMAIN s : s[k] # BACKSLASH})
    BY <2>1, FS_Subset
  <2>. QED  BY <2>2, FS_CardinalityType DEF Counted
<1>2. n = (c + 4) \div 4
  BY DEF num_ins
<1>. HIDE DEF c, l, n
<1>3. n \in Int /\ (c + 4) % 4 \in 0 .. 3 /\ c + 4 = 4 * n + ((c + 4) % 4)
  BY <1>1, <1>2, InItsWord
<1>4. l \div 4 \in Int /\ l % 4 \in 0 .. 3 /\ l = 4 * (l \div 4) + (l % 4)
  BY <1>1, InItsWord
<1>5. n \in Nat \ {0}
  BY <1>1, <1>3
<1>6. ASSUME l - c <= l % 4 PROVE l + 1 <= 4 * n
  <2>. DEFINE q == l \div 4  r == l % 4  r1 == (c + 4) % 4
  <2>. HIDE DEF q, r, r1
  <2>1. q \in Int /\ r \in 0 .. 3 /\ l = 4 * q + r /\ l - c <= r
    BY <1>4, <1>6 DEF q, r
  <2>2. r1 \in 0 .. 3 /\ c + 4 = 4 * n + r1
    BY <1>3 DEF r1
  <2>3. q < n
    BY <1>1, <1>3, <2>1, <2>2
  <2>. QED  BY <1>1, <1>3, <2>1, <2>3
<1>. QED  BY <1>1, <1>5, <1>6 DEF BackslashesFit, c, l, n

\* Storing a word's characters puts each in the byte of its place, mirrored in
\* its bits, and leaves every other byte alone.
LEMMA StoredWord ==
  ASSUME NEW m \in [Address -> Byte], NEW s \in Seq(Byte), NEW i \in Nat,
         NEW x \in Address, x + 3 \in Address, x % 4 = 0, NEW b \in Address
  PROVE  StoreWord(m, x, PackedWord(s, i))[b]
           = IF b \in x .. x + 3 THEN ReverseByte[Char(s, 4 * i + 1 + (b - x))] ELSE m[b]
<1>. DEFINE chars == [k \in 0 .. 3 |-> Char(s, 4 * i + 4 - k)]
            w == PackedWord(s, i)
<1>1. w = WordOf(chars)
  BY DEF PackedWord
<1>2. chars \in [0 .. 3 -> Byte]
  BY CharType
<1>3. x \in Nat /\ b \in Nat
  BY AddressIsWord
<1>4. ASSUME NEW k \in 0 .. 3 PROVE StorePosition(x, k) = x + k
  <2>1. StorePosition(x, k) = change_endianness(x + (3 - k), 0)
    BY Positions
  <2>2. x = 4 * (x \div 4) + 0 /\ x \div 4 \in Int
    BY <1>3, InItsWord
  <2>3. 3 - k \in 0 .. 3
    OBVIOUS
  <2>4. change_endianness(4 * (x \div 4) + (3 - k), 0) = 4 * (x \div 4) + (3 - (3 - k))
    BY <2>2, <2>3, Mirror
  <2>. DEFINE q == x \div 4
  <2>. HIDE DEF q
  <2>5. x + (3 - k) = 4 * q + (3 - k) /\ 4 * q + (3 - (3 - k)) = x + k
    BY <1>3, <2>2 DEF q
  <2>. QED  BY <2>1, <2>4, <2>5 DEF q
<1>. HIDE DEF w
<1>5. CASE b \in x .. x + 3
  <2>. DEFINE j == b - x
  <2>1. j \in 0 .. 3 /\ 3 - j \in 0 .. 3 /\ b = x + j
    BY <1>3, <1>5
  <2>2. \A k \in 0 .. 3 : StorePosition(x, k) = b <=> k = j
    BY <1>3, <1>4, <2>1
  <2>. HIDE DEF j
  <2>3. j = CHOOSE k \in 0 .. 3 : StorePosition(x, k) = b
    BY <2>1, <2>2
  <2>4. StoreWord(m, x, w)[b] = ReverseByte[ByteOf(w, 3 - j)]
    BY <2>1, <2>2, <2>3 DEF StoreWord
  <2>5. ByteOf(w, 3 - j) = chars[3 - j]
    <3>. HIDE DEF chars
    <3>. QED  BY <1>1, <1>2, <2>1, BytesOfWord
  <2>6. chars[3 - j] = Char(s, 4 * i + 4 - (3 - j))
    BY <2>1
  <2>7. 4 * i + 4 - (3 - j) = 4 * i + 1 + (b - x)
    BY <1>3, <2>1
  <2>. QED  BY <1>5, <2>4, <2>5, <2>6, <2>7 DEF w
<1>6. CASE b \notin x .. x + 3
  <2>1. \A k \in 0 .. 3 : StorePosition(x, k) # b
    BY <1>3, <1>4, <1>6
  <2>. QED  BY <1>6, <2>1 DEF StoreWord, w
<1>. QED  BY <1>5, <1>6

LEMMA PackedWordType ==
  ASSUME NEW s \in Seq(Byte), NEW i \in Nat
  PROVE  PackedWord(s, i) \in Word
<1>. DEFINE chars == [k \in 0 .. 3 |-> Char(s, 4 * i + 4 - k)]
<1>1. chars \in [0 .. 3 -> Byte]
  BY CharType
<1>. QED  BY <1>1, WordOfType DEF PackedWord

(***************************************************************************)
(* Types                                                                   *)
(***************************************************************************)
LEMMA HoldingType ==
  ASSUME TypeOK, NEW at \in Places, NEW s \in Seq(Byte), NEW length \in Nat
  PROVE  Holding(at, s, length) \in [Places -> Seq(Byte)]
<1>1. <<>> \in Seq(Byte)
  OBVIOUS
<1>. QED  BY <1>1 DEF TypeOK, Holding

\* The word that is stored next, and where it belongs.
NextWord == num_ins(held[into]) - left
NextAddress == into + 4 * NextWord
NextPacked == PackedWord(held[into], NextWord)

BeingStored ==
  left > 0 =>
    /\ left <= num_ins(held[into])
    /\ into \notin typed
    /\ into + 4 * num_ins(held[into]) \in Address
    /\ \A at \in Places \ {into} :
         held[at] # <<>> =>
           Spans(at, held[at]) \cap (into .. into + 4 * num_ins(held[into]) - 1) = {}

\* The next word lies within memory.
LEMMA NextWordFits ==
  ASSUME TypeOK, BeingStored, left > 0
  PROVE  /\ held[into] \in Seq(Byte)
         /\ NextWord \in Nat /\ NextWord < num_ins(held[into]) /\ num_ins(held[into]) \in Nat
         /\ left = num_ins(held[into]) - NextWord
         /\ into \in Nat
         /\ into + 4 * NextWord \in Address /\ into + 4 * NextWord + 3 \in Address
         /\ into + 4 * NextWord + 4 \in Address
         /\ (into + 4 * NextWord) % 4 = 0
<1>1. /\ held[into] \in Seq(Byte) /\ into \in Places /\ left \in Nat
      /\ into \in Address /\ into % 4 = 0 /\ into \in Nat
  BY AddressIsWord, StringsAssumption DEF TypeOK
<1>. DEFINE n == num_ins(held[into])
<1>2. n \in Nat
  BY <1>1, WordsCounted
<1>3. left <= n /\ into + 4 * n \in Address
  BY DEF BeingStored
<1>. HIDE DEF n
<1>4. NextWord = n - left /\ NextWord \in Nat /\ NextWord < n
  BY <1>1, <1>2, <1>3 DEF NextWord, n
<1>5. /\ into + 4 * NextWord \in Address /\ into + 4 * NextWord + 3 \in Address
      /\ into + 4 * NextWord + 4 \in Address
  BY <1>1, <1>2, <1>3, <1>4, Sizes DEF Address
<1>6. (into + 4 * NextWord) % 4 = 0
  <2>. DEFINE q == into \div 4
  <2>1. into = 4 * q + 0 /\ q \in Int
    BY <1>1, InItsWord
  <2>. HIDE DEF q
  <2>2. into + 4 * NextWord = 4 * (q + NextWord) + 0 /\ q + NextWord \in Int
    BY <1>4, <2>1
  <2>. QED  BY <2>2, Mirror
<1>. QED  BY <1>1, <1>2, <1>4, <1>5, <1>6 DEF n

\* What `mov', `lsl' and `add' put together is the address.
LEMMA AddressComputed ==
  ASSUME NEW x \in Address
  PROVE  HighByte(x) * ImmediateSize + LowByte(x) = x
<1>. DEFINE n == ImmediateSize
            q == x \div n
            r == x % n
<1>1. n \in Nat \ {0} /\ x \in Nat /\ x < n * n
  <2>1. n \in Nat \ {0} /\ MemSize <= n * n
    BY StringsAssumption
  <2>2. x \in Nat /\ x < MemSize /\ MemSize \in Nat
    BY Sizes DEF Address
  <2>. HIDE DEF n
  <2>3. n * n \in Nat
    BY <2>1
  <2>. QED  BY <2>1, <2>2, <2>3
<1>. HIDE DEF n
<1>2. q \in Int /\ r \in 0 .. n - 1 /\ x = n * q + r
  BY <1>1, Z3
<1>. HIDE DEF q, r
<1>3. q \in 0 .. n - 1
  <2>1. q >= 0
    BY <1>1, <1>2, Z3
  <2>2. q < n
    BY <1>1, <1>2, Z3
  <2>. QED  BY <1>1, <1>2, <2>1, <2>2
<1>4. q % n = q
  <2>1. q = n * 0 + q
    BY <1>1, <1>2
  <2>. QED  BY <1>1, <1>2, <1>3, <2>1, RemainderIsUnique
<1>5. HighByte(x) = q /\ LowByte(x) = r
  BY <1>4 DEF HighByte, LowByte, q, r, n
<1>6. n * q = q * n
  BY <1>1, <1>2
<1>. QED  BY <1>2, <1>5, <1>6 DEF n

\* A word of a literal reaches memory: the byte after it is memory's too.
LEMMA WordReaches ==
  ASSUME NEW x \in Address, x + 4 \in Address
  PROVE  ReachesMemory(x)
<1>1. x \in Nat /\ MemSize \in Nat /\ x < MemSize /\ x \in Word /\ x + 4 \in Word
  BY AddressIsWord, Sizes DEF Address
<1>2. ~IsGpioPin(x)
  <2>1. GpioStart \in Nat /\ GpioStart >= MemSize
    BY MemoryAssumption, WordIsNat, <1>1 DEF Word, Address
  <2>. QED  BY <1>1, <2>1 DEF IsGpioPin
<1>3. ~IsGpioSwitch(x)
  BY MemoryAssumption DEF IsGpioSwitch
<1>4. PassesBoundsCheck(x)
  <2>1. ToWord(x + BYTES_PER_INSTRUCTION) = x + 4
    BY <1>1, WordIsReduced DEF BYTES_PER_INSTRUCTION
  <2>2. ToWord(change_endianness(x + 4, 0)) \in Address
    BY <1>1, MirrorStays
  <2>. QED  BY <1>1, <2>1, <2>2 DEF PassesBoundsCheck, Address
<1>. QED  BY <1>2, <1>3, <1>4 DEF ReachesMemory

LEMMA InitType == Init => TypeOK
<1>1. 0 \in Byte /\ <<>> \in Seq(Byte)
  BY WordIsNat
<1>. QED  BY <1>1 DEF Init, TypeOK

LEMMA TypeStep == TypeOK /\ BeingStored /\ [Next]_vars => TypeOK'
<1>. SUFFICES ASSUME TypeOK, BeingStored, [Next]_vars PROVE TypeOK'
  OBVIOUS
<1>1. CASE StoreNextWord
  <2>1. PICK a \in StoreAddresses(NextAddress), w \in WordsToStore(NextAddress, NextPacked) :
          /\ StoreAt(a, w)
          /\ astray' = IF Computed(NextAddress) THEN astray
                       ELSE astray \cup {into} \cup Touched(a)
    BY <1>1 DEF StoreNextWord, NextAddress, NextPacked, NextWord
  <2>2. NextPacked \in Word /\ NextAddress \in Address
    BY <1>1, NextWordFits, PackedWordType DEF StoreNextWord, NextAddress, NextPacked
  <2>3. w \in Word
    BY <2>2, StringsAssumption DEF WordsToStore
  <2>4. a \in Int
    BY <2>2, AddressComputed, AddressIsWord, StringsAssumption, WordIsNat DEF StoreAddresses
  <2>5. memory' \in [Address -> Byte]
    BY <2>1, <2>3, <2>4, StoreWordType DEF StoreAt, TypeOK
  <2>6. astray' \in SUBSET Places
    BY <2>1 DEF Touched, TypeOK
  <2>. QED  BY <1>1, <2>5, <2>6 DEF StoreNextWord, TypeOK
<1>2. ASSUME NEW at \in Places, NEW s \in Literals, StartLiteral(at, s)
      PROVE  TypeOK'
  <2>1. s \in Seq(Byte)
    BY StringsAssumption
  <2>2. num_ins(s) \in Nat
    BY <2>1, WordsCounted
  <2>3. held' \in [Places -> Seq(Byte)]
    BY <1>2, <2>1, <2>2, HoldingType DEF StartLiteral
  <2>. QED  BY <1>2, <2>2, <2>3 DEF StartLiteral, TypeOK
<1>3. ASSUME NEW at \in Places, NEW s \in InputStrings, InputString(at, s)
      PROVE  TypeOK'
  <2>1. s \in Seq(Byte) /\ Len(s) \in Nat
    BY EnvironmentAssumption
  <2>2. held' \in [Places -> Seq(Byte)]
    BY <1>3, <2>1, HoldingType DEF InputString
  <2>3. at \in Nat
    BY StringsAssumption, AddressIsWord
  <2>4. \A b \in Address : b \in at .. at + Len(s) - 1 => s[b - at + 1] \in Byte
    BY <2>1, <2>3, AddressIsWord
  <2>5. memory' \in [Address -> Byte]
    BY <1>3, <2>4, WordIsNat DEF InputString, TypeOK
  <2>. QED  BY <1>3, <2>2, <2>5 DEF InputString, TypeOK
<1>4. ASSUME NEW at \in Places, PrintString(at)
      PROVE  TypeOK'
  <2>1. at \in Nat /\ MemSize \in Nat
    BY StringsAssumption, AddressIsWord, Sizes
  <2>2. PICK n \in 0 .. MemSize - 1 - at :
          printed' = [k \in 1 .. n |-> ReverseByte[memory[at + k - 1]]]
    BY <1>4 DEF PrintString
  <2>3. \A k \in 1 .. n : ReverseByte[memory[at + k - 1]] \in Byte
    <3>1. \A k \in 1 .. n : at + k - 1 \in Address
      BY <2>1 DEF Address
    <3>. QED  BY <3>1, BitsAssumption DEF TypeOK
  <2>4. printed' \in Seq(Byte)
    BY <2>1, <2>2, <2>3, IsASeq
  <2>. QED  BY <1>4, <2>4 DEF PrintString, TypeOK
<1>5. CASE UNCHANGED vars
  BY <1>5 DEF vars, TypeOK
<1>. QED  BY <1>1, <1>2, <1>3, <1>4, <1>5 DEF Next, PrintLiteral, PrintTyped

(***************************************************************************)
(* What memory holds of the literals                                       *)
(***************************************************************************)
\* How many of a literal's bytes, its NUL among them, are stored.
Written(at) == IF left > 0 /\ at = into THEN 4 * NextWord ELSE Len(held[at]) + 1

KeepsLiteral(at) ==
  at \notin typed /\ at \notin astray /\ held[at] # <<>> /\ BackslashesFit(held[at])

LiteralsInMemory ==
  \A at \in Places :
    KeepsLiteral(at) =>
      /\ held[at] \in Literals
      /\ at + Len(held[at]) \in Address
      /\ \A k \in 0 .. Len(held[at]) :
           k < Written(at) => memory[at + k] = ReverseByte[Char(held[at], k + 1)]

StringInv == TypeOK /\ BeingStored /\ LiteralsInMemory

\* What a place holds after another string is put at `at'.
LEMMA HeldAfter ==
  ASSUME NEW at \in Places, NEW s, NEW length, held' = Holding(at, s, length),
         NEW a \in Places, a # at, held'[a] # <<>>
  PROVE  /\ held'[a] = held[a]
         /\ Spans(a, held[a]) \cap (at .. at + length - 1) = {}
BY DEF Holding

\* A word stored where it belongs.
StoresNext ==
  /\ left > 0 /\ left' = left - 1
  /\ UNCHANGED <<held, typed, into, astray>>
  /\ memory' = StoreWord(memory, NextAddress, NextPacked)

\* A store to an address that a multiply made spoils its literal, and those
\* it hits.
StoresElsewhere ==
  /\ left > 0 /\ left' = left - 1
  /\ UNCHANGED <<held, typed, into>>
  /\ into \in astray' /\ astray \subseteq astray'
  /\ \A at \in Places \ astray' : \A b \in Address :
       b \in Spans(at, held[at]) => memory'[b] = memory[b]

LEMMA StoresOneOrOther ==
  ASSUME StringInv, StoreNextWord
  PROVE  StoresNext \/ StoresElsewhere
<1>1. PICK a \in StoreAddresses(NextAddress), w \in WordsToStore(NextAddress, NextPacked) :
        /\ StoreAt(a, w)
        /\ astray' = IF Computed(NextAddress) THEN astray
                     ELSE astray \cup {into} \cup Touched(a)
  BY DEF StoreNextWord, NextAddress, NextPacked, NextWord
<1>2. left > 0 /\ left' = left - 1 /\ UNCHANGED <<held, typed, into>>
  BY DEF StoreNextWord
<1>3. CASE Computed(NextAddress)
  <2>1. NextAddress \in Address /\ NextAddress + 4 \in Address
    BY <1>2, NextWordFits DEF StringInv, NextAddress
  <2>2. a = NextAddress
    BY <1>1, <1>3, <2>1, AddressComputed DEF StoreAddresses
  <2>3. w = NextPacked
    <3>1. HighByte(NextAddress) \notin MultiplyImmediates
      BY <1>3 DEF Computed
    <3>. QED  BY <1>1, <3>1 DEF WordsToStore
  <2>4. ReachesMemory(a)
    BY <2>1, <2>2, WordReaches
  <2>. QED  BY <1>1, <1>2, <1>3, <2>2, <2>3, <2>4 DEF StoresNext, StoreAt
<1>4. CASE ~Computed(NextAddress)
  <2>1. astray' = astray \cup {into} \cup Touched(a)
    BY <1>1, <1>4
  <2>2. ASSUME NEW at \in Places \ astray', NEW b \in Address, b \in Spans(at, held[at])
        PROVE  memory'[b] = memory[b]
    <3>1. CASE ~ReachesMemory(a)
      BY <1>1, <3>1 DEF StoreAt
    <3>2. CASE ReachesMemory(a)
      <4>1. at \notin Touched(a)
        BY <2>1, <2>2
      <4>2. \A k \in 0 .. 3 : StorePosition(a, k) # b
        BY <2>2, <3>2, <4>1 DEF Touched
      <4>3. memory' = StoreWord(memory, a, w)
        BY <1>1, <3>2 DEF StoreAt
      <4>. QED  BY <4>2, <4>3 DEF StoreWord
    <3>. QED  BY <3>1, <3>2
  <2>. QED  BY <1>2, <2>1, <2>2 DEF StoresElsewhere
<1>. QED  BY <1>3, <1>4

LEMMA ElsewhereStep ==
  ASSUME StringInv, StoresElsewhere
  PROVE  BeingStored' /\ LiteralsInMemory'
<1>1. /\ left > 0 /\ left' = left - 1 /\ left \in Nat
      /\ UNCHANGED <<held, typed, into>> /\ into \in astray' /\ astray \subseteq astray'
  BY DEF StoresElsewhere, StringInv, TypeOK
<1>2. BeingStored'
  <2>1. num_ins(held[into]) \in Nat
    BY <1>1, NextWordFits DEF StringInv
  <2>. QED  BY <1>1, <2>1 DEF StringInv, BeingStored
<1>3. ASSUME NEW at \in Places, KeepsLiteral(at)'
      PROVE  /\ held'[at] \in Literals
             /\ at + Len(held'[at]) \in Address
             /\ \A k \in 0 .. Len(held'[at]) :
                  k < Written(at)' => memory'[at + k] = ReverseByte[Char(held'[at], k + 1)]
  <2>1. at \notin astray' /\ at # into /\ KeepsLiteral(at)
    BY <1>1, <1>3 DEF KeepsLiteral
  <2>2. /\ held[at] \in Literals /\ at + Len(held[at]) \in Address
        /\ \A k \in 0 .. Len(held[at]) :
             k < Written(at) => memory[at + k] = ReverseByte[Char(held[at], k + 1)]
    BY <2>1 DEF StringInv, LiteralsInMemory
  <2>3. Len(held[at]) \in Nat /\ at \in Nat
    <3>1. held[at] \in Seq(Byte)
      BY DEF StringInv, TypeOK
    <3>2. at \in Nat
      BY StringsAssumption, AddressIsWord
    <3>. QED  BY <3>1, <3>2
  <2>4. ASSUME NEW k \in 0 .. Len(held[at])
        PROVE  memory'[at + k] = memory[at + k]
    <3>1. at + k \in Address /\ at + k \in Spans(at, held[at])
      BY <2>2, <2>3, Sizes DEF Address, Spans
    <3>. QED  BY <2>1, <3>1 DEF StoresElsewhere
  <2>5. Written(at)' = Written(at)
    BY <1>1, <2>1 DEF Written
  <2>. QED  BY <1>1, <2>2, <2>4, <2>5
<1>. QED  BY <1>2, <1>3 DEF LiteralsInMemory

LEMMA StoreStep ==
  ASSUME StringInv, StoresNext
  PROVE  BeingStored' /\ LiteralsInMemory'
<1>. DEFINE s == held[into]
            i == NextWord
            x == into + 4 * i
<1>1. /\ s \in Seq(Byte) /\ i \in Nat /\ i < num_ins(s) /\ num_ins(s) \in Nat
      /\ left = num_ins(s) - i /\ into \in Nat
      /\ x \in Address /\ x + 3 \in Address /\ x % 4 = 0
  BY NextWordFits DEF StringInv, StoresNext
<1>2. /\ left > 0 /\ left' = left - 1
      /\ UNCHANGED <<held, typed, into, astray>>
      /\ memory' = StoreWord(memory, x, PackedWord(s, i))
  BY DEF StoresNext, NextAddress, NextPacked
<1>3. /\ left <= num_ins(s) /\ into \notin typed /\ into + 4 * num_ins(s) \in Address
      /\ \A at \in Places \ {into} :
           held[at] # <<>> =>
             Spans(at, held[at]) \cap (into .. into + 4 * num_ins(s) - 1) = {}
  BY <1>2 DEF StringInv, BeingStored
<1>4. memory \in [Address -> Byte] /\ held \in [Places -> Seq(Byte)]
  BY DEF StringInv, TypeOK
<1>. HIDE DEF i, x, s
<1>5. ASSUME NEW b \in Address
      PROVE  memory'[b] = IF b \in x .. x + 3 THEN ReverseByte[Char(s, 4 * i + 1 + (b - x))]
                                              ELSE memory[b]
  <2>1. StoreWord(memory, x, PackedWord(s, i))[b]
          = IF b \in x .. x + 3 THEN ReverseByte[Char(s, 4 * i + 1 + (b - x))] ELSE memory[b]
    BY <1>1, <1>4, StoredWord
  <2>. QED  BY <1>2, <2>1
<1>6. BeingStored'
  BY <1>1, <1>2, <1>3 DEF BeingStored, s
<1>7. ASSUME NEW at \in Places, KeepsLiteral(at)'
      PROVE  /\ held'[at] \in Literals
             /\ at + Len(held'[at]) \in Address
             /\ \A k \in 0 .. Len(held'[at]) :
                  k < Written(at)' => memory'[at + k] = ReverseByte[Char(held'[at], k + 1)]
  <2>1. KeepsLiteral(at)
    BY <1>2, <1>7 DEF KeepsLiteral
  <2>2. /\ held[at] \in Literals /\ at + Len(held[at]) \in Address
        /\ \A k \in 0 .. Len(held[at]) :
             k < Written(at) => memory[at + k] = ReverseByte[Char(held[at], k + 1)]
    BY <2>1 DEF StringInv, LiteralsInMemory
  <2>. SUFFICES ASSUME NEW k \in 0 .. Len(held[at]), k < Written(at)'
                PROVE  memory'[at + k] = ReverseByte[Char(held[at], k + 1)]
    BY <1>2, <2>2
  <2>3. held[at] \in Seq(Byte) /\ Len(held[at]) \in Nat /\ at \in Nat /\ at + k \in Address
    BY <1>4, <2>2, StringsAssumption, AddressIsWord, Sizes DEF Address
  <2>4. CASE at # into
    <3>1. at + k \notin into .. into + 4 * num_ins(s) - 1
      <4>1. at + k \in Spans(at, held[at])
        BY <2>3 DEF Spans
      <4>. QED  BY <1>3, <2>1, <2>4, <4>1 DEF KeepsLiteral
    <3>2. at + k \notin x .. x + 3
      <4>. DEFINE n == num_ins(s)
      <4>1. n \in Nat /\ i \in Nat /\ i < n /\ into \in Nat
        BY <1>1
      <4>2. at + k \notin into .. into + 4 * n - 1 /\ at + k \in Nat
        BY <2>3, <3>1
      <4>. HIDE DEF n
      <4>. QED  BY <4>1, <4>2 DEF x
    <3>3. k < Written(at)
      BY <2>3, <2>4 DEF Written
    <3>. QED  BY <1>5, <2>2, <2>3, <3>2, <3>3
  <2>5. CASE at = into
    <3>1. k < 4 * i + 4
      <4>1. CASE left' > 0
        <5>1. Written(at)' = 4 * (num_ins(s) - left')
          BY <1>2, <2>5, <4>1 DEF Written, NextWord, s
        <5>. QED  BY <1>1, <1>2, <5>1
      <4>2. CASE ~(left' > 0)
        <5>1. Len(s) + 1 <= 4 * num_ins(s)
          BY <1>1, <2>1, <2>5, WordsCounted DEF KeepsLiteral, s
        <5>2. num_ins(s) = i + 1
          BY <1>1, <1>2, <4>2
        <5>. QED  BY <1>1, <2>3, <2>5, <5>1, <5>2 DEF s
      <4>. QED  BY <4>1, <4>2
    <3>2. CASE k < 4 * i
      <4>1. k < Written(at)
        BY <1>2, <2>5, <3>2 DEF Written, i
      <4>2. at + k \notin x .. x + 3
        BY <1>1, <2>3, <2>5, <3>2 DEF x
      <4>. QED  BY <1>5, <2>2, <2>3, <4>1, <4>2
    <3>3. CASE ~(k < 4 * i)
      <4>1. /\ x = into + 4 * i /\ into \in Nat /\ i \in Nat /\ at = into
            /\ k \in Nat /\ k >= 4 * i /\ k <= 4 * i + 3
        BY <1>1, <2>3, <2>5, <3>1, <3>3 DEF x
      <4>2. PICK b \in Address : b = at + k
        BY <2>3
      <4>3. b \in x .. x + 3 /\ 4 * i + 1 + (b - x) = k + 1
        BY <4>1, <4>2
      <4>4. memory'[b] = ReverseByte[Char(s, 4 * i + 1 + (b - x))]
        BY <1>5, <4>3
      <4>. QED  BY <2>5, <4>2, <4>3, <4>4 DEF s
    <3>. QED  BY <3>2, <3>3
  <2>. QED  BY <2>4, <2>5
<1>. QED  BY <1>6, <1>7 DEF LiteralsInMemory

LEMMA StartStep ==
  ASSUME StringInv, NEW at \in Places, NEW s \in Literals, StartLiteral(at, s)
  PROVE  BeingStored' /\ LiteralsInMemory'
<1>1. /\ left = 0 /\ at + 4 * num_ins(s) \in Address
      /\ into' = at /\ left' = num_ins(s) /\ memory' = memory
      /\ held' = Holding(at, s, 4 * num_ins(s))
      /\ typed' = typed \ Renewed(at) /\ astray' = astray \ Renewed(at)
      /\ at \in Renewed(at) /\ \A a \in Renewed(at) : a = at \/ held'[a] = <<>>
  BY DEF StartLiteral, Renewed
<1>2. held'[at] = s /\ s \in Seq(Byte)
  BY <1>1, StringsAssumption DEF Holding
<1>3. /\ num_ins(s) \in Nat \ {0} /\ at \in Nat /\ Len(s) \in Nat
      /\ BackslashesFit(s) => Len(s) + 1 <= 4 * num_ins(s)
  <2>1. at \in Nat
    BY StringsAssumption, AddressIsWord
  <2>2. s \in Seq(Byte) /\ Len(s) \in Nat
    BY <1>2
  <2>. QED  BY <2>1, <2>2, WordsCounted
<1>4. BeingStored'
  <2>1. \A a \in Places \ {at} :
          held'[a] # <<>> => Spans(a, held'[a]) \cap (at .. at + 4 * num_ins(s) - 1) = {}
    BY <1>1, HeldAfter
  <2>2. num_ins(held'[into']) = num_ins(s) /\ into' = at /\ into' \notin typed'
    BY <1>1, <1>2
  <2>3. left' <= num_ins(held'[into']) /\ into' + 4 * num_ins(held'[into']) \in Address
    BY <1>1, <1>3, <2>2
  <2>. QED  BY <2>1, <2>2, <2>3 DEF BeingStored
<1>5. ASSUME NEW a \in Places, KeepsLiteral(a)'
      PROVE  /\ held'[a] \in Literals
             /\ a + Len(held'[a]) \in Address
             /\ \A k \in 0 .. Len(held'[a]) :
                  k < Written(a)' => memory'[a + k] = ReverseByte[Char(held'[a], k + 1)]
  <2>1. CASE a = at
    <3>1. BackslashesFit(s)
      BY <1>2, <1>5, <2>1 DEF KeepsLiteral, BackslashesFit, Counted
    <3>2. at + Len(s) \in Address
      <4>. DEFINE n == num_ins(s)
                  l == Len(s)
      <4>1. at \in Nat /\ n \in Nat /\ l \in Nat /\ l + 1 <= 4 * n /\ MemSize \in Nat
        BY <1>3, <3>1, Sizes
      <4>2. at + 4 * n \in 0 .. MemSize - 1
        BY <1>1 DEF Address
      <4>. HIDE DEF n, l
      <4>3. at + l \in 0 .. MemSize - 1
        BY <4>1, <4>2
      <4>. QED  BY <4>3 DEF Address, l
    <3>3. Written(a)' = 0
      <4>1. left' > 0
        BY <1>1, <1>3
      <4>2. num_ins(held'[into']) - left' = 0
        BY <1>1, <1>2, <1>3
      <4>3. NextWord' = 0
        BY <4>2 DEF NextWord
      <4>. QED  BY <1>1, <2>1, <4>1, <4>3 DEF Written
    <3>. QED  BY <1>2, <1>3, <2>1, <3>2, <3>3
  <2>2. CASE a # at
    <3>1. held'[a] = held[a] /\ a \notin typed /\ a \notin astray
      BY <1>1, <1>5, <2>2, HeldAfter DEF KeepsLiteral
    <3>2. KeepsLiteral(a)
      BY <1>5, <3>1 DEF KeepsLiteral
    <3>3. Written(a)' = Len(held[a]) + 1 /\ Written(a) = Len(held[a]) + 1
      BY <1>1, <2>2, <3>1 DEF Written
    <3>. QED  BY <1>1, <3>1, <3>2, <3>3 DEF StringInv, LiteralsInMemory
  <2>. QED  BY <2>1, <2>2
<1>. QED  BY <1>4, <1>5 DEF LiteralsInMemory

LEMMA InputStep ==
  ASSUME StringInv, NEW at \in Places, NEW s \in InputStrings, InputString(at, s)
  PROVE  BeingStored' /\ LiteralsInMemory'
<1>1. /\ left = 0 /\ left' = 0
      /\ memory' = [b \in Address |->
                      IF b \in at .. at + Len(s) - 1 THEN s[b - at + 1]
                      ELSE IF b = at + Len(s) THEN 0 ELSE memory[b]]
      /\ held' = Holding(at, s, Len(s) + 1)
      /\ typed' = (typed \ Renewed(at)) \cup {at} /\ astray' = astray \ Renewed(at)
      /\ at \in Renewed(at) /\ \A a \in Renewed(at) : a = at \/ held'[a] = <<>>
  BY DEF InputString, Renewed
<1>2. BeingStored'
  BY <1>1 DEF BeingStored
<1>3. ASSUME NEW a \in Places, KeepsLiteral(a)'
      PROVE  /\ held'[a] \in Literals
             /\ a + Len(held'[a]) \in Address
             /\ \A k \in 0 .. Len(held'[a]) :
                  k < Written(a)' => memory'[a + k] = ReverseByte[Char(held'[a], k + 1)]
  <2>1. a # at
    BY <1>1, <1>3 DEF KeepsLiteral
  <2>2. /\ held'[a] = held[a] /\ a \notin typed /\ a \notin astray
        /\ Spans(a, held[a]) \cap (at .. at + (Len(s) + 1) - 1) = {}
    BY <1>1, <1>3, <2>1, HeldAfter DEF KeepsLiteral
  <2>3. KeepsLiteral(a)
    BY <1>3, <2>2 DEF KeepsLiteral
  <2>4. Written(a) = Len(held[a]) + 1
    BY <1>1 DEF Written
  <2>5. /\ held[a] \in Literals /\ a + Len(held[a]) \in Address
        /\ \A k \in 0 .. Len(held[a]) :
             k < Written(a) => memory[a + k] = ReverseByte[Char(held[a], k + 1)]
    BY <2>3 DEF StringInv, LiteralsInMemory
  <2>6. /\ Len(s) \in Nat /\ Len(held[a]) \in Nat /\ a \in Nat /\ at \in Nat
    <3>1. s \in Seq(Byte) /\ held[a] \in Seq(Byte)
      BY EnvironmentAssumption DEF StringInv, TypeOK
    <3>2. a \in Nat /\ at \in Nat
      BY StringsAssumption, AddressIsWord
    <3>. QED  BY <3>1, <3>2
  <2>7. ASSUME NEW k \in 0 .. Len(held[a])
        PROVE  memory'[a + k] = memory[a + k]
    <3>1. a + k \in Address /\ a + k \in Nat
      BY <2>5, <2>6, Sizes DEF Address
    <3>2. a + k \notin at .. at + Len(s)
      <4>1. a + k \in Spans(a, held[a])
        BY <2>6 DEF Spans
      <4>2. at + (Len(s) + 1) - 1 = at + Len(s)
        BY <2>6
      <4>. QED  BY <2>2, <4>1, <4>2
    <3>3. a + k \notin at .. at + Len(s) - 1 /\ a + k # at + Len(s)
      BY <2>6, <3>1, <3>2
    <3>. QED  BY <1>1, <3>1, <3>3
  <2>. QED  BY <2>2, <2>4, <2>5, <2>6, <2>7
<1>. QED  BY <1>2, <1>3 DEF LiteralsInMemory

LEMMA QuietStep ==
  ASSUME StringInv, UNCHANGED <<memory, held, typed, into, left, astray>>
  PROVE  BeingStored' /\ LiteralsInMemory'
BY DEF StringInv, BeingStored, LiteralsInMemory, KeepsLiteral, Written, NextWord

LEMMA InitString == Init => StringInv
<1>. SUFFICES ASSUME Init PROVE StringInv
  OBVIOUS
<1>1. BeingStored /\ LiteralsInMemory
  BY DEF Init, BeingStored, LiteralsInMemory, KeepsLiteral
<1>. QED  BY <1>1, InitType DEF StringInv

LEMMA StringStep == StringInv /\ [Next]_vars => StringInv'
<1>. SUFFICES ASSUME StringInv, [Next]_vars PROVE StringInv'
  OBVIOUS
<1>1. TypeOK'
  BY TypeStep DEF StringInv
<1>2. BeingStored' /\ LiteralsInMemory'
  <2>1. CASE StoreNextWord
    BY <2>1, StoresOneOrOther, StoreStep, ElsewhereStep
  <2>2. ASSUME NEW at \in Places, NEW s \in Literals, StartLiteral(at, s)
        PROVE  BeingStored' /\ LiteralsInMemory'
    BY <2>2, StartStep
  <2>3. ASSUME NEW at \in Places, NEW s \in InputStrings, InputString(at, s)
        PROVE  BeingStored' /\ LiteralsInMemory'
    BY <2>3, InputStep
  <2>4. ASSUME NEW at \in Places, PrintString(at)
        PROVE  BeingStored' /\ LiteralsInMemory'
    BY <2>4, QuietStep DEF PrintString
  <2>5. CASE UNCHANGED vars
    BY <2>5, QuietStep DEF vars
  <2>. QED  BY <2>1, <2>2, <2>3, <2>4, <2>5 DEF Next, PrintLiteral, PrintTyped
<1>. QED  BY <1>1, <1>2 DEF StringInv

\* Memory, and what is printed, are bytes, whatever is stored and typed.
THEOREM StringsTyped == Spec => []TypeOK
<1>1. StringInv => TypeOK
  BY DEF StringInv
<1>. QED  BY <1>1, InitString, StringStep, PTL DEF Spec

\* Every literal whose backslashes fit prints whole, and nothing behind it, unless
\* a multiply made one of its addresses or the address of a store that hit it.
THEOREM LiteralsPrintBack == Spec => LiteralPrintsBack
<1>1. ASSUME StringInv, NEW at \in Places, PrintLiteral(at), BackslashesFit(held[at]),
             at \notin astray
      PROVE  printed' = expected'
  <2>. DEFINE s == held[at]
              l == Len(held[at])
  <2>1. /\ left = 0 /\ expected' = s /\ KeepsLiteral(at)
        /\ \E n \in 0 .. MemSize - 1 - at :
             /\ memory[at + n] = 0
             /\ \A k \in 0 .. n - 1 : memory[at + k] # 0
             /\ printed' = [k \in 1 .. n |-> ReverseByte[memory[at + k - 1]]]
    BY <1>1 DEF PrintLiteral, PrintString, KeepsLiteral
  <2>2. PICK n \in 0 .. MemSize - 1 - at :
          /\ memory[at + n] = 0
          /\ \A k \in 0 .. n - 1 : memory[at + k] # 0
          /\ printed' = [k \in 1 .. n |-> ReverseByte[memory[at + k - 1]]]
    BY <2>1
  <2>3. Written(at) = l + 1
    BY <2>1 DEF Written
  <2>4. /\ s \in Literals
        /\ \A k \in 0 .. l : k < l + 1 => memory[at + k] = ReverseByte[Char(s, k + 1)]
    BY <1>1, <2>1, <2>3 DEF StringInv, LiteralsInMemory
  <2>5. s \in Seq(Byte \ {0}) /\ l \in Nat /\ l = Len(s)
    BY <2>4, StringsAssumption
  <2>6. at \in Nat /\ MemSize \in Nat /\ n \in Nat
    <3>1. at \in Nat /\ MemSize \in Nat
      BY StringsAssumption, AddressIsWord, Sizes
    <3>. QED  BY <3>1
  <2>. HIDE DEF s, l
  <2>7. \A k \in 1 .. l : s[k] \in Byte /\ s[k] # 0 /\ memory[at + k - 1] = ReverseByte[s[k]]
    <3>. SUFFICES ASSUME NEW k \in 1 .. l
                  PROVE  s[k] \in Byte /\ s[k] # 0 /\ memory[at + k - 1] = ReverseByte[s[k]]
      OBVIOUS
    <3>1. k - 1 \in 0 .. l /\ k - 1 < l + 1 /\ k - 1 + 1 = k /\ at + (k - 1) = at + k - 1
      BY <2>5, <2>6
    <3>2. memory[at + (k - 1)] = ReverseByte[Char(s, k - 1 + 1)]
      BY <2>4, <3>1
    <3>3. Char(s, k) = s[k] /\ s[k] \in Byte \ {0}
      BY <2>5 DEF Char
    <3>. QED  BY <3>1, <3>2, <3>3
  <2>8. memory[at + l] = 0
    <3>1. Char(s, l + 1) = 0
      BY <2>5 DEF Char
    <3>. QED  BY <2>4, <2>5, <3>1, BitsAssumption
  <2>9. n = l
    <3>1. ~(l < n)
      BY <2>2, <2>5, <2>6, <2>8
    <3>2. ~(n < l)
      <4>. SUFFICES ASSUME n < l PROVE FALSE
        OBVIOUS
      <4>1. n + 1 \in 1 .. l /\ at + (n + 1) - 1 = at + n
        BY <2>5, <2>6
      <4>2. s[n + 1] \in Byte /\ s[n + 1] # 0 /\ ReverseByte[s[n + 1]] = 0
        BY <2>2, <2>7, <4>1
      <4>3. ReverseByte[ReverseByte[s[n + 1]]] = s[n + 1]
        BY <4>2, BitsAssumption
      <4>. QED  BY <4>2, <4>3, BitsAssumption
    <3>. QED  BY <2>5, <2>6, <3>1, <3>2
  <2>10. \A k \in 1 .. l : ReverseByte[memory[at + k - 1]] = s[k]
    BY <2>7, BitsAssumption
  <2>11. printed' = [k \in 1 .. l |-> s[k]]
    BY <2>2, <2>9, <2>10
  <2>12. s = [k \in 1 .. l |-> s[k]]
    BY <2>5
  <2>. QED  BY <2>1, <2>11, <2>12
<1>2. StringInv /\ [Next]_vars =>
        [\A at \in Places :
           PrintLiteral(at) /\ BackslashesFit(held[at]) /\ at \notin astray =>
             printed' = expected']_vars
  BY <1>1
<1>. QED  BY <1>2, InitString, StringStep, PTL DEF Spec, LiteralPrintsBack
==============================================================================
