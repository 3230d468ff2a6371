--------------------------- MODULE ByteMemoryProofs ---------------------------
(***************************************************************************)
(* Reversed and mirrored memory is a little-endian array, for every width  *)
(* of a byte and size of memory.                                           *)
(***************************************************************************)
EXTENDS ByteMemory, ProcessorLemmas

(***************************************************************************)
(* Types                                                                   *)
(***************************************************************************)
LEMMA InitType == Init => TypeOK
<1>. SUFFICES ASSUME NEW image \in Images, memory = LoadedMemory(image), answer = 0
              PROVE  TypeOK
  BY DEF Init
<1>1. InitialProcessor(image) \in ProcessorState
  BY ImagesAssumption, InitialProcessorType
<1>2. LoadedMemory(image) \in [Address -> Byte]
  BY <1>1 DEF InitialProcessor, ProcessorState
<1>. QED  BY <1>2, WordIsNat DEF TypeOK

LEMMA NextType == TypeOK /\ [Next]_vars => TypeOK'
<1>. SUFFICES ASSUME TypeOK, [Next]_vars PROVE TypeOK'
  OBVIOUS
<1>1. CASE UNCHANGED vars
  BY <1>1 DEF vars, TypeOK
<1>2. ASSUME NEW a \in Accesses,
             Load(a) \/ Reject(a) \/ FetchWord(a) \/ \E w \in StoredWords : Store(a, w)
      PROVE  TypeOK'
  <2>1. a \in Word /\ a \in Int
    BY AccessAssumption, WordIsNat
  <2>2. CASE Load(a)
    BY <2>1, <2>2, LoadWordType DEF Load, Accessible, TypeOK
  <2>3. CASE Reject(a)
    BY <2>3 DEF Reject, vars, TypeOK
  <2>4. CASE FetchWord(a)
    <3>1. Latches(memory, a) \subseteq Latch
      BY <2>1, WordIsNat, LatchesType DEF TypeOK
    <3>. QED  BY <2>4, <3>1, LatchWordType DEF FetchWord, TypeOK
  <2>5. ASSUME NEW w \in StoredWords, Store(a, w) PROVE TypeOK'
    BY <2>1, <2>5, AccessAssumption, StoreWordType DEF Store, TypeOK
  <2>. QED  BY <1>2, <2>2, <2>3, <2>4, <2>5
<1>. QED  BY <1>1, <1>2 DEF Next

\* No access, aligned or not, leaves anything but bytes in memory.
THEOREM MemoryType == Spec => []TypeOK
BY InitType, NextType, PTL DEF Spec

(***************************************************************************)
(* The little-endian array                                                 *)
(***************************************************************************)
FlatBytes == [a \in Address |-> ReverseByte[memory[change_endianness(a, 0)]]]

\* load puts each file word's bytes where the array has them.
LEMMA InitFlat == Init => Flat!Init
<1>. SUFFICES ASSUME NEW image \in Images, memory = LoadedMemory(image), answer = 0
              PROVE  FlatBytes = [a \in Address |->
                                    IF a \div 4 < Len(image)
                                      THEN ByteOf(image[a \div 4 + 1], a % 4) ELSE 0]
  BY DEF Init, Flat!Init, FlatBytes
<1>1. ASSUME NEW a \in Address
      PROVE  ReverseByte[memory[change_endianness(a, 0)]]
               = IF a \div 4 < Len(image) THEN ByteOf(image[a \div 4 + 1], a % 4) ELSE 0
  <2>. DEFINE b == change_endianness(a, 0)
  <2>1. b \in Address /\ change_endianness(b, 0) = a /\ b \div 4 = a \div 4
    BY AddressIsWord, MirrorStays
  <2>. HIDE DEF b
  <2>2. memory[b] = IF a \div 4 < Len(image)
                      THEN ReverseByte[ByteOf(image[a \div 4 + 1], a % 4)] ELSE 0
    BY <2>1 DEF LoadedMemory
  <2>3. CASE a \div 4 < Len(image)
    <3>1. a \div 4 \in Int /\ a % 4 \in 0 .. 3 /\ a = 4 * (a \div 4) + (a % 4) /\ a >= 0
      BY InItsWord, Sizes DEF Address
    <3>2. a \div 4 + 1 \in 1 .. Len(image)
      BY <2>3, <3>1, ImagesAssumption
    <3>3. image[a \div 4 + 1] \in Word
      BY <3>2, ImagesAssumption
    <3>4. ByteOf(image[a \div 4 + 1], a % 4) \in Byte
      BY <3>1, <3>3, ByteOfType
    <3>. QED  BY <2>2, <2>3, <3>4, BitsAssumption DEF b
  <2>4. CASE ~(a \div 4 < Len(image))
    BY <2>2, <2>4, BitsAssumption DEF b
  <2>. QED  BY <2>3, <2>4
<1>. QED  BY <1>1 DEF FlatBytes

\* A load, and the fetch of an instruction, return the array's word.
LEMMA LoadIsFlat ==
  ASSUME TypeOK, NEW a \in Accesses, Load(a) \/ FetchWord(a)
  PROVE  a \in Address /\ Flat!Load(a)
<1>1. a \in Word
  BY AccessAssumption
<1>2. a \in Address /\ a + 3 \in Address
  <2>1. CASE Load(a)
    BY <1>1, <2>1, ReachedWordFits DEF Load, Accessible, InBounds
  <2>2. CASE FetchWord(a)
    BY <1>1, <2>2, Sizes DEF FetchWord, Address, Word
  <2>. QED  BY <2>1, <2>2
<1>3. ASSUME NEW k \in 0 .. 3
      PROVE  /\ a + k \in Address
             /\ FlatBytes[a + k] = ReverseByte[memory[change_endianness(a + k, 0)]]
             /\ BytePosition(a, k) = change_endianness(a + k, 0)
  BY <1>2, Positions DEF FlatBytes
<1>4. FlatBytes' = FlatBytes
  BY DEF Load, FetchWord, FlatBytes
<1>5. answer' = WordOf([k \in 0 .. 3 |-> FlatBytes[a + k]])
  <2>1. CASE Load(a)
    <3>1. \A k \in 0 .. 3 : ReverseByte[memory[BytePosition(a, k)]] = FlatBytes[a + k]
      BY <1>3
    <3>2. [k \in 0 .. 3 |-> ReverseByte[memory[BytePosition(a, k)]]]
            = [k \in 0 .. 3 |-> FlatBytes[a + k]]
      BY <3>1
    <3>. QED  BY <2>1, <3>2 DEF Load, LoadWord
  <2>2. CASE FetchWord(a)
    <3>. DEFINE latch == [k \in 0 .. 3 |-> memory[a + k]]
    <3>1. answer' = WordOf([k \in 0 .. 3 |-> ReverseByte[latch[3 - k]]])
      BY <1>2, <2>2 DEF FetchWord, Latches, LatchWord
    <3>2. ASSUME NEW k \in 0 .. 3
          PROVE  ReverseByte[latch[3 - k]] = FlatBytes[a + k]
      <4>. DEFINE q == a \div 4
      <4>1. q \in Int /\ a = 4 * q + 0
        BY <1>2, <2>2, InItsWord, AddressIsWord, WordIsNat DEF FetchWord
      <4>. HIDE DEF q
      <4>2. a + k = 4 * q + k /\ a + (3 - k) = 4 * q + (3 - k)
        BY <4>1
      <4>3. change_endianness(a + k, 0) = a + (3 - k)
        BY <4>1, <4>2, Mirror
      <4>4. 3 - k \in 0 .. 3
        OBVIOUS
      <4>. QED  BY <1>3, <4>3, <4>4
    <3>. HIDE DEF latch
    <3>3. [k \in 0 .. 3 |-> ReverseByte[latch[3 - k]]] = [k \in 0 .. 3 |-> FlatBytes[a + k]]
      BY <3>2
    <3>. QED  BY <3>1, <3>3
  <2>. QED  BY <2>1, <2>2
<1>. QED  BY <1>2, <1>4, <1>5 DEF Flat!Load, Flat!Fits, FlatBytes

\* A store writes the array's four bytes from a on, and no other.
LEMMA StoreIsFlat ==
  ASSUME TypeOK, NEW a \in Accesses, NEW w \in StoredWords, Store(a, w)
  PROVE  a \in Address /\ Flat!Store(a, w)
<1>1. a \in Word /\ w \in Word
  BY AccessAssumption
<1>2. a \in Address /\ a + 3 \in Address /\ a \in Nat
  <2>1. BytePosition(a, 0) \in Address /\ BytePosition(a, 3) \in Address
    BY DEF Store, Accessible, InBounds
  <2>. QED  BY <1>1, <2>1, ReachedWordFits, AddressIsWord
<1>3. ASSUME NEW b \in Address
      PROVE  FlatBytes'[b] = IF b \in a .. a + 3 THEN ByteOf(w, b - a) ELSE FlatBytes[b]
  <2>. DEFINE m == change_endianness(b, 0)
  <2>1. m \in Address /\ change_endianness(m, 0) = b /\ b \in Nat
    BY AddressIsWord, MirrorStays
  <2>2. FlatBytes'[b] = ReverseByte[StoreWord(memory, a, w)[m]] /\ FlatBytes[b] = ReverseByte[memory[m]]
    BY DEF FlatBytes, Store
  <2>3. ASSUME NEW k \in 0 .. 3
        PROVE  StorePosition(a, k) = m <=> b = a + (3 - k)
    <3>1. StorePosition(a, k) = change_endianness(a + (3 - k), 0) /\ a + (3 - k) \in Address
      BY <1>2, Positions
    <3>2. change_endianness(change_endianness(a + (3 - k), 0), 0) = a + (3 - k)
      BY <3>1, AddressIsWord, MirrorStays
    <3>. QED  BY <2>1, <3>1, <3>2
  <2>. HIDE DEF m
  <2>4. CASE b \in a .. a + 3
    <3>. DEFINE j == 3 - (b - a)
    <3>1. j \in 0 .. 3 /\ b = a + (3 - j) /\ 3 - j = b - a /\ b - a \in 0 .. 3
      BY <1>2, <2>1, <2>4
    <3>2. \A k \in 0 .. 3 : b = a + (3 - k) <=> k = j
      BY <1>2, <2>1, <3>1
    <3>. HIDE DEF j
    <3>3. j = CHOOSE k \in 0 .. 3 : StorePosition(a, k) = m
      BY <2>3, <3>1, <3>2
    <3>4. StoreWord(memory, a, w)[m] = ReverseByte[ByteOf(w, 3 - j)]
      BY <2>1, <2>3, <3>1, <3>3 DEF StoreWord
    <3>5. ByteOf(w, b - a) \in Byte
      BY <1>1, <3>1, ByteOfType
    <3>. QED  BY <2>2, <2>4, <3>1, <3>4, <3>5, BitsAssumption
  <2>5. CASE b \notin a .. a + 3
    <3>1. \A k \in 0 .. 3 : b # a + (3 - k)
      BY <1>2, <2>1, <2>5
    <3>2. StoreWord(memory, a, w)[m] = memory[m]
      BY <2>1, <2>3, <3>1 DEF StoreWord
    <3>. QED  BY <2>2, <2>5, <3>2
  <2>. QED  BY <2>4, <2>5
<1>4. FlatBytes' = [b \in Address |-> IF b \in a .. a + 3 THEN ByteOf(w, b - a) ELSE FlatBytes[b]]
  BY <1>3 DEF FlatBytes
<1>. QED  BY <1>2, <1>4 DEF Flat!Store, Flat!Fits, FlatBytes, Store

LEMMA NextFlat == TypeOK /\ [Next]_vars => [Flat!Next]_(Flat!flatVars)
<1>. SUFFICES ASSUME TypeOK, [Next]_vars PROVE [Flat!Next]_(Flat!flatVars)
  OBVIOUS
<1>1. CASE UNCHANGED vars
  BY <1>1 DEF vars, Flat!flatVars
<1>2. ASSUME NEW a \in Accesses, Load(a) \/ FetchWord(a) PROVE Flat!Next
  BY <1>2, LoadIsFlat DEF Flat!Next
<1>3. ASSUME NEW a \in Accesses, Reject(a) PROVE UNCHANGED vars
  BY <1>3 DEF Reject
<1>4. ASSUME NEW a \in Accesses, NEW w \in StoredWords, Store(a, w) PROVE Flat!Next
  BY <1>4, StoreIsFlat DEF Flat!Next
<1>. QED  BY <1>1, <1>2, <1>3, <1>4 DEF Next, vars, Flat!flatVars

\* Bit reversal, mirroring and the double mirroring of stores cancel out at
\* every address, and what the bounds check lets through fits.
THEOREM MemoryIsFlat == Spec => RefinesFlatMemory
BY InitType, NextType, InitFlat, NextFlat, PTL DEF Spec, RefinesFlatMemory, Flat!Spec
==============================================================================
