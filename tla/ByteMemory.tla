------------------------------ MODULE ByteMemory ------------------------------
(***************************************************************************)
(* The emulator's memory on its own, under every access the instructions   *)
(* and the fetch make: bytes with their bits reversed, words with their    *)
(* bytes mirrored.  Strings go through `scanf' and `printf'.               *)
(***************************************************************************)
EXTENDS Processor

CONSTANTS Images,      \* the object files, as sequences of words
          Accesses,    \* the addresses the program accesses
          StoredWords  \* the words it stores

\* What the assembler writes, words, and no more of them than memory holds.
ASSUME ImagesAssumption ==
  \A image \in Images : image \in Seq(Word) /\ BYTES_PER_INSTRUCTION * Len(image) <= MemSize
ASSUME AccessAssumption == Accesses \subseteq Word /\ StoredWords \subseteq Word

VARIABLES
  memory,       \* processor->memory
  answer        \* the last word loaded or fetched

vars == <<memory, answer>>

TypeOK ==
  /\ memory \in [Address -> Byte]
  /\ answer \in Word

Init ==
  /\ \E image \in Images : memory = LoadedMemory(image)
  /\ answer = 0

Accessible(a, l) == ReachesMemory(a) /\ InBounds(a, l)

\* str
Store(a, w) ==
  /\ Accessible(a, FALSE)
  /\ memory' = StoreWord(memory, a, w)
  /\ UNCHANGED answer

\* ldr
Load(a) ==
  /\ Accessible(a, TRUE)
  /\ answer' = LoadWord(memory, a)
  /\ UNCHANGED memory

\* The fetch of an instruction, as its fields are extracted from the latch, at
\* the addresses PC takes when nothing but branches and the loop write it.
FetchWord(a) ==
  /\ a + 3 \in Address
  /\ a % 4 = 0
  /\ answer' \in {LatchWord(l) : l \in Latches(memory, a)}
  /\ UNCHANGED memory

\* Neither GPIO nor within bounds: the access only prints its address.
Reject(a) ==
  /\ ~IsGpioPin(a)
  /\ ~IsGpioSwitch(a)
  /\ ~PassesBoundsCheck(a)
  /\ UNCHANGED vars

Next ==
  \E a \in Accesses :
    \/ Load(a)
    \/ Reject(a)
    \/ FetchWord(a)
    \/ \E w \in StoredWords : Store(a, w)

Spec == Init /\ [][Next]_vars

(***************************************************************************)
(* Properties                                                              *)
(***************************************************************************)
Flat == INSTANCE FlatMemory WITH
  bytes <- [a \in Address |-> ReverseByte[memory[change_endianness(a, 0)]]]

\* Reversed bits and mirrored bytes cancel out: for the program, memory is a
\* little-endian array, unaligned words included, and a fetched word is the
\* word a load of its address returns.
RefinesFlatMemory == Flat!Spec
==============================================================================
