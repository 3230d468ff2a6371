------------------------------- MODULE StringIO -------------------------------
(***************************************************************************)
(* Strings in the emulator's memory: a literal that compiled code packs    *)
(* into words and stores, a string the user types, and `prints'.           *)
(***************************************************************************)
EXTENDS Processor, FiniteSets

CONSTANTS Literals,   \* the string literals of the program, without their escapes:
                      \* in ASCII, as a negative `char' does not assemble
          BACKSLASH,  \* the character a literal holds as two
          Places,     \* the word-aligned addresses it keeps strings at
          ImmediateSize,        \* 256: an immediate is a byte of the address
          MultiplyImmediates,   \* 0x90 to 0x9f, which bits 4 to 7 make a multiply
          Products              \* what such a multiply may leave in a register

ASSUME StringsAssumption ==
  /\ \A s \in Literals : s \in Seq(Byte \ {0})
  /\ BACKSLASH \in Byte
  /\ \A a \in Places : a \in Address /\ a % 4 = 0
  /\ ImmediateSize \in Nat \ {0}
  /\ MemSize <= ImmediateSize * ImmediateSize
  /\ Products \subseteq Word

VARIABLES
  memory,      \* processor->memory
  held,        \* for each place, the string the program last put there
  typed,       \* the places whose string came from the user
  into, left,  \* where a literal is stored, and its words not stored yet
  astray,      \* the places whose string a store for another address spoilt
  printed,     \* the string `prints' printed last
  expected     \* what the program expects it to have printed

vars == <<memory, held, typed, into, left, astray, printed, expected>>

TypeOK ==
  /\ memory \in [Address -> Byte]
  /\ held \in [Places -> Seq(Byte)]
  /\ typed \in SUBSET Places
  /\ into \in Places
  /\ left \in Nat
  /\ astray \in SUBSET Places
  /\ printed \in Seq(Byte)
  /\ expected \in Seq(Byte)

Init ==
  /\ memory = [a \in Address |-> 0]
  /\ held = [a \in Places |-> <<>>]
  /\ typed = {}
  /\ into \in Places
  /\ left = 0
  /\ astray = {}
  /\ printed = <<>>
  /\ expected = <<>>

(***************************************************************************)
(* store_string_literal_in_memory: each word takes four characters, the    *)
(* first in its highest byte.  There is one word more than the characters  *)
(* fill, for the NUL, but an escaped backslash is left out of the count,   *)
(* since strip_char_from_string drops both characters it is written with;  *)
(* characters beyond the last word are lost.                               *)
(***************************************************************************)
Char(s, n) == IF n \in 1 .. Len(s) THEN s[n] ELSE 0
PackedWord(s, i) ==
  WordOf([k \in 0 .. 3 |-> Char(s, 4 * i + 4 - k)])

Counted(s) == Cardinality({n \in DOMAIN s : s[n] # BACKSLASH})

\* A mistake the checks must notice: no room for the NUL.
num_ins_rounded_up(s) == (Counted(s) + 3) \div 4

num_ins(s) == (Counted(s) + 4) \div 4

\* A string covers its bytes and its NUL: a place whose string would overlap
\* the `length' bytes written at `at' no longer holds it.
Spans(at, s) == at .. at + Len(s)
Holding(at, s, length) ==
  [a \in Places |-> IF a = at THEN s
                    ELSE IF Spans(a, held[a]) \cap (at .. at + length - 1) # {}
                           THEN <<>> ELSE held[a]]

\* The places whose string a new one at `at' replaces.
Renewed(at) == {a \in Places : a = at \/ held'[a] = <<>>}

StartLiteral(at, s) ==
  /\ left = 0
  /\ at + 4 * num_ins(s) \in Address     \* the bounds checks of its `str's
  /\ into' = at
  /\ left' = num_ins(s)
  /\ held' = Holding(at, s, 4 * num_ins(s))
  /\ typed' = typed \ Renewed(at)
  /\ astray' = astray \ Renewed(at)
  /\ UNCHANGED <<memory, printed, expected>>

(***************************************************************************)
(* The address of a word is put together by `mov', `lsl' and `add'.  Where *)
(* the emulator takes the `add' of its low byte for a multiply, the        *)
(* address is a product of two registers; a `mov' of the high byte taken   *)
(* for one leaves the address register as it was and writes r0, which may  *)
(* hold the word.                                                          *)
(***************************************************************************)
HighByte(x) == (x \div ImmediateSize) % ImmediateSize
LowByte(x) == x % ImmediateSize

Computed(x) == {HighByte(x), LowByte(x)} \cap MultiplyImmediates = {}

StoreAddresses(x) ==
  IF Computed(x) THEN {HighByte(x) * ImmediateSize + LowByte(x)} ELSE Products

WordsToStore(x, w) ==
  {w} \cup (IF HighByte(x) \in MultiplyImmediates THEN Products ELSE {})

\* The places whose string a `str' to a changes.
Touched(a) ==
  {at \in Places : /\ ReachesMemory(a)
                   /\ \E k \in 0 .. 3 : StorePosition(a, k) \in Spans(at, held[at])}

\* `str': a misaligned GPIO pin and a wild access end the run.
StoreAt(a, w) ==
  /\ IsGpioPin(a) => (a - GpioStart) % 4 = 0
  /\ ReachesMemory(a) => InBounds(a, FALSE)
  /\ memory' = IF ReachesMemory(a) THEN StoreWord(memory, a, w) ELSE memory

\* The next word of the literal.
StoreNextWord ==
  /\ left > 0
  /\ LET i == num_ins(held[into]) - left
         x == into + 4 * i
     IN  \E a \in StoreAddresses(x), w \in WordsToStore(x, PackedWord(held[into], i)) :
           /\ StoreAt(a, w)
           /\ astray' = IF Computed(x) THEN astray ELSE astray \cup {into} \cup Touched(a)
  /\ left' = left - 1
  /\ UNCHANGED <<held, typed, into, printed, expected>>

\* inputs rN
InputString(at, s) ==
  /\ left = 0
  /\ at + Len(s) \in Address
  /\ memory' = [b \in Address |->
                  IF b \in at .. at + Len(s) - 1 THEN s[b - at + 1]
                  ELSE IF b = at + Len(s) THEN 0 ELSE memory[b]]
  /\ held' = Holding(at, s, Len(s) + 1)
  /\ typed' = (typed \ Renewed(at)) \cup {at}
  /\ astray' = astray \ Renewed(at)
  /\ UNCHANGED <<into, left, printed, expected>>

\* prints rN: each byte with its bits reversed, up to the first zero.
PrintString(at) ==
  /\ left = 0
  /\ \E n \in 0 .. MemSize - 1 - at :
       /\ memory[at + n] = 0
       /\ \A k \in 0 .. n - 1 : memory[at + k] # 0
       /\ printed' = [k \in 1 .. n |-> ReverseByte[memory[at + k - 1]]]
  /\ expected' = held[at]
  /\ UNCHANGED <<memory, held, typed, into, left, astray>>

PrintLiteral(at) == at \notin typed /\ held[at] # <<>> /\ PrintString(at)
PrintTyped(at) == at \in typed /\ PrintString(at)

Next ==
  \/ StoreNextWord
  \/ \E at \in Places :
       \/ \E s \in Literals : StartLiteral(at, s)
       \/ \E s \in InputStrings : InputString(at, s)
       \/ PrintLiteral(at)
       \/ PrintTyped(at)

Spec == Init /\ [][Next]_vars

(***************************************************************************)
(* Properties                                                              *)
(***************************************************************************)
\* The backslashes that go uncounted are no more than the characters of the
\* literal's last word.
BackslashesFit(s) == Len(s) - Counted(s) <= Len(s) % 4

\* A literal stays what it was until another string is put over it, and every
\* `prints' of it prints it whole and stops: packing a literal big-endian
\* undoes the mirroring of words, and its NUL always has a place, unless its
\* escaped backslashes make it a word longer than it is counted, or one of its
\* words went elsewhere, or one of another literal came here, because a byte of
\* its address made a multiply.
LiteralPrintsBack ==
  [][\A at \in Places :
       PrintLiteral(at) /\ BackslashesFit(held[at]) /\ at \notin astray =>
         printed' = expected']_vars
==============================================================================
