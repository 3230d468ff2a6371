------------------------------ MODULE Processor ------------------------------
(***************************************************************************)
(* The emulated processor of src/src/emulator as a value, and what each    *)
(* class of instruction does to it (instructions.c, emulator_utils.c).     *)
(*                                                                         *)
(* Memory is byte-level and physical: `load' stores every byte with its    *)
(* bits reversed and every word with its bytes mirrored, and each reader   *)
(* undoes (or forgets to undo) that.  Bytes and words keep the code's 1:4  *)
(* ratio, but CharBit, and so the width of a word, is a parameter.  The    *)
(* bit layout of an instruction word is abstracted to the table Decode.    *)
(*                                                                         *)
(* An operator that returns a SET of processors lists every outcome: more  *)
(* than one where the code's behaviour is undefined or reads its input.    *)
(***************************************************************************)
EXTENDS Integers, Sequences, FiniteSets

CONSTANTS
  CharBit,       \* bits in a byte (CHAR_BIT, 8 in the code)
  Pow2,          \* the powers of two up to the width of a word, as a table
  ReverseByte,   \* reverse_bits(b, CHAR_BIT), as a table
  BitAnd(_, _), BitOr(_, _), BitXor(_, _),     \* C's &, | and ^ on words
  ShiftRange,    \* a register shift counts modulo this (`& 0xff': 256)
  MemSize,       \* MEM_SIZE
  GpioStart, GpioEnd, GpioClear, GpioOn,       \* the mapped GPIO addresses
  Decode,        \* the instruction a word stands for
  UndefinedWords,  \* what an undefined result may be
  WildLatches,   \* what a fetch outside memory may read
  InputWords,    \* what the user may type for `inputn rN'
  InputStrings   \* what the user may type for `inputs'

BYTES_PER_INSTRUCTION == 4
WordBits == BYTES_PER_INSTRUCTION * CharBit
WordSize == Pow2[WordBits]
ByteSize == Pow2[CharBit]

Word == 0 .. WordSize - 1
Byte == 0 .. ByteSize - 1
Address == 0 .. MemSize - 1

Register == 0 .. 15
PC_REGISTER == 15
CPSR_REGISTER == 16    \* the last of registers[]; kept apart as `cpsr'

\* uint32_t arithmetic, and the int32_t value of a word.
ToWord(x) == x % WordSize
Signed(w) == IF w < Pow2[WordBits - 1] THEN w ELSE w - WordSize
Negative(w) == w >= Pow2[WordBits - 1]

(***************************************************************************)
(* The processor and its instructions                                      *)
(***************************************************************************)
\* The highest four bits of CPSR, and the rest, which only `inputn r16' writes.
Flags == [n : BOOLEAN, z : BOOLEAN, c : BOOLEAN, v : BOOLEAN,
          rest : 0 .. Pow2[WordBits - 4] - 1]

ProcessorState ==
  [memory : [Address -> Byte], registers : [Register -> Word], cpsr : Flags]

\* Four bytes of memory in the order they lie there, not yet interpreted.
Latch == [0 .. 3 -> Byte]
ZeroLatch == [k \in 0 .. 3 |-> 0]

Operand2 ==
  [kind : {"immediate"}, value : Word, rotate : 0 .. WordBits - 1]
    \cup
  [kind : {"register"}, rm : Register, shift_type : 0 .. 3,
   by_register : BOOLEAN, rs : Register, amount : 0 .. WordBits - 1]

Instruction ==
  [type : {"DATA_PROCESS"}, opcode : 0 .. 15, s : BOOLEAN,
   rn : Register, rd : Register, op2 : Operand2]
    \cup
  [type : {"MULTIPLY"}, a : BOOLEAN, s : BOOLEAN,
   rd : Register, rn : Register, rs : Register, rm : Register]
    \cup
  [type : {"TRANSFER"}, p : BOOLEAN, u : BOOLEAN, l : BOOLEAN,
   rn : Register, rd : Register, offset : Operand2]
    \cup
  [type : {"BRANCH"}, cond : 0 .. 15, offset : Int]
    \cup
  [type : {"PRINT", "INPUT"}, is_string : BOOLEAN, reg : BOOLEAN, start_address : Word]

(***************************************************************************)
(* What the constants must be                                              *)
(***************************************************************************)
ASSUME WidthAssumption ==
  /\ CharBit \in Nat \ {0}
  /\ Pow2 \in [0 .. WordBits -> Nat \ {0}]
  /\ Pow2[0] = 1
  /\ \A n \in 0 .. WordBits - 1 : Pow2[n + 1] = 2 * Pow2[n]
  /\ ShiftRange \in Nat \ {0}

ASSUME BitsAssumption ==
  /\ ReverseByte \in [Byte -> Byte]
  /\ \A b \in Byte : ReverseByte[ReverseByte[b]] = b
  /\ ReverseByte[0] = 0
  /\ \A x, y \in Word :
       /\ BitAnd(x, y) \in Word
       /\ BitOr(x, y) \in Word
       /\ BitXor(x, y) \in Word

ASSUME MemoryAssumption ==
  /\ MemSize \in Nat \ {0}
  /\ MemSize % 4 = 0
  /\ {GpioStart, GpioEnd, GpioClear, GpioOn} \subseteq Word \ Address

ASSUME DecodeAssumption == Decode \in [Word -> Instruction]

ASSUME EnvironmentAssumption ==
  /\ UndefinedWords \subseteq Word
  /\ WildLatches \subseteq Latch
  /\ InputWords \subseteq Word
  /\ \A t \in InputStrings : t \in Seq(Byte)

(***************************************************************************)
(* Bytes and words                                                         *)
(***************************************************************************)
\* The position in its word is mirrored; offset moves the word boundaries.
change_endianness(index, offset) ==
  LET i == index - offset
  IN  ((i \div 4) + 1) * 4 - 1 - (i % 4) + offset

ByteOf(w, k) == (w \div Pow2[k * CharBit]) % ByteSize

WordOf(b) ==
  ToWord(b[0] + b[1] * Pow2[CharBit] + b[2] * Pow2[2 * CharBit]
           + b[3] * Pow2[3 * CharBit])

\* The word create_mask sees in a latch: the host reads the four bytes as a
\* little-endian word and create_mask reverses all its bits.
LatchWord(latch) == WordOf([k \in 0 .. 3 |-> ReverseByte[latch[3 - k]]])

\* What the four bytes from address a hold; a fetch has no bounds check.
Latches(memory, a) ==
  IF a + 3 \in Address THEN {[k \in 0 .. 3 |-> memory[a + k]]}
                       ELSE WildLatches

\* load: the file's words, each little-endian; the rest of memory is zero.  The
\* file is one of whole words that fits memory (ImagesAssumption).
LoadedMemory(image) ==
  [a \in Address |->
     IF a \div 4 < Len(image)
       THEN ReverseByte[ByteOf(image[a \div 4 + 1], change_endianness(a, 0) % 4)]
       ELSE 0]

InitialProcessor(image) ==
  [memory    |-> LoadedMemory(image),
   registers |-> [r \in Register |-> 0],
   cpsr      |-> [n |-> FALSE, z |-> FALSE, c |-> FALSE, v |-> FALSE, rest |-> 0]]

(***************************************************************************)
(* Flags.  set_n and set_c only ever set; nothing calls set_v.             *)
(***************************************************************************)
\* CPSR as the word it is, and the flags in a word.
CpsrWord(cpsr) ==
  (IF cpsr.n THEN Pow2[WordBits - 1] ELSE 0) + (IF cpsr.z THEN Pow2[WordBits - 2] ELSE 0)
    + (IF cpsr.c THEN Pow2[WordBits - 3] ELSE 0)
    + (IF cpsr.v THEN Pow2[WordBits - 4] ELSE 0) + cpsr.rest

BitOfWord(w, i) == (w \div Pow2[i]) % 2 = 1
FlagsOf(w) ==
  [n |-> BitOfWord(w, WordBits - 1), z |-> BitOfWord(w, WordBits - 2),
   c |-> BitOfWord(w, WordBits - 3), v |-> BitOfWord(w, WordBits - 4),
   rest |-> w % Pow2[WordBits - 4]]

\* A mistake the checks must notice: a flag that is only ever set.
sticky_z(cpsr, result) == [cpsr EXCEPT !.z = @ \/ result = 0]

set_n(cpsr, result) == [cpsr EXCEPT !.n = @ \/ Negative(result)]
set_z(cpsr, result) == [cpsr EXCEPT !.z = (result = 0)]
set_c(cpsr, set) == [cpsr EXCEPT !.c = @ \/ set]

condition_check(type, cpsr) ==
  \/ type = 0  /\ cpsr.z
  \/ type = 1  /\ ~cpsr.z
  \/ type = 10 /\ cpsr.n = cpsr.v
  \/ type = 11 /\ cpsr.n # cpsr.v
  \/ type = 12 /\ ~cpsr.z /\ cpsr.n = cpsr.v
  \/ type = 13 /\ (cpsr.z \/ cpsr.n # cpsr.v)
  \/ type = 14

(***************************************************************************)
(* The barrel shifter                                                      *)
(***************************************************************************)
rotate_right(n, rot) ==
  LET r == rot % WordBits
  IN  ToWord(n \div Pow2[r] + (n % Pow2[r]) * Pow2[WordBits - r])

ShiftValue(n, shift_type, amount) ==
  CASE shift_type = 0 -> ToWord(n * Pow2[amount])
    [] shift_type = 1 -> n \div Pow2[amount]
    [] shift_type = 2 -> ToWord(Signed(n) \div Pow2[amount])
    [] shift_type = 3 -> rotate_right(n, amount)

\* create_mask counts from the other end of an unreversed word: the carry is
\* any of the `amount' lowest (lsl) or highest (other shifts) bits.
ShiftCarry(n, shift_type, amount) ==
  /\ amount # 0
  /\ IF shift_type = 0 THEN n % Pow2[amount] # 0
                       ELSE n \div Pow2[WordBits - amount] # 0

\* A shift by a register may exceed the width: undefined, so anything.
shift(n, shift_type, amount) ==
  IF amount < WordBits
    THEN {[value |-> ShiftValue(n, shift_type, amount),
           carry |-> ShiftCarry(n, shift_type, amount)]}
    ELSE [value : UndefinedWords, carry : BOOLEAN]

\* Every value the second operand may take, with the shifter's carry.
Operands(p, o) ==
  IF o.kind = "immediate"
    THEN {[value |-> rotate_right(o.value, o.rotate), carry |-> FALSE]}
    ELSE shift(p.registers[o.rm], o.shift_type,
               IF o.by_register THEN p.registers[o.rs] % ShiftRange
                                ELSE o.amount)

\* lsl by more than the width fails create_mask's assertion first.
ShiftMayAbort(p, o) ==
  /\ o.kind = "register"
  /\ o.shift_type = 0
  /\ o.by_register
  /\ p.registers[o.rs] % ShiftRange > WordBits

(***************************************************************************)
(* execute_data_processing_instruction                                     *)
(***************************************************************************)
WritesResult(opcode) == opcode \in {0, 1, 2, 3, 4, 12, 13}

\* An opcode the switch does not know leaves `result' uninitialised.
AluResults(opcode, rn, op2) ==
  CASE opcode \in {0, 8}  -> {BitAnd(rn, op2)}
    [] opcode \in {1, 9}  -> {BitXor(rn, op2)}
    [] opcode \in {2, 10} -> {ToWord(rn - op2)}
    [] opcode = 3         -> {ToWord(op2 - rn)}
    [] opcode = 4         -> {ToWord(rn + op2)}
    [] opcode = 12        -> {BitOr(rn, op2)}
    [] opcode = 13        -> {op2}
    [] OTHER              -> UndefinedWords

AluCarry(opcode, rn, op2) ==
  \/ opcode \in {2, 10} /\ rn >= op2
  \/ opcode = 3 /\ rn <= op2
  \/ opcode = 4 /\ ToWord(rn + op2) < rn

AfterDataProcessing(p, i, op2, result) ==
  [p EXCEPT
     !.registers[i.rd] = IF WritesResult(i.opcode) THEN result ELSE @,
     !.cpsr =
       IF ~i.s THEN @
       ELSE set_n(set_z(
              set_c(@, \/ op2.carry
                       \/ AluCarry(i.opcode, p.registers[i.rn], op2.value)),
              result), result)]

DataProcessing(p, i) ==
  UNION {{AfterDataProcessing(p, i, op2, result) :
            result \in AluResults(i.opcode, p.registers[i.rn], op2.value)} :
           op2 \in Operands(p, i.op2)}

(***************************************************************************)
(* execute_multiply_instruction                                            *)
(***************************************************************************)
Multiply(p, i) ==
  LET product == ToWord(p.registers[i.rm] * p.registers[i.rs]
                          + (IF i.a THEN p.registers[i.rn] ELSE 0))
  IN  [p EXCEPT !.registers[i.rd] = product,
                !.cpsr = IF i.s THEN set_n(set_z(@, product), product) ELSE @]

(***************************************************************************)
(* execute_branch_instruction, when the condition holds                    *)
(***************************************************************************)
\* A mistake the checks must notice: a branch relative to its own address.
BranchFromItself(p, i) ==
  [p EXCEPT !.registers[PC_REGISTER] = ToWord(@ + i.offset - 2 * BYTES_PER_INSTRUCTION)]

Branch(p, i) == [p EXCEPT !.registers[PC_REGISTER] = ToWord(@ + i.offset)]

(***************************************************************************)
(* execute_single_data_transfer.  `offset' is the operand's value.         *)
(***************************************************************************)
TransferAddress(p, i, offset) ==
  LET base == p.registers[i.rn]
  IN  IF ~i.p THEN base
              ELSE ToWord(IF i.u THEN base + offset ELSE base - offset)

IsGpioPin(a) == a \in GpioStart .. GpioEnd
IsGpioSwitch(a) == a \in {GpioClear, GpioOn} /\ ~IsGpioPin(a)

\* The bounds check looks at the byte after the word, modulo the width.
PassesBoundsCheck(a) ==
  ToWord(change_endianness(ToWord(a + BYTES_PER_INSTRUCTION), 0)) < MemSize
ReachesMemory(a) == ~IsGpioPin(a) /\ ~IsGpioSwitch(a) /\ PassesBoundsCheck(a)

\* Where byte k of the word at a lies; ldr touches a fifth byte and drops it.
BytePosition(a, k) == ToWord(change_endianness(ToWord(a + k), 0))
InBounds(a, l) ==
  \A k \in 0 .. (IF l THEN 4 ELSE 3) : BytePosition(a, k) \in Address

LoadWord(memory, a) ==
  WordOf([k \in 0 .. 3 |-> ReverseByte[memory[BytePosition(a, k)]]])

\* A mistake the checks must notice: mirroring once, as ldr does.
StorePositionAsLoad(a, k) == BytePosition(a, k)

\* str mirrors twice: about the word boundaries shifted by a % 4, then back.
StorePosition(a, k) ==
  ToWord(change_endianness(change_endianness(ToWord(a + k), a % 4), 0))
\* A mistake the checks must notice: storing more than a byte's bits.
StoreWideBytes(memory, a, w) ==
  [b \in Address |->
     IF \E k \in 0 .. 3 : StorePosition(a, k) = b THEN w ELSE memory[b]]

StoreWord(memory, a, w) ==
  [b \in Address |->
     IF \E k \in 0 .. 3 : StorePosition(a, k) = b
       THEN ReverseByte[ByteOf(w, 3 - (CHOOSE k \in 0 .. 3 :
                                         StorePosition(a, k) = b))]
       ELSE memory[b]]

\* The assertions, and the wild access a wrapped address makes, end the run.
TransferAborts(p, i, offset) ==
  LET a == TransferAddress(p, i, offset)
  IN  \/ IsGpioPin(a) /\ (a - GpioStart) % 4 # 0
      \/ ReachesMemory(a) /\ ~InBounds(a, i.l)
      \/ ~i.p /\ i.rd = i.rn

AfterAccess(p, i, a) ==
  IF IsGpioPin(a) THEN [p EXCEPT !.registers[i.rd] = a]
  ELSE IF ~ReachesMemory(a) THEN p
  ELSE IF i.l THEN [p EXCEPT !.registers[i.rd] = LoadWord(p.memory, a)]
  ELSE [p EXCEPT !.memory = StoreWord(p.memory, a, p.registers[i.rd])]

AfterTransfer(p, i, offset) ==
  LET q == AfterAccess(p, i, TransferAddress(p, i, offset))
  IN  IF i.p THEN q
      ELSE [q EXCEPT !.registers[i.rn] =
              ToWord(IF i.u THEN @ + offset ELSE @ - offset)]

Transfer(p, i) ==
  {AfterTransfer(p, i, o.value) :
     o \in {x \in Operands(p, i.offset) : ~TransferAborts(p, i, x.value)}}

TransferMayAbort(p, i) ==
  \/ ShiftMayAbort(p, i.offset)
  \/ \E o \in Operands(p, i.offset) : TransferAborts(p, i, o.value)

(***************************************************************************)
(* print_basic changes nothing here, but reads memory to a string's NUL;   *)
(* input_basic writes what scanf read: a number into the register or byte, *)
(* or a string with its NUL into the bytes from the address, as they are   *)
(* (not bit-reversed).  Nothing typed (end of input) changes nothing.      *)
(*                                                                         *)
(* The number of the register has 21 bits and is not checked: 16 is CPSR,  *)
(* and a greater one an access beyond the processor.                       *)
(***************************************************************************)
WildRegister(i) == i.reg /\ i.start_address > CPSR_REGISTER

\* Where a string lies, when its register is one.
StringLocation(p, i) ==
  IF ~i.reg THEN i.start_address
  ELSE IF i.start_address = CPSR_REGISTER THEN CpsrWord(p.cpsr)
  ELSE p.registers[i.start_address]

\* Nothing stops the read at the end of memory.
PrintMayAbort(p, i) ==
  ~WildRegister(i) =>
    IF i.is_string
      THEN \A b \in Address : b >= StringLocation(p, i) => p.memory[b] # 0
      ELSE ~i.reg /\ i.start_address \notin Address

AfterInputString(p, i, string) ==
  LET at == StringLocation(p, i)
  IN  [p EXCEPT !.memory =
         [b \in Address |->
            IF b \in at .. at + Len(string) - 1 THEN string[b - at + 1]
            ELSE IF b = at + Len(string) THEN 0
            ELSE @[b]]]

AfterInputNumber(p, i, w) ==
  IF ~i.reg
    THEN [p EXCEPT !.memory = [b \in Address |->
            IF b = i.start_address THEN w % ByteSize ELSE @[b]]]
  ELSE IF i.start_address = CPSR_REGISTER THEN [p EXCEPT !.cpsr = FlagsOf(w)]
  ELSE [p EXCEPT !.registers[i.start_address] = w]

\* A string that does not fit is a write beyond memory: see InputMayAbort.
Input(p, i) ==
  {p} \cup
  IF WildRegister(i) THEN {}
  ELSE IF i.is_string
    THEN {AfterInputString(p, i, string) : string \in
            {t \in InputStrings : StringLocation(p, i) + Len(t) \in Address}}
    ELSE IF i.reg \/ i.start_address \in Address
           THEN {AfterInputNumber(p, i, w) : w \in InputWords}
           ELSE {}

InputMayAbort(p, i) ==
  ~WildRegister(i) =>
    IF i.is_string
      THEN \E t \in InputStrings : StringLocation(p, i) + Len(t) \notin Address
      ELSE ~i.reg /\ i.start_address \notin Address

(***************************************************************************)
(* process_instructions, for every class but a branch: the processors it   *)
(* may leave, and whether it may end the run instead.                      *)
(***************************************************************************)
Outcomes(p, i) ==
  CASE i.type = "DATA_PROCESS" -> DataProcessing(p, i)
    [] i.type = "MULTIPLY"     -> {Multiply(p, i)}
    [] i.type = "TRANSFER"     -> Transfer(p, i)
    [] i.type = "PRINT"        -> {p}
    [] i.type = "INPUT"        -> Input(p, i)

MayAbort(p, i) ==
  \/ i.type = "DATA_PROCESS" /\ ShiftMayAbort(p, i.op2)
  \/ i.type = "TRANSFER" /\ TransferMayAbort(p, i)
  \/ i.type = "PRINT" /\ PrintMayAbort(p, i)
  \/ i.type = "INPUT" /\ InputMayAbort(p, i)
==============================================================================
