------------------------------ MODULE MCEmulator ------------------------------
(***************************************************************************)
(* A small processor for TLC: bytes of two bits, so words of eight, six    *)
(* words of memory, and an instruction table whose entries are picked to   *)
(* meet each other in the pipeline.                                        *)
(***************************************************************************)
EXTENDS Emulator, Bitwise

CONSTANT Program       \* the words a run's images are made of
CONSTANT ProgramLength \* and how many of them an image has
CONSTANT EndingProgram \* the words of the images that end

Utils == INSTANCE EmulatorUtils WITH BITS <- WordBits

MCPow2 == [n \in 0 .. 8 |-> 2 ^ n]
MCReverseByte == [b \in Byte |-> Utils!reverse_bits(b, CharBit)]
MCAnd(a, b) == a & b
MCOr(a, b) == a | b
MCXor(a, b) == a ^^ b

Immediate(value) == [kind |-> "immediate", value |-> value, rotate |-> 0]
Shifted(rm, type, amount) ==
  [kind |-> "register", rm |-> rm, shift_type |-> type,
   by_register |-> FALSE, rs |-> 0, amount |-> amount]
ShiftedBy(rm, type, rs) ==
  [kind |-> "register", rm |-> rm, shift_type |-> type,
   by_register |-> TRUE, rs |-> rs, amount |-> 0]

Data(opcode, s, rd, rn, op2) ==
  [type |-> "DATA_PROCESS", opcode |-> opcode, s |-> s,
   rn |-> rn, rd |-> rd, op2 |-> op2]
Access(l, p, u, rd, rn, offset) ==
  [type |-> "TRANSFER", p |-> p, u |-> u, l |-> l,
   rn |-> rn, rd |-> rd, offset |-> offset]
B(cond, offset) == [type |-> "BRANCH", cond |-> cond, offset |-> offset]

MCDecode ==
  [w \in Word |->
    CASE w = 1  -> Data(4, FALSE, 0, 0, Immediate(1))        \* add r0,r0,#1
      [] w = 2  -> Data(2, TRUE, 1, 0, Immediate(1))         \* subs r1,r0,#1
      [] w = 3  -> B(0, 0)                                   \* beq .+8
      [] w = 4  -> B(1, -12)                                 \* bne .-4
      [] w = 5  -> Access(FALSE, TRUE, FALSE, 0, 15, Immediate(4)) \* str r0,[pc,#-4]
      [] w = 6  -> Data(13, FALSE, 15, 0, Immediate(8))      \* mov pc,#8
      [] w = 7  -> Access(TRUE, TRUE, FALSE, 0, 15, Immediate(8))  \* ldr r0,[pc,#-8]
      [] w = 8  -> [type |-> "MULTIPLY", a |-> TRUE, s |-> TRUE,
                    rd |-> 1, rn |-> 1, rs |-> 0, rm |-> 0]  \* mlas r1,r0,r0,r1
      [] w = 9  -> [type |-> "INPUT", is_string |-> FALSE, reg |-> TRUE,
                    start_address |-> 0]                     \* inputn r0
      [] w = 10 -> B(14, -8)                                 \* b .
      [] w = 11 -> Data(13, TRUE, 2, 0, ShiftedBy(1, 1, 0))  \* movs r2,r1,lsr r0
      [] w = 12 -> Access(TRUE, FALSE, TRUE, 0, 0, Immediate(4))   \* ldr r0,[r0],#4
      [] w = 13 -> Data(5, TRUE, 0, 0, Immediate(1))         \* no such opcode
      [] w = 14 -> Access(FALSE, FALSE, TRUE, 2, 0, Immediate(4))  \* str r2,[r0],#4
      [] w = 15 -> [type |-> "PRINT", is_string |-> TRUE, reg |-> TRUE,
                    start_address |-> 0]                     \* prints r0
      [] w = 16 -> [type |-> "INPUT", is_string |-> TRUE, reg |-> FALSE,
                    start_address |-> 8]                     \* inputs 8
      [] w = 17 -> Data(8, TRUE, 0, 0, Shifted(0, 0, 7))     \* tst r0,r0,lsl #7
      [] w = 18 -> B(11, 0)                                  \* blt .+8
      [] w = 19 -> Access(FALSE, TRUE, TRUE, 0, 3, Immediate(12))  \* str r0,[r3,#12]
      [] w = 20 -> Data(13, FALSE, 0, 0, ShiftedBy(1, 0, 0)) \* mov r0,r1,lsl r0
      [] w = 21 -> Data(2, TRUE, 0, 0, Immediate(1))         \* subs r0,r0,#1
      [] w = 22 -> [type |-> "INPUT", is_string |-> FALSE, reg |-> TRUE,
                    start_address |-> 16]                    \* inputn r16
      [] w = 23 -> [type |-> "PRINT", is_string |-> TRUE, reg |-> TRUE,
                    start_address |-> 17]                    \* prints r17
      [] OTHER  -> Data(13, FALSE, 3, 0, Shifted(3, 0, 0))]  \* mov r3,r3

MCWildLatches == {ZeroLatch, [k \in 0 .. 3 |-> IF k = 3 THEN 2 ELSE 0]}
MCInputStrings == {<<1>>, <<2, 3, 1, 1, 2>>}
MCImages == [1 .. ProgramLength -> Program]

\* Programs that come to an end: what precedes a loop that counts r0 down to
\* zero, and straight lines that branch forward only.
Countdowns ==
  {<<w, 21, 4>> : w \in EndingProgram} \cup {<<w, v, 21, 4>> : w, v \in EndingProgram}
ForwardOnly == [1 .. 2 -> EndingProgram]
MCEndingImages == Countdowns \cup ForwardOnly
MCAllImages == MCImages \cup MCEndingImages

\* The carry the model computes is the one the bit operations give.
ASSUME CarryAgrees ==
  \A n \in Word, type \in 0 .. 3, amount \in 0 .. WordBits - 1 :
    ShiftCarry(n, type, amount) <=> Utils!shift_cout(n, type, amount) # 0
==============================================================================
