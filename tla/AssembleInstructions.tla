-------------------------- MODULE AssembleInstructions --------------------------
(***************************************************************************)
(* The assembler's encoders (assemble_instructions.c) and the emulator's   *)
(* decoder (get_instr_type and the field extractions of instructions.c),   *)
(* on full 32-bit words.  A word is the set of the positions of its ones,  *)
(* so that set_bits_to, which ORs, is a union.                             *)
(*                                                                         *)
(* A tokenized instruction is [opcode, operands].  An operand is a         *)
(* register, a constant (`#n' or `=n'), a shift mnemonic, or an address    *)
(* specification [rn, ...] with the tokens inside its brackets.  The code  *)
(* reads the number of any operand with strtol(operand + 1), whatever its  *)
(* first character: `number' stands for that.                              *)
(***************************************************************************)
EXTENDS Integers, Sequences, FiniteSetsExt

Positions == 0 .. 31

\* The ones of an int32_t, and the value of a field of at most 30 bits.
Bits(n) ==
  {i \in 0 .. 30 : (n \div 2 ^ i) % 2 = 1} \cup (IF n < 0 THEN {31} ELSE {})
Value(bits) ==
  LET below[k \in 0 .. 31] ==
        IF k = 0 THEN 0
                 ELSE below[k - 1] + (IF k - 1 \in bits THEN 2 ^ (k - 1) ELSE 0)
  IN  below[31]

set_bits_to(word, input, starting_at) ==
  word \cup {i + starting_at : i \in {b \in Bits(input) : b + starting_at <= 31}}

\* The assembler exits instead of producing a word.
EXIT == {-1}

number(operand) == operand.n
IsConstant(operand) == operand.kind = "constant"

OpcodeBits ==
  [and |-> 0, eor |-> 1, sub |-> 2, rsb |-> 3, add |-> 4, tst |-> 8,
   teq |-> 9, cmp |-> 10, orr |-> 12, lsl |-> 13, mov |-> 13]
CondBits ==
  [beq |-> 0, bne |-> 1, bge |-> 10, blt |-> 11, bgt |-> 12, ble |-> 13, b |-> 14]

\* The order of the Operation enum decides which encoder is called.
DataOps == DOMAIN OpcodeBits \cup {"andeq"}
ThreeOperandOps == {"add", "sub", "rsb", "and", "eor", "orr"}
TestOps == {"tst", "teq", "cmp"}
MultiplyOps == {"mul", "mla"}
TransferOps == {"ldr", "str"}
BranchOps == DOMAIN CondBits
SpecialOps == {"prints", "printn", "inputs", "inputn"}

ALWAYS == set_bits_to({}, 14, 28)

(***************************************************************************)
(* encode_shifted_reg, encode_immediate_op2, parse_expression              *)
(***************************************************************************)
encode_shifted_reg(word, reg, shift, by) ==
  set_bits_to(set_bits_to(set_bits_to(word, number(reg), 0), shift.n, 5),
              IF IsConstant(by) THEN number(by) * 8 ELSE number(by) * 16 + 1, 4)

\* The ones of the immediate are shifted down to the lowest place, or the one
\* above it.  The immediate is unsigned: a negative number is 2^32 more.
encode_immediate_op2(word, immediate) ==
  LET shift == Min(Bits(immediate))
      odd   == {i \in Positions : i + shift \in Bits(immediate)}
      rot_val == 16 - shift \div 2
  IN  IF \E i \in odd : i > 7 THEN EXIT
      ELSE set_bits_to(word \cup {i + (shift % 2) : i \in odd}, rot_val, 8)

parse_expression(word, operand) ==
  IF number(operand) \in 0 .. 255 THEN set_bits_to(word, number(operand), 0)
                                  ELSE encode_immediate_op2(word, number(operand))

(***************************************************************************)
(* assemble_data_processing                                                *)
(***************************************************************************)
\* Where operand2 lies among the operands, and how many there must be.
Operand2Index(op) == IF op \in ThreeOperandOps THEN 3 ELSE 2
RequiredOperands(op) == IF op \in ThreeOperandOps \cup TestOps THEN Operand2Index(op) ELSE 2

DataFields(t) ==
  LET i == Operand2Index(t.opcode)
      opcode == set_bits_to(ALWAYS, OpcodeBits[t.opcode], 21)
      dest == IF t.opcode \in TestOps THEN set_bits_to(opcode, 1, 20)
                                      ELSE set_bits_to(opcode, number(t.operands[1]), 12)
  IN  IF t.opcode \in {"mov", "lsl"} THEN dest
      ELSE set_bits_to(dest, number(t.operands[i - 1]), 16)

\* Only the instructions that count their operands notice a shift.
HasShift(t) ==
  /\ t.opcode \in ThreeOperandOps \cup TestOps
  /\ Len(t.operands) > Operand2Index(t.opcode)

assemble_data_processing(t) ==
  LET i == Operand2Index(t.opcode)
      op2 == t.operands[i]
  IN  IF t.opcode = "andeq" THEN {}
      ELSE IF Len(t.operands) < RequiredOperands(t.opcode) THEN EXIT
      ELSE IF IsConstant(op2) /\ t.opcode = "lsl"
        THEN encode_shifted_reg(DataFields(t), t.operands[1], [kind |-> "shift", n |-> 0], op2)
      ELSE IF IsConstant(op2)
        THEN LET word == parse_expression(DataFields(t), op2)
             IN  IF word = EXIT THEN EXIT ELSE set_bits_to(word, 1, 25)
      ELSE IF HasShift(t)
        THEN encode_shifted_reg(DataFields(t), op2, t.operands[i + 1], t.operands[i + 2])
      ELSE set_bits_to(DataFields(t), number(op2), 0)

(***************************************************************************)
(* assemble_multiply                                                       *)
(***************************************************************************)
assemble_multiply(t) ==
  LET o == t.operands
      mul == ALWAYS \cup set_bits_to({}, number(o[1]), 16)
               \cup set_bits_to({}, number(o[2]), 0)
               \cup set_bits_to({}, number(o[3]), 8) \cup set_bits_to({}, 9, 4)
  IN  IF Len(o) = 4
        THEN mul \cup set_bits_to({}, number(o[4]), 12) \cup set_bits_to({}, 1, 21)
        ELSE mul

(***************************************************************************)
(* assemble_single_data_transfer.  `ldr rd,=n' either becomes a mov or     *)
(* loads a word the assembler puts after the program: pool is how many     *)
(* such words there are before it.                                         *)
(***************************************************************************)
TransferFields(t) ==
  LET word == set_bits_to(set_bits_to(ALWAYS, 2, 25), number(t.operands[1]), 12)
  IN  IF t.opcode = "ldr" THEN set_bits_to(word, 1, 20) ELSE word

IsLiteralLoad(t) ==
  t.opcode = "ldr" /\ IsConstant(t.operands[2])
UsesPool(t) == IsLiteralLoad(t) /\ number(t.operands[2]) > 255

\* A mistake the checks must notice: every literal at the pool's start.
PoolStartOffset(pc, last_address, pool) == 4 * (last_address - pc) - 8

PoolOffset(pc, last_address, pool) == 4 * (last_address - pc + pool) - 8

\* The offset after the base register: none, a constant or a register with an
\* optional shift.  The sign is kept apart, as the code reads it apart.
encode_offset(word, offset) ==
  CASE offset = <<>> -> set_bits_to(word, 1, 23)
    [] offset # <<>> /\ IsConstant(offset[1]) ->
         set_bits_to(IF offset[1].negative THEN word ELSE set_bits_to(word, 1, 23),
                     number(offset[1]), 0)
    [] Len(offset) = 1 /\ ~IsConstant(offset[1]) ->
         set_bits_to(set_bits_to(word, 5, 23), number(offset[1]), 0)
    [] Len(offset) = 3 /\ ~IsConstant(offset[1]) ->
         encode_shifted_reg(set_bits_to(word, 5, 23), offset[1], offset[2], offset[3])

\* The tokens that may make up an offset.
IsOffset(offset) ==
  \/ offset = <<>>
  \/ IsConstant(offset[1])
  \/ Len(offset) \in {1, 3}

\* They lie within the brackets, or behind them.
OffsetOf(t) ==
  IF Len(t.operands) = 2 THEN t.operands[2].offset
                         ELSE SubSeq(t.operands, 3, Len(t.operands))

\* Post-indexed operands follow the brackets; nothing there leaves U clear.
assemble_single_data_transfer(t, pc, last_address, pool) ==
  LET address == t.operands[2]
      base == set_bits_to(TransferFields(t), address.n, 16)
  IN  IF UsesPool(t)
        THEN set_bits_to({}, PoolOffset(pc, last_address, pool), 0)
               \cup TransferFields(t) \cup {23, 24} \cup set_bits_to({}, 15, 16)
      ELSE IF IsLiteralLoad(t)
        THEN assemble_data_processing([t EXCEPT !.opcode = "mov"])
      ELSE encode_offset(IF Len(t.operands) = 2 THEN set_bits_to(base, 1, 24) ELSE base,
                         OffsetOf(t))

(***************************************************************************)
(* assemble_branch: pc counts instructions, jump_address bytes.            *)
(***************************************************************************)
\* A mistake the checks must notice: no pipeline effect on the way back.
BranchOffsetFromItself(jump_address, pc) ==
  IF jump_address > 4 * pc
    THEN jump_address - 4 * pc - 8
    ELSE ((jump_address - 4 * pc) \div 4) % 2 ^ 24

BranchOffset(jump_address, pc) ==
  IF jump_address > 4 * pc
    THEN jump_address - 4 * pc - 8
    ELSE ((jump_address - 4 * pc - 8) \div 4) % 2 ^ 24

assemble_branch(t, jump_address, pc) ==
  set_bits_to({}, CondBits[t.opcode], 28)
    \cup set_bits_to({}, BranchOffset(jump_address, pc), 0)
    \cup set_bits_to({}, 5, 25)

(***************************************************************************)
(* assemble_special                                                        *)
(***************************************************************************)
assemble_special(t) ==
  LET operand == t.operands[1]
  IN  ALWAYS \cup set_bits_to({}, 7, 25)
        \cup (IF t.opcode \in {"prints", "inputs"} THEN {22} ELSE {})
        \cup (IF t.opcode \in {"inputs", "inputn"} THEN {23} ELSE {})
        \cup (IF operand.kind = "register" THEN {21} ELSE {})
        \cup set_bits_to({}, number(operand), 0)

(***************************************************************************)
(* The emulator's side: the fields create_mask extracts                    *)
(***************************************************************************)
create_mask(start, finish, word) ==
  Value({i - start : i \in word \cap (start .. finish)})
extract_bit(position, word) == position \in word

get_instr_type(word) ==
  CASE create_mask(26, 27, word) = 0 ->
         IF create_mask(4, 7, word) = 9 THEN "MULTIPLY" ELSE "DATA_PROCESS"
    [] create_mask(26, 27, word) = 1 -> "TRANSFER"
    [] create_mask(26, 27, word) = 2 -> "BRANCH"
    [] create_mask(26, 27, word) = 3 ->
         IF extract_bit(23, word) THEN "INPUT" ELSE "PRINT"

\* A mistake the checks must notice: a shift amount of four bits.
shift_rm_register_short(word) ==
  [kind |-> "register", rm |-> create_mask(0, 3, word),
   shift_type |-> create_mask(5, 6, word), by_register |-> extract_bit(4, word),
   by |-> IF extract_bit(4, word) THEN create_mask(8, 11, word)
                                  ELSE create_mask(7, 10, word)]

shift_rm_register(word) ==
  [kind |-> "register", rm |-> create_mask(0, 3, word),
   shift_type |-> create_mask(5, 6, word), by_register |-> extract_bit(4, word),
   by |-> IF extract_bit(4, word) THEN create_mask(8, 11, word)
                                  ELSE create_mask(7, 11, word)]

\* An immediate is its eight bits rotated right, as the set of its ones.
Rotated(bits, rot) == {(i - rot) % 32 : i \in bits}
immediate_op2(word) ==
  [kind |-> "immediate",
   ones |-> Rotated(word \cap (0 .. 7), 2 * create_mask(8, 11, word))]

sign_extended_offset(word) ==
  LET field == create_mask(0, 23, word)
  IN  4 * (IF extract_bit(23, word) THEN field - 2 ^ 24 ELSE field)

decode(word) ==
  LET type == get_instr_type(word)
  IN  CASE type = "DATA_PROCESS" ->
             [type |-> type, opcode |-> create_mask(21, 24, word),
              s |-> extract_bit(20, word), rn |-> create_mask(16, 19, word),
              rd |-> create_mask(12, 15, word),
              op2 |-> IF extract_bit(25, word) THEN immediate_op2(word)
                                               ELSE shift_rm_register(word)]
        [] type = "MULTIPLY" ->
             [type |-> type, a |-> extract_bit(21, word), s |-> extract_bit(20, word),
              rd |-> create_mask(16, 19, word), rn |-> create_mask(12, 15, word),
              rs |-> create_mask(8, 11, word), rm |-> create_mask(0, 3, word)]
        [] type = "TRANSFER" ->
             [type |-> type, p |-> extract_bit(24, word), u |-> extract_bit(23, word),
              l |-> extract_bit(20, word), rn |-> create_mask(16, 19, word),
              rd |-> create_mask(12, 15, word),
              offset |-> IF extract_bit(25, word) THEN shift_rm_register(word)
                         ELSE [kind |-> "immediate", ones |-> word \cap (0 .. 11)]]
        [] type = "BRANCH" ->
             [type |-> type, cond |-> create_mask(28, 31, word),
              offset |-> sign_extended_offset(word)]
        [] type \in {"PRINT", "INPUT"} ->
             [type |-> type, is_string |-> extract_bit(22, word),
              reg |-> extract_bit(21, word), start_address |-> create_mask(0, 20, word)]
==============================================================================
