--------------------------- MODULE InstructionMeaning ---------------------------
(***************************************************************************)
(* What the text of an instruction denotes, and which immediates it cannot *)
(* hold: the reference that the encoders and the decoder are compared with. *)
(***************************************************************************)
EXTENDS AssembleInstructions

\* call_instruction, but for branches and for loads from the literal pool.
AssembledWord(t) ==
  CASE t.opcode \in DataOps     -> assemble_data_processing(t)
    [] t.opcode \in MultiplyOps -> assemble_multiply(t)
    [] t.opcode \in TransferOps -> assemble_single_data_transfer(t, 0, 0, 0)
    [] t.opcode \in SpecialOps  -> assemble_special(t)

(***************************************************************************)
(* The texts the encoders are made for                                     *)
(***************************************************************************)
IsRegister(o) == o.kind = "register" /\ o.n \in 0 .. 15
IsNumber(o, most) == IsConstant(o) /\ o.n \in 0 .. most

\* 2 ^ 31 - 1, which TLC's integers hold and 2 ^ 31 they do not.
INT_MAX == 2 * (2 ^ 30 - 1) + 1

\* A register, and how it is shifted.
IsShift(reg, shift, by) ==
  IsRegister(reg) /\ shift.n \in 0 .. 3 /\ (IsRegister(by) \/ IsNumber(by, 31))

\* mov takes no shift.
IsDataText(t) ==
  LET o == t.operands
      i == Operand2Index(t.opcode)
  IN  /\ t.opcode \in ThreeOperandOps \cup TestOps \cup {"mov"}
      /\ \A j \in 1 .. i - 1 : IsRegister(o[j])
      /\ \/ Len(o) = i /\ (IsRegister(o[i]) \/ IsNumber(o[i], INT_MAX))
         \/ Len(o) = i + 2 /\ t.opcode # "mov" /\ IsShift(o[i], o[i + 1], o[i + 2])

IsLslText(t) ==
  /\ t.opcode = "lsl" /\ Len(t.operands) = 2
  /\ IsRegister(t.operands[1]) /\ IsNumber(t.operands[2], 31)

IsMultiplyText(t) ==
  /\ \/ t.opcode = "mul" /\ Len(t.operands) = 3
     \/ t.opcode = "mla" /\ Len(t.operands) = 4
  /\ \A j \in 1 .. Len(t.operands) : IsRegister(t.operands[j])

IsOffsetText(tail) ==
  \/ tail = <<>>
  \/ Len(tail) = 1 /\ (IsRegister(tail[1]) \/ IsNumber(tail[1], 2 ^ 12 - 1))
  \/ Len(tail) = 3 /\ IsShift(tail[1], tail[2], tail[3])

IsTransferText(t) ==
  /\ t.opcode \in TransferOps /\ Len(t.operands) >= 2
  /\ IsRegister(t.operands[1])
  /\ t.operands[2].kind = "address" /\ t.operands[2].n \in 0 .. 15
  /\ IsOffsetText(OffsetOf(t))

IsSpecialText(t) ==
  /\ t.opcode \in SpecialOps /\ Len(t.operands) = 1
  /\ IsRegister(t.operands[1]) \/ IsNumber(t.operands[1], 2 ^ 21 - 1)

IsInstructionText(t) ==
  /\ t.operands \in Seq({t.operands[j] : j \in DOMAIN t.operands})
  /\ IsDataText(t) \/ IsLslText(t) \/ IsMultiplyText(t) \/ IsTransferText(t) \/ IsSpecialText(t)

(***************************************************************************)
(* What the text of an instruction denotes                                 *)
(***************************************************************************)
ShiftedRegister(r, type, by) ==
  [kind |-> "register", rm |-> r.n, shift_type |-> type,
   by_register |-> by.kind = "register", by |-> by.n]

OperandMeaning(tail) ==
  IF IsConstant(tail[1]) THEN [kind |-> "immediate", ones |-> Bits(tail[1].n)]
  ELSE IF Len(tail) = 3 THEN ShiftedRegister(tail[1], tail[2].n, tail[3])
  ELSE ShiftedRegister(tail[1], 0, [kind |-> "constant", n |-> 0])

DataMeaning(opcode, s, rn, rd, op2) ==
  [type |-> "DATA_PROCESS", opcode |-> opcode, s |-> s, rn |-> rn, rd |-> rd, op2 |-> op2]

OffsetMeaning(tail) ==
  IF tail = <<>> THEN [kind |-> "immediate", ones |-> {}] ELSE OperandMeaning(tail)

TransferMeaning(t) ==
  LET pre == Len(t.operands) = 2
      tail == IF pre THEN t.operands[2].offset ELSE SubSeq(t.operands, 3, Len(t.operands))
  IN  [type |-> "TRANSFER", p |-> pre,
       u |-> tail = <<>> \/ ~IsConstant(tail[1]) \/ ~tail[1].negative,
       l |-> t.opcode = "ldr", rn |-> t.operands[2].n, rd |-> t.operands[1].n,
       offset |-> OffsetMeaning(tail)]

Meaning(t) ==
  LET o == t.operands
      rest(k) == SubSeq(o, k, Len(o))
  IN  CASE t.opcode \in ThreeOperandOps ->
             DataMeaning(OpcodeBits[t.opcode], FALSE, o[2].n, o[1].n, OperandMeaning(rest(3)))
        [] t.opcode \in TestOps ->
             DataMeaning(OpcodeBits[t.opcode], TRUE, o[1].n, 0, OperandMeaning(rest(2)))
        [] t.opcode = "mov" ->
             DataMeaning(13, FALSE, 0, o[1].n, OperandMeaning(rest(2)))
        [] t.opcode = "lsl" ->
             DataMeaning(13, FALSE, 0, o[1].n, ShiftedRegister(o[1], 0, o[2]))
        [] t.opcode \in MultiplyOps ->
             [type |-> "MULTIPLY", a |-> t.opcode = "mla", s |-> FALSE,
              rd |-> o[1].n, rm |-> o[2].n, rs |-> o[3].n,
              rn |-> IF t.opcode = "mla" THEN o[4].n ELSE 0]
        [] t.opcode \in TransferOps -> TransferMeaning(t)
        [] t.opcode \in SpecialOps ->
             [type |-> IF t.opcode \in {"prints", "printn"} THEN "PRINT" ELSE "INPUT",
              is_string |-> t.opcode \in {"prints", "inputs"},
              reg |-> o[1].kind = "register", start_address |-> o[1].n]

(***************************************************************************)
(* The immediates an instruction cannot hold                               *)
(***************************************************************************)
ImmediatesOf(t) ==
  {t.operands[i].n : i \in {i \in DOMAIN t.operands :
                              /\ t.opcode \in DataOps \ {"lsl"}
                              /\ i = Operand2Index(t.opcode)
                              /\ IsConstant(t.operands[i])}}

Zeros(n) == Max({s \in 0 .. 30 : n % 2 ^ s = 0})
Significant(n) == n \div 2 ^ Zeros(n)
\* The value the eight bits would have; one above 255 is rotated to an even place.
Eight(n) ==
  CASE n <= 255                      -> n
    [] n > 255 /\ Zeros(n) % 2 = 0   -> Significant(n)
    [] n > 255 /\ Zeros(n) % 2 = 1   -> 2 * Significant(n)

Refused(n) == n > 255 /\ Significant(n) > 255
\* The ninth bit falls into the rotation.
Spills(n) == Eight(n) > 255
\* Bits 4 to 7 are those of a multiply.
Lookalike(n) == (Eight(n) \div 16) % 16 = 9

\* The decoder reads from the word of t the instruction that t denotes, but for
\* just the immediates that need a ninth bit or look like a multiply; those
\* wider than eight bits are refused.
DecodesAsWritten(t) ==
  /\ AssembledWord(t) = EXIT <=> \E n \in ImmediatesOf(t) : Refused(n)
  /\ AssembledWord(t) # EXIT =>
       (decode(AssembledWord(t)) = Meaning(t)
          <=> \A n \in ImmediatesOf(t) : ~Spills(n) /\ ~Lookalike(n))
==============================================================================
