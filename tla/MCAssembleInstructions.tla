------------------------ MODULE MCAssembleInstructions ------------------------
(***************************************************************************)
(* Every instruction form of the assembler over a few registers and        *)
(* constants, one state each: what the emulator decodes from the encoded   *)
(* word is the instruction the text denotes.                               *)
(***************************************************************************)
EXTENDS InstructionMeaning

CONSTANTS Registers, Constants   \* the operands tried

VARIABLE token

Reg(n) == [kind |-> "register", n |-> n]
Const(n) == [kind |-> "constant", n |-> n, negative |-> FALSE]
Down(n) == [kind |-> "constant", n |-> n, negative |-> TRUE]
Lsr == [kind |-> "shift", n |-> 1]
Token(opcode, operands) == [opcode |-> opcode, operands |-> operands]

\* The operands an instruction may end with.
Plain == {<<Reg(r)>> : r \in Registers}
Shifts == {<<Reg(r), Lsr, by>> : r \in Registers, by \in {Const(0), Const(19), Reg(9)}}
Offsets == Plain \cup Shifts \cup {<<>>}
             \cup UNION {{<<Const(n)>>, <<Down(n)>>} :
                      n \in {c \in Constants : c < 2 ^ 12}}

DataTokens(tails) ==
  {Token(op, <<Reg(d), Reg(n)>> \o tail) :
     op \in ThreeOperandOps, d \in Registers, n \in Registers, tail \in tails}
  \cup {Token(op, <<Reg(n)>> \o tail) : op \in TestOps, n \in Registers, tail \in tails}

MoveTokens(tails) == {Token("mov", <<Reg(d)>> \o tail) : d \in Registers, tail \in tails}

Immediates(constants) == {<<Const(n)>> : n \in constants}

MultiplyTokens ==
  {Token("mul", <<Reg(d), Reg(1), Reg(s)>>) : d \in Registers, s \in Registers}
  \cup {Token("mla", <<Reg(1), Reg(m), Reg(2), Reg(n)>>) :
          m \in Registers, n \in Registers}

TransferTokens ==
  {Token(op, <<Reg(d), [kind |-> "address", n |-> n, offset |-> offset]>>) :
     op \in TransferOps, d \in Registers, n \in Registers, offset \in Offsets}
  \cup {Token(op, <<Reg(d), [kind |-> "address", n |-> 3, offset |-> <<>>]>> \o tail) :
          op \in TransferOps, d \in Registers, tail \in Offsets \ {<<>>}}

SpecialTokens ==
  {Token(op, <<operand>>) :
     op \in SpecialOps, operand \in {Reg(r) : r \in Registers} \cup {Const(65288)}}

LslTokens == {Token("lsl", <<Reg(d), Const(8)>>) : d \in Registers}

AllTokens ==
  DataTokens(Plain \cup Shifts \cup Immediates(Constants))
    \cup MoveTokens(Plain \cup Immediates(Constants))
    \cup MultiplyTokens \cup TransferTokens \cup SpecialTokens \cup LslTokens

Stutter == UNCHANGED token
Spec == token \in AllTokens /\ [][Stutter]_token

(***************************************************************************)
(* Properties                                                              *)
(***************************************************************************)
\* The emulator reads from every encoded word the instruction that was written:
\* no field spills into another, and the two programs agree on their places.
\* It fails for just the immediates that need a ninth bit, at an odd place, and
\* those that look like a multiply; those wider than eight bits are refused.
DecodesToItsMeaning == IsInstructionText(token) /\ DecodesAsWritten(token)
==============================================================================
