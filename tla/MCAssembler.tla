------------------------------ MODULE MCAssembler ------------------------------
(***************************************************************************)
(* Every source file of a few lines from a small set, with a last line of  *)
(* its own.                                                                *)
(***************************************************************************)
EXTENDS Assembler

CONSTANTS Length,      \* how many lines precede the last one
          LineNames,   \* the names of the lines they are taken from
          LastName     \* the name of the last line

Reg(n) == [kind |-> "register", n |-> n]
Const(n) == [kind |-> "constant", n |-> n, negative |-> FALSE]
Label(name) == [kind |-> "label", name |-> name, n |-> 0]
Instruction(opcode, operands) ==
  [kind |-> "instruction", token |-> [opcode |-> opcode, operands |-> operands]]

LineCalled ==
  [l1      |-> [kind |-> "label", name |-> "L1"],
   l2      |-> [kind |-> "label", name |-> "L2"],
   b1      |-> Instruction("b", <<Label("L1")>>),
   bne2    |-> Instruction("bne", <<Label("L2")>>),
   b3      |-> Instruction("b", <<Label("L3")>>),
   ldr300  |-> Instruction("ldr", <<Reg(1), Const(300)>>),
   ldr777  |-> Instruction("ldr", <<Reg(2), Const(777)>>),
   ldr5    |-> Instruction("ldr", <<Reg(1), Const(5)>>),
   add     |-> Instruction("add", <<Reg(1), Reg(1), Const(1)>>),
   mov257  |-> Instruction("mov", <<Reg(1), Const(257)>>),
   mul     |-> Instruction("mul", <<Reg(1), Reg(2), Reg(3)>>),
   printn  |-> Instruction("printn", <<Reg(1)>>),
   andeq   |-> Instruction("andeq", <<Reg(0), Reg(0), Reg(0)>>),
   invalid |-> [kind |-> "invalid"]]

MCPrograms ==
  {[i \in 1 .. Length |-> LineCalled[f[i]]] \o <<LineCalled[LastName]>> :
     f \in [1 .. Length -> LineNames]}

\* L1 and L3 share a bucket, L2 has its own.
MCHash == [s \in Symbols |-> IF s = "L2" THEN 1 ELSE 0]
MCOld == {<<>>, <<{3}>>}
MCNew == {<<>>}
==============================================================================
