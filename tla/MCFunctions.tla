------------------------------ MODULE MCFunctions ------------------------------
(***************************************************************************)
(* The pure algorithms of the three programs against their definitions:    *)
(* the emulator's bit operations, the assembler's encoders and the         *)
(* compiler's bracketing.  Each state is one call of one of them.          *)
(***************************************************************************)
EXTENDS MCEmulatorUtils

CONSTANTS Registers, Constants, Operands

VARIABLES token, expression

Encoding == INSTANCE MCAssembleInstructions
Bracketing == INSTANCE MCExpressions

MCOperands == <<"A", "B", "C", "D", "E">>

calls == <<word, start, finish, token, expression>>

BitOperation == Init
NoBitOperation == word = 0 /\ start = 0 /\ finish = 0
NoToken == token = Encoding!Token("printn", <<Encoding!Reg(0)>>)
NoExpression == expression = <<Operands[1]>>

Calls ==
  \/ BitOperation /\ NoToken /\ NoExpression
  \/ NoBitOperation /\ token \in Encoding!AllTokens /\ NoExpression
  \/ NoBitOperation /\ NoToken /\ expression \in Bracketing!AllWritten

Done == UNCHANGED calls
CallsSpec == Calls /\ [][Done]_calls

(***************************************************************************)
(* Properties                                                              *)
(***************************************************************************)
\* The emulator reads from every encoded word the instruction that was written,
\* except for just the immediates that spill out of their eight bits or look
\* like a multiply; the encoder refuses those that are wider.
DecodesToItsMeaning == Encoding!DecodesToItsMeaning

\* shunting_yard groups an expression as arithmetic reads it, unless a sum adds
\* a product of three or more, which the stale o2 takes apart.
GroupsByPrecedence == Bracketing!GroupsByPrecedence
==============================================================================
