----------------------------- MODULE MCByteMemory -----------------------------
(***************************************************************************)
(* Two words of memory with one-bit and two-bit bytes.                   *)
(***************************************************************************)
EXTENDS ByteMemory, Bitwise

Utils == INSTANCE EmulatorUtils WITH BITS <- WordBits

MCPow2 == [n \in 0 .. 4 * CharBit |-> 2 ^ n]
MCReverseByte == [b \in Byte |-> Utils!reverse_bits(b, CharBit)]
MCAnd(a, b) == a & b
MCOr(a, b) == a | b
MCXor(a, b) == a ^^ b
MCDecode ==
  [w \in Word |-> [type |-> "PRINT", is_string |-> FALSE, reg |-> TRUE,
                   start_address |-> 0]]
MCAccesses == 0 .. 9 \cup {254}
MCImages == {<<>>, <<27>>, <<228, 57>>}
==============================================================================
