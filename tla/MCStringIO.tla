------------------------------ MODULE MCStringIO ------------------------------
(***************************************************************************)
(* Five words of memory and strings of up to nine two-bit characters.      *)
(***************************************************************************)
EXTENDS StringIO, Bitwise

Utils == INSTANCE EmulatorUtils WITH BITS <- WordBits

MCPow2 == [n \in 0 .. 4 * CharBit |-> 2 ^ n]
MCReverseByte == [b \in Byte |-> Utils!reverse_bits(b, CharBit)]
MCAnd(a, b) == a & b
MCOr(a, b) == a | b
MCXor(a, b) == a ^^ b
MCDecode ==
  [w \in Word |-> [type |-> "PRINT", is_string |-> FALSE, reg |-> TRUE,
                   start_address |-> 0]]
\* 2 is the backslash.
MCLiterals ==
  {<<1>>, <<1, 2, 3>>, <<3, 1, 1, 3>>, <<2, 1, 1, 3>>, <<3, 3, 2, 1, 1, 3, 1, 1, 1>>}
MCInputStrings == {<<3>>, <<1, 2, 3, 1>>}
==============================================================================
