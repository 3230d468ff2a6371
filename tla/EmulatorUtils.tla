----------------------------- MODULE EmulatorUtils -----------------------------
(***************************************************************************)
(* The bit operations of emulator_utils.c, bit by bit as the code does     *)
(* them, on words of BITS bits.                                            *)
(***************************************************************************)
EXTENDS Integers

CONSTANT BITS        \* BITS_PER_INSTRUCTION, 32 in the code

ASSUME WordWidthAssumption == BITS \in Nat \ {0}

Words == 0 .. 2 ^ BITS - 1
Positions == 0 .. BITS - 1

bit(n, i) == (n \div 2 ^ i) % 2

reverse_bits(num, num_bits) ==
  LET reverse_num[i \in 0 .. num_bits] ==
        IF i = 0 THEN 0
        ELSE reverse_num[i - 1] + bit(num, i - 1) * 2 ^ (num_bits - i)
  IN  reverse_num[num_bits]

\* A mistake the checks must notice: a field left bit-reversed.
create_mask_reversed(start, finish, instruction) ==
  (instruction \div 2 ^ (BITS - 1 - finish)) % 2 ^ (finish - start + 1)

\* start and finish are counted from the top of the word.  The mask of a whole
\* word shifts 1 by the word's width, which C leaves undefined: x86 shifts by the
\* width modulo the width, and the mask is empty.
create_mask(start, finish, instruction) ==
  LET from  == BITS - 1 - start
      to    == BITS - 1 - finish
      width == from - to + 1
      masked == IF width = BITS THEN 0 ELSE (instruction \div 2 ^ to) % 2 ^ width
  IN  reverse_bits(masked, width)

extract_bit(position, instruction) ==
  create_mask(position, position, instruction) = 1

\* A mistake the checks must notice: m one place too high, where no bit is set.
sign_extend_wide(extendable, num_bits) == extendable % 2 ^ BITS

\* (extendable ^ m) - m, for m the sign bit of a num_bits number.
sign_extend(extendable, num_bits) ==
  LET m == 2 ^ (num_bits - 1)
      flipped == IF bit(extendable, num_bits - 1) = 1 THEN extendable - m
                                                      ELSE extendable + m
  IN  (flipped - m) % 2 ^ BITS

\* A mistake the checks must notice: bits that leave the word are lost.
shift_right(n, rot_val) == n \div 2 ^ (rot_val % BITS)

\* (n >> rot) | (n << (-rot & mask)) for rot & mask.
rotate_right(n, rot_val) ==
  LET rot  == rot_val % BITS
      left == (-rot) % BITS
  IN  IF rot = 0 THEN n ELSE (n \div 2 ^ rot) + ((n * 2 ^ left) % 2 ^ BITS)

\* The carry `shift' computes; one by the whole width is undefined as a shift.
shift_cout(n, shift_type, shift_amount) ==
  IF shift_amount = 0 THEN 0
  ELSE IF shift_type = 0 THEN create_mask(BITS - shift_amount, BITS - 1, n)
  ELSE create_mask(0, shift_amount - 1, n)
==============================================================================
