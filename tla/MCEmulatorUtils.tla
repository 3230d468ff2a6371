---------------------------- MODULE MCEmulatorUtils ----------------------------
(***************************************************************************)
(* Every word and every field of a small width, one state each.            *)
(***************************************************************************)
EXTENDS EmulatorUtils

VARIABLES word, start, finish

Init ==
  /\ word \in Words
  /\ start \in Positions
  /\ finish \in start .. BITS - 1

\* The operations are pure: each state is one call.
Next == UNCHANGED <<word, start, finish>>

Spec == Init /\ [][Next]_<<word, start, finish>>

field == (word \div 2 ^ start) % 2 ^ (finish - start + 1)

\* On a word as memory holds it, bits reversed, create_mask returns the field
\* the instruction's encoding names, lowest bit first, and extract_bit its bit.
\* A field that is the whole word is none of an encoding's, and is not read.
FieldsOfReversedWord ==
  finish - start + 1 < BITS =>
    /\ create_mask(start, finish, reverse_bits(word, BITS)) = field
    /\ start = finish =>
         (extract_bit(start, reverse_bits(word, BITS)) <=> bit(word, start) = 1)

\* sign_extend gives a field the two's complement value of its own width.
SignExtendKeepsValue ==
  LET width == finish - start + 1
      value == IF bit(word, finish) = 1 THEN field - 2 ^ width ELSE field
  IN  sign_extend(field, width) = value % 2 ^ BITS

\* rotate_right moves bit i to bit i - rot, around the end of the word, for
\* every rotation including zero and more than the width.
RotateMovesEachBit ==
  \A rot \in {start, start + BITS} : \A i \in Positions :
    bit(rotate_right(word, rot), (i - rot) % BITS) = bit(word, i)
==============================================================================
