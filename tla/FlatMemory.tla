------------------------------ MODULE FlatMemory ------------------------------
(***************************************************************************)
(* The memory a program believes in: a little-endian array of bytes, in    *)
(* which a word may start anywhere, accesses beyond the end do nothing,    *)
(* and a string is the bytes from its first to its NUL.                    *)
(***************************************************************************)
EXTENDS Integers, Sequences

CONSTANTS
  Address, ByteOf(_, _), WordOf(_),   \* where bytes are, and how they make a word
  Images, StoredWords

VARIABLES bytes, answer

flatVars == <<bytes, answer>>

Fits(a) == a + 3 \in Address

Init ==
  /\ \E image \in Images :
       bytes = [a \in Address |-> IF a \div 4 < Len(image)
                                    THEN ByteOf(image[a \div 4 + 1], a % 4) ELSE 0]
  /\ answer = 0

Store(a, w) ==
  /\ Fits(a)
  /\ bytes' = [b \in Address |-> IF b \in a .. a + 3 THEN ByteOf(w, b - a)
                                                    ELSE bytes[b]]
  /\ UNCHANGED answer

Load(a) ==
  /\ Fits(a)
  /\ answer' = WordOf([k \in 0 .. 3 |-> bytes[a + k]])
  /\ UNCHANGED bytes

Next == \E a \in Address : Load(a) \/ \E w \in StoredWords : Store(a, w)

Spec == Init /\ [][Next]_flatVars
==============================================================================
