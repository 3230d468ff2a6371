----------------------------- MODULE MCSymbolTable -----------------------------
(***************************************************************************)
(* Symbols are strings of character codes under the code's hash function.  *)
(***************************************************************************)
EXTENDS SymbolTable, SequencesExt

PRIME == 7
MCHash ==
  [s \in Symbols |-> FoldLeft(LAMBDA h, c : h * PRIME + c, 0, s) % TABLE_SIZE]

\* `A', `j' and `LB' share a bucket of the 41; `B' has one of its own.
MCSymbols == {<<65>>, <<106>>, <<76, 66>>, <<66>>}
==============================================================================
