------------------------------- MODULE SymbolMap -------------------------------
(***************************************************************************)
(* What the symbol table gives its users: a map from symbols to the        *)
(* address each was given last.  A lookup answers with what the map holds, *)
(* and may cost some of the symbol's rivals their place in it.             *)
(***************************************************************************)
EXTENDS Integers

CONSTANTS Symbols, Addresses,
          Rivals      \* the other symbols in each symbol's bucket

ABSENT == -1

VARIABLES map, answer

mapVars == <<map, answer>>

Init ==
  /\ map = [s \in Symbols |-> ABSENT]
  /\ answer = ABSENT

Insert(s, address) ==
  /\ map' = [map EXCEPT ![s] = address]
  /\ UNCHANGED answer

Lookup(s) ==
  /\ answer' = map[s]
  /\ \E lost \in SUBSET Rivals[s] :
       map' = [t \in Symbols |-> IF t \in lost THEN ABSENT ELSE map[t]]

Next ==
  \E s \in Symbols : Lookup(s) \/ \E address \in Addresses : Insert(s, address)

Spec == Init /\ [][Next]_mapVars
==============================================================================
