------------------------------ MODULE SymbolTable ------------------------------
(***************************************************************************)
(* The hash table of symbol_table.c, which the assembler and the compiler  *)
(* each have a copy of.  Buckets are chains; a lookup walks a chain with   *)
(* `*lookup_entry = *lookup_entry->next', which overwrites the head of the *)
(* chain with its successor: every entry it passes over is lost.  The      *)
(* copies differ in one test: the compiler's stops at the last entry, the  *)
(* assembler's dereferences its null `next'.                               *)
(***************************************************************************)
EXTENDS Integers, Sequences, FiniteSets

CONSTANTS
  Symbols,
  Addresses,      \* labels' addresses, or variables' registers
  TABLE_SIZE,
  hash,           \* the bucket of each symbol
  ChecksNext      \* TRUE for the compiler's copy of lookup

ABSENT == -1
Slot == 0 .. TABLE_SIZE - 1

ASSUME TableAssumption ==
  /\ TABLE_SIZE \in Nat \ {0}
  /\ hash \in [Symbols -> Slot]
  /\ Addresses \subseteq Nat
  /\ ChecksNext \in BOOLEAN

VARIABLES
  entries,     \* the chain of each bucket
  count,       \* symtab->count
  answer,      \* what the last lookup returned
  crashed,     \* a null pointer was dereferenced
  last         \* auxiliary: the address each symbol was last inserted with

vars == <<entries, count, answer, crashed, last>>

Entry == [symbol : Symbols, address : Addresses]

TypeOK ==
  /\ entries \in [Slot -> Seq(Entry)]
  /\ count \in Nat
  /\ answer \in Addresses \cup {ABSENT}
  /\ crashed \in BOOLEAN
  /\ last \in [Symbols -> Addresses \cup {ABSENT}]

\* create_hash_table
Init ==
  /\ entries = [i \in Slot |-> <<>>]
  /\ count = 0
  /\ answer = ABSENT
  /\ crashed = FALSE
  /\ last = [s \in Symbols |-> ABSENT]

Chain(s) == entries[hash[s]]
Holds(chain, s) == \E i \in DOMAIN chain : chain[i].symbol = s

\* Where the walk along a chain that holds s stops.
Position(chain, s) ==
  CHOOSE i \in DOMAIN chain :
    /\ chain[i].symbol = s
    /\ \A j \in 1 .. i - 1 : chain[j].symbol # s

create_entry(s, address) == [symbol |-> s, address |-> address]

(***************************************************************************)
(* insert                                                                  *)
(***************************************************************************)
InsertIntoEmptySlot(s, address) ==
  /\ Chain(s) = <<>>
  /\ entries' = [entries EXCEPT ![hash[s]] = <<create_entry(s, address)>>]
  /\ count' = count + 1

\* A mistake the checks must notice: the old entry is left before the new one.
AppendReplacement(s, address) ==
  /\ Holds(Chain(s), s)
  /\ entries' = [entries EXCEPT ![hash[s]] = Append(@, create_entry(s, address))]
  /\ UNCHANGED count

\* A mistake the checks must notice: a replaced entry is uncounted.
ReplaceUncounted(s, address) ==
  /\ Holds(Chain(s), s)
  /\ entries' = [entries EXCEPT ![hash[s]] =
                   [@ EXCEPT ![Position(@, s)] = create_entry(s, address)]]
  /\ count' = count - 1

ReplaceAddress(s, address) ==
  /\ Holds(Chain(s), s)
  /\ entries' = [entries EXCEPT ![hash[s]] =
                   [@ EXCEPT ![Position(@, s)] = create_entry(s, address)]]
  /\ UNCHANGED count

\* A mistake the checks must notice: a bucket is counted again.
AppendAndCount(s, address) ==
  /\ Chain(s) # <<>>
  /\ ~Holds(Chain(s), s)
  /\ entries' = [entries EXCEPT ![hash[s]] = Append(@, create_entry(s, address))]
  /\ count' = count + 1

AppendToChain(s, address) ==
  /\ Chain(s) # <<>>
  /\ ~Holds(Chain(s), s)
  /\ entries' = [entries EXCEPT ![hash[s]] = Append(@, create_entry(s, address))]
  /\ UNCHANGED count

Insert(s, address) ==
  /\ ~crashed
  /\ \/ InsertIntoEmptySlot(s, address)
     \/ ReplaceAddress(s, address)
     \/ AppendToChain(s, address)
  /\ last' = [last EXCEPT ![s] = address]
  /\ UNCHANGED <<answer, crashed>>

(***************************************************************************)
(* lookup                                                                  *)
(***************************************************************************)
LookupEmptySlot(s) ==
  /\ Chain(s) = <<>>
  /\ answer' = ABSENT
  /\ UNCHANGED <<entries, crashed>>

\* A mistake the checks must notice: the walk goes one entry too far.
LookupDrops(s) ==
  /\ Holds(Chain(s), s)
  /\ LET i == Position(Chain(s), s)
     IN  /\ answer' = Chain(s)[i].address
         /\ entries' = [entries EXCEPT ![hash[s]] = SubSeq(@, i + 1, Len(@))]
  /\ UNCHANGED crashed

\* The entries before the match are gone when the walk reaches it.
LookupFinds(s) ==
  /\ Holds(Chain(s), s)
  /\ LET i == Position(Chain(s), s)
     IN  /\ answer' = Chain(s)[i].address
         /\ entries' = [entries EXCEPT ![hash[s]] = SubSeq(@, i, Len(@))]
  /\ UNCHANGED crashed

\* All but the last entry are gone when the walk reaches the chain's end.
LookupMisses(s) ==
  /\ Chain(s) # <<>>
  /\ ~Holds(Chain(s), s)
  /\ entries' = [entries EXCEPT ![hash[s]] = SubSeq(@, Len(@), Len(@))]
  /\ IF ChecksNext
       THEN answer' = ABSENT /\ UNCHANGED crashed
       ELSE crashed' = TRUE /\ UNCHANGED answer

Lookup(s) ==
  /\ ~crashed
  /\ LookupEmptySlot(s) \/ LookupFinds(s) \/ LookupMisses(s)
  /\ UNCHANGED <<count, last>>

Next ==
  \E s \in Symbols : Lookup(s) \/ \E address \in Addresses : Insert(s, address)

Spec == Init /\ [][Next]_vars

(***************************************************************************)
(* Properties                                                              *)
(***************************************************************************)
\* Every entry lies in its symbol's bucket, once, with the address its symbol
\* was last inserted with: whatever lookups have dropped and inserts have
\* appended since, no replaced address is left to be found.
EntriesAreCurrent ==
  \A i \in Slot :
    /\ \A k \in DOMAIN entries[i] :
         /\ hash[entries[i][k].symbol] = i
         /\ entries[i][k].address = last[entries[i][k].symbol]
    /\ \A j, k \in DOMAIN entries[i] :
         entries[i][j].symbol = entries[i][k].symbol => j = k

\* count is the number of buckets in use, although lookups drop entries: no
\* walk empties a bucket.
CountIsBucketsInUse == count = Cardinality({i \in Slot : entries[i] # <<>>})

\* "look up a key in the hash table": a symbol that was inserted is found.  A
\* lookup of another symbol of its bucket may have dropped it.
InsertedIsFound ==
  [][\A s \in Symbols : Lookup(s) /\ last[s] # ABSENT => answer' = last[s]]_vars

\* The table implements a map that answers with the last address inserted, as
\* long as the symbol is still there, and loses symbols only to lookups of the
\* symbols they share a bucket with.  Without such rivals it is a true map.
Found(s) == IF Holds(Chain(s), s) THEN last[s] ELSE ABSENT

Map == INSTANCE SymbolMap WITH
  map <- [s \in Symbols |-> Found(s)],
  Rivals <- [s \in Symbols |-> {t \in Symbols \ {s} : hash[t] = hash[s]}]

RefinesSymbolMap == Map!Spec
==============================================================================
