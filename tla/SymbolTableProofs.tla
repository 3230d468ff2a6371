--------------------------- MODULE SymbolTableProofs ---------------------------
(***************************************************************************)
(* Theorems about the symbol table, for every set of symbols, hash         *)
(* function and number of buckets, and both copies of the code.            *)
(***************************************************************************)
EXTENDS SymbolTable, SequenceTheorems, FiniteSetTheorems, TLAPS

(***************************************************************************)
(* One chain                                                               *)
(***************************************************************************)
\* EntriesAreCurrent, of one bucket: its entries are its own symbols', each at
\* most once, with the addresses of l.
ChainIsCurrent(chain, i, l) ==
  /\ \A k \in DOMAIN chain :
       /\ hash[chain[k].symbol] = i
       /\ chain[k].address = l[chain[k].symbol]
  /\ \A j, k \in DOMAIN chain : chain[j].symbol = chain[k].symbol => j = k

\* A chain's entries are entries.
LEMMA EntryOf ==
  ASSUME NEW chain \in Seq(Entry), NEW k \in DOMAIN chain
  PROVE  chain[k] \in Entry /\ chain[k].symbol \in Symbols /\ chain[k].address \in Addresses
<1>1. chain[k] \in Entry
  OBVIOUS
<1>. QED  BY <1>1 DEF Entry

\* An entry found in a chain without duplicates is where the walk stops.
LEMMA PositionOf ==
  ASSUME NEW chain \in Seq(Entry), NEW i, NEW l, ChainIsCurrent(chain, i, l),
         NEW s, Holds(chain, s)
  PROVE  /\ Position(chain, s) \in 1 .. Len(chain)
         /\ chain[Position(chain, s)].symbol = s
<1>1. PICK k \in DOMAIN chain : chain[k].symbol = s
  BY DEF Holds
<1>2. \A j \in 1 .. k - 1 : chain[j].symbol # s
  BY <1>1 DEF ChainIsCurrent
<1>. QED  BY <1>1, <1>2 DEF Position

\* What a lookup leaves of a chain is a chain, with fewer symbols.
LEMMA SuffixOf ==
  ASSUME NEW chain \in Seq(Entry), NEW i, NEW l, ChainIsCurrent(chain, i, l),
         NEW m \in 1 .. Len(chain)
  PROVE  LET rest == SubSeq(chain, m, Len(chain))
         IN  /\ rest \in Seq(Entry)
             /\ rest # <<>>
             /\ ChainIsCurrent(rest, i, l)
             /\ \A t : Holds(rest, t) => Holds(chain, t)
             /\ Holds(rest, chain[m].symbol)
<1>. DEFINE rest == SubSeq(chain, m, Len(chain))
<1>1. m \in Int /\ Len(chain) \in Int /\ \A k \in m .. Len(chain) : chain[k] \in Entry
  OBVIOUS
<1>2. /\ rest \in Seq(Entry)
      /\ Len(rest) = Len(chain) - m + 1
      /\ \A k \in 1 .. Len(chain) - m + 1 : rest[k] = chain[m + k - 1]
  BY <1>1, SubSeqProperties
<1>. HIDE DEF rest
<1>3. \A k \in DOMAIN rest : m + k - 1 \in DOMAIN chain /\ rest[k] = chain[m + k - 1]
  BY <1>2
<1>4. 1 \in DOMAIN rest /\ rest[1] = chain[m]
  BY <1>2
<1>5. rest # <<>>
  BY <1>2, <1>4
<1>6. ASSUME NEW j \in DOMAIN rest, NEW k \in DOMAIN rest,
             rest[j].symbol = rest[k].symbol
      PROVE  j = k
  <2>1. m + j - 1 = m + k - 1
    BY <1>3, <1>6 DEF ChainIsCurrent
  <2>. QED  BY <2>1, <1>2
<1>7. ChainIsCurrent(rest, i, l)
  BY <1>3, <1>6 DEF ChainIsCurrent
<1>8. \A t : Holds(rest, t) => Holds(chain, t)
  BY <1>3 DEF Holds
<1>9. Holds(rest, chain[m].symbol)
  BY <1>4 DEF Holds
<1>. QED  BY <1>2, <1>5, <1>7, <1>8, <1>9 DEF rest

\* A bucket that does not hold s does not mind its new address.
LEMMA OtherChain ==
  ASSUME NEW chain \in Seq(Entry), NEW i, NEW l \in [Symbols -> Addresses \cup {ABSENT}],
         ChainIsCurrent(chain, i, l), NEW s \in Symbols, ~Holds(chain, s), NEW address
  PROVE  ChainIsCurrent(chain, i, [l EXCEPT ![s] = address])
<1>1. \A k \in DOMAIN chain : chain[k].symbol \in Symbols /\ chain[k].symbol # s
  BY EntryOf DEF Holds
<1>. QED  BY <1>1 DEF ChainIsCurrent

\* Replacing the address of s where it stands.
LEMMA ReplacedChain ==
  ASSUME NEW chain \in Seq(Entry), NEW i, NEW l \in [Symbols -> Addresses \cup {ABSENT}],
         ChainIsCurrent(chain, i, l), NEW s \in Symbols, NEW address \in Addresses,
         Holds(chain, s)
  PROVE  LET new == [chain EXCEPT ![Position(chain, s)] = create_entry(s, address)]
         IN  /\ new \in Seq(Entry)
             /\ new # <<>>
             /\ ChainIsCurrent(new, i, [l EXCEPT ![s] = address])
             /\ \A t : Holds(new, t) <=> Holds(chain, t)
<1>. DEFINE p == Position(chain, s)
            e == create_entry(s, address)
            new == [chain EXCEPT ![p] = e]
<1>1. p \in 1 .. Len(chain) /\ chain[p].symbol = s
  BY PositionOf
<1>2. e \in Entry /\ e.symbol = s /\ e.address = address
  BY DEF create_entry, Entry
<1>. HIDE DEF p, e
<1>3. /\ new \in Seq(Entry)
      /\ Len(new) = Len(chain)
      /\ \A j \in 1 .. Len(chain) : new[j] = IF j = p THEN e ELSE chain[j]
  BY <1>1, <1>2, ExceptSeq
<1>. HIDE DEF new
<1>4. \A j \in DOMAIN new : j \in DOMAIN chain /\ new[j].symbol = chain[j].symbol
  BY <1>1, <1>2, <1>3
<1>5. DOMAIN new = DOMAIN chain
  BY <1>3
<1>6. \A t : Holds(new, t) <=> Holds(chain, t)
  BY <1>4, <1>5 DEF Holds
<1>7. new # <<>>
  BY <1>1, <1>3
<1>8. ASSUME NEW k \in DOMAIN new
      PROVE  new[k].address = [l EXCEPT ![s] = address][new[k].symbol]
  <2>1. CASE k = p
    BY <1>1, <1>2, <1>3, <2>1
  <2>2. CASE k # p
    <3>1. k \in DOMAIN chain /\ new[k] = chain[k] /\ chain[k].symbol # s
      BY <1>1, <1>3, <1>4, <2>2 DEF ChainIsCurrent
    <3>2. chain[k].symbol \in Symbols
      BY <3>1, EntryOf
    <3>. QED  BY <3>1, <3>2 DEF ChainIsCurrent
  <2>. QED  BY <2>1, <2>2
<1>9. ChainIsCurrent(new, i, [l EXCEPT ![s] = address])
  BY <1>4, <1>8 DEF ChainIsCurrent
<1>. QED  BY <1>3, <1>6, <1>7, <1>9 DEF new, p, e

\* Appending s to a chain that does not hold it, the empty one included.
LEMMA AppendedChain ==
  ASSUME NEW chain \in Seq(Entry), NEW l \in [Symbols -> Addresses \cup {ABSENT}],
         NEW s \in Symbols, NEW address \in Addresses,
         ChainIsCurrent(chain, hash[s], l), ~Holds(chain, s)
  PROVE  LET new == Append(chain, create_entry(s, address))
         IN  /\ new \in Seq(Entry)
             /\ new # <<>>
             /\ ChainIsCurrent(new, hash[s], [l EXCEPT ![s] = address])
             /\ \A t : Holds(new, t) <=> Holds(chain, t) \/ t = s
<1>. DEFINE e == create_entry(s, address)
            new == Append(chain, e)
            m == [l EXCEPT ![s] = address]
<1>1. e \in Entry /\ e.symbol = s /\ e.address = address
  BY DEF create_entry, Entry
<1>. HIDE DEF e
<1>2. /\ new \in Seq(Entry)
      /\ new # <<>>
      /\ Len(new) = Len(chain) + 1
      /\ \A j \in 1 .. Len(chain) : new[j] = chain[j]
      /\ new[Len(chain) + 1] = e
  BY <1>1, AppendProperties
<1>. HIDE DEF new
<1>3. DOMAIN new = 1 .. Len(chain) + 1 /\ DOMAIN chain = 1 .. Len(chain)
  BY <1>2
<1>4. \A j \in DOMAIN new : (j \in DOMAIN chain /\ new[j] = chain[j]
                              /\ chain[j].symbol # s)
                            \/ (j = Len(chain) + 1 /\ new[j] = e)
  BY <1>2, <1>3 DEF Holds
<1>5. ChainIsCurrent(chain, hash[s], m)
  BY OtherChain
<1>6. m[s] = address
  OBVIOUS
<1>. HIDE DEF m
<1>7. ChainIsCurrent(new, hash[s], m)
  BY <1>1, <1>4, <1>5, <1>6 DEF ChainIsCurrent
<1>8. ASSUME NEW t PROVE Holds(new, t) <=> Holds(chain, t) \/ t = s
  <2>1. Holds(new, t) => Holds(chain, t) \/ t = s
    BY <1>1, <1>4 DEF Holds
  <2>2. Holds(chain, t) => Holds(new, t)
    BY <1>2, <1>3 DEF Holds
  <2>3. Len(chain) + 1 \in DOMAIN new
    BY <1>3
  <2>. QED  BY <2>1, <2>2, <2>3, <1>1, <1>2 DEF Holds
<1>. QED  BY <1>2, <1>7, <1>8 DEF new, e, m

(***************************************************************************)
(* The whole table                                                         *)
(***************************************************************************)
\* EntriesAreCurrent, bucket by bucket.
LEMMA CurrentByBucket ==
  EntriesAreCurrent <=> \A i \in Slot : ChainIsCurrent(entries[i], i, last)
BY DEF EntriesAreCurrent, ChainIsCurrent

\* The bucket of a symbol.
LEMMA ChainType ==
  ASSUME TypeOK, EntriesAreCurrent, NEW s \in Symbols
  PROVE  /\ hash[s] \in Slot
         /\ Chain(s) \in Seq(Entry)
         /\ ChainIsCurrent(Chain(s), hash[s], last)
BY TableAssumption, CurrentByBucket DEF TypeOK, Chain

\* A bucket other than s's does not hold s.
LEMMA NotInOtherBuckets ==
  ASSUME TypeOK, EntriesAreCurrent, NEW s, NEW i \in Slot, i # hash[s]
  PROVE  ~Holds(entries[i], s)
BY DEF EntriesAreCurrent, Holds

\* What an insert does: its symbol's bucket holds it as well, current.
LEMMA InsertEffect ==
  ASSUME TypeOK, EntriesAreCurrent, NEW s \in Symbols, NEW address \in Addresses,
         Insert(s, address)
  PROVE  \E new \in Seq(Entry) :
           /\ entries' = [entries EXCEPT ![hash[s]] = new]
           /\ count' = IF Chain(s) = <<>> THEN count + 1 ELSE count
           /\ new # <<>>
           /\ ChainIsCurrent(new, hash[s], [last EXCEPT ![s] = address])
           /\ \A t : Holds(new, t) <=> Holds(Chain(s), t) \/ t = s
<1>0. /\ Chain(s) \in Seq(Entry)
      /\ ChainIsCurrent(Chain(s), hash[s], last)
      /\ last \in [Symbols -> Addresses \cup {ABSENT}]
  BY ChainType DEF TypeOK
<1>1. CASE InsertIntoEmptySlot(s, address)
  <2>1. Chain(s) = <<>> /\ ~Holds(Chain(s), s)
    BY <1>1 DEF InsertIntoEmptySlot, Holds
  <2>2. Append(Chain(s), create_entry(s, address)) = <<create_entry(s, address)>>
    BY <2>1
  <2>. DEFINE new == Append(Chain(s), create_entry(s, address))
  <2>3. entries' = [entries EXCEPT ![hash[s]] = new] /\ count' = count + 1
    BY <1>1, <2>2 DEF InsertIntoEmptySlot
  <2>4. /\ new \in Seq(Entry)
        /\ new # <<>>
        /\ ChainIsCurrent(new, hash[s], [last EXCEPT ![s] = address])
        /\ \A t : Holds(new, t) <=> Holds(Chain(s), t) \/ t = s
    BY <1>0, <2>1, AppendedChain
  <2>. HIDE DEF new
  <2>. QED  BY <2>1, <2>3, <2>4
<1>2. CASE ReplaceAddress(s, address)
  <2>. DEFINE new == [Chain(s) EXCEPT ![Position(Chain(s), s)] = create_entry(s, address)]
  <2>1. /\ Holds(Chain(s), s)
        /\ entries' = [entries EXCEPT ![hash[s]] = new]
        /\ count' = count
    BY <1>2, <1>0, ChainType DEF ReplaceAddress, Chain, TypeOK
  <2>2. /\ new \in Seq(Entry)
        /\ new # <<>>
        /\ ChainIsCurrent(new, hash[s], [last EXCEPT ![s] = address])
        /\ \A t : Holds(new, t) <=> Holds(Chain(s), t)
    BY <1>0, <2>1, ReplacedChain
  <2>3. Chain(s) # <<>>
    BY <2>1 DEF Holds
  <2>. HIDE DEF new
  <2>. QED  BY <2>1, <2>2, <2>3
<1>3. CASE AppendToChain(s, address)
  <2>. DEFINE new == Append(Chain(s), create_entry(s, address))
  <2>1. /\ ~Holds(Chain(s), s)
        /\ Chain(s) # <<>>
        /\ entries' = [entries EXCEPT ![hash[s]] = new]
        /\ count' = count
    BY <1>3, ChainType DEF AppendToChain, Chain, TypeOK
  <2>2. /\ new \in Seq(Entry)
        /\ new # <<>>
        /\ ChainIsCurrent(new, hash[s], [last EXCEPT ![s] = address])
        /\ \A t : Holds(new, t) <=> Holds(Chain(s), t) \/ t = s
    BY <1>0, <2>1, AppendedChain
  <2>. HIDE DEF new
  <2>. QED  BY <2>1, <2>2
<1>. QED  BY <1>1, <1>2, <1>3 DEF Insert

\* What a lookup does: its symbol's bucket may hold fewer symbols, but still
\* holds its own if it did, and a bucket in use stays in use.
LEMMA LookupEffect ==
  ASSUME TypeOK, EntriesAreCurrent, NEW s \in Symbols, Lookup(s)
  PROVE  \E rest \in Seq(Entry) :
           /\ entries' = [entries EXCEPT ![hash[s]] = rest]
           /\ rest = <<>> <=> Chain(s) = <<>>
           /\ ChainIsCurrent(rest, hash[s], last)
           /\ \A t : Holds(rest, t) => Holds(Chain(s), t)
           /\ Holds(Chain(s), s) => Holds(rest, s)
<1>0. /\ Chain(s) \in Seq(Entry)
      /\ hash[s] \in Slot
      /\ ChainIsCurrent(Chain(s), hash[s], last)
      /\ Chain(s) = entries[hash[s]]
      /\ entries \in [Slot -> Seq(Entry)]
  BY ChainType DEF TypeOK, Chain
<1>1. CASE LookupEmptySlot(s)
  <2>1. entries' = [entries EXCEPT ![hash[s]] = Chain(s)]
    BY <1>0, <1>1 DEF LookupEmptySlot
  <2>. QED  BY <1>0, <2>1
<1>2. ASSUME NEW m \in 1 .. Len(Chain(s)),
             entries' = [entries EXCEPT ![hash[s]] = SubSeq(Chain(s), m, Len(Chain(s)))],
             Holds(Chain(s), s) => Chain(s)[m].symbol = s
      PROVE  \E rest \in Seq(Entry) :
               /\ entries' = [entries EXCEPT ![hash[s]] = rest]
               /\ rest = <<>> <=> Chain(s) = <<>>
               /\ ChainIsCurrent(rest, hash[s], last)
               /\ \A t : Holds(rest, t) => Holds(Chain(s), t)
               /\ Holds(Chain(s), s) => Holds(rest, s)
  <2>. DEFINE rest == SubSeq(Chain(s), m, Len(Chain(s)))
  <2>1. /\ rest \in Seq(Entry)
        /\ rest # <<>>
        /\ ChainIsCurrent(rest, hash[s], last)
        /\ \A t : Holds(rest, t) => Holds(Chain(s), t)
        /\ Holds(rest, Chain(s)[m].symbol)
    BY <1>0, SuffixOf
  <2>2. Chain(s) # <<>>
    OBVIOUS
  <2>. HIDE DEF rest
  <2>3. entries' = [entries EXCEPT ![hash[s]] = rest]
    BY <1>2 DEF rest
  <2>. QED  BY <1>2, <2>1, <2>2, <2>3
<1>3. CASE LookupFinds(s)
  <2>1. /\ Position(Chain(s), s) \in 1 .. Len(Chain(s))
        /\ Chain(s)[Position(Chain(s), s)].symbol = s
    BY <1>0, <1>3, PositionOf DEF LookupFinds
  <2>2. entries' = [entries EXCEPT ![hash[s]] =
                      SubSeq(Chain(s), Position(Chain(s), s), Len(Chain(s)))]
    BY <1>0, <1>3 DEF LookupFinds
  <2>. QED  BY <1>2, <2>1, <2>2
<1>4. CASE LookupMisses(s)
  <2>1. ~Holds(Chain(s), s) /\ Len(Chain(s)) \in 1 .. Len(Chain(s))
    BY <1>0, <1>4 DEF LookupMisses
  <2>2. entries' = [entries EXCEPT ![hash[s]] =
                      SubSeq(Chain(s), Len(Chain(s)), Len(Chain(s)))]
    BY <1>0, <1>4 DEF LookupMisses
  <2>. QED  BY <1>2, <2>1, <2>2
<1>. QED  BY <1>1, <1>3, <1>4 DEF Lookup

(***************************************************************************)
(* The invariants                                                          *)
(***************************************************************************)
TableInv == TypeOK /\ EntriesAreCurrent

\* The buckets that are in use.
InUse == {i \in Slot : entries[i] # <<>>}

LEMMA InitTable == Init => TableInv /\ CountIsBucketsInUse
<1>. SUFFICES ASSUME Init PROVE TableInv /\ CountIsBucketsInUse
  OBVIOUS
<1>1. TypeOK
  <2>1. <<>> \in Seq(Entry)
    OBVIOUS
  <2>2. entries \in [Slot -> Seq(Entry)]
    BY <2>1 DEF Init
  <2>. QED  BY <2>2 DEF Init, TypeOK
<1>2. EntriesAreCurrent
  BY DEF Init, EntriesAreCurrent
<1>3. {i \in Slot : entries[i] # <<>>} = {}
  BY DEF Init
<1>4. count = 0
  BY DEF Init
<1>. QED  BY <1>1, <1>2, <1>3, <1>4, FS_EmptySet DEF TableInv, CountIsBucketsInUse

\* An insert keeps every bucket current, whatever lookups have dropped before.
LEMMA InsertKeepsTable ==
  ASSUME TableInv, NEW s \in Symbols, NEW address \in Addresses, Insert(s, address)
  PROVE  TableInv'
<1>1. PICK new \in Seq(Entry) :
        /\ entries' = [entries EXCEPT ![hash[s]] = new]
        /\ count' = IF Chain(s) = <<>> THEN count + 1 ELSE count
        /\ ChainIsCurrent(new, hash[s], [last EXCEPT ![s] = address])
  BY InsertEffect DEF TableInv
<1>2. last' = [last EXCEPT ![s] = address] /\ UNCHANGED <<answer, crashed>>
  BY DEF Insert
<1>3. TypeOK'
  <2>1. entries' \in [Slot -> Seq(Entry)]
    BY <1>1 DEF TableInv, TypeOK
  <2>2. count' \in Nat
    BY <1>1 DEF TableInv, TypeOK
  <2>3. last' \in [Symbols -> Addresses \cup {ABSENT}]
    BY <1>2 DEF TableInv, TypeOK
  <2>. QED  BY <1>2, <2>1, <2>2, <2>3 DEF TableInv, TypeOK
<1>4. ASSUME NEW i \in Slot PROVE ChainIsCurrent(entries'[i], i, last')
  <2>1. CASE i = hash[s]
    BY <1>1, <1>2, <2>1, ChainType DEF TableInv, TypeOK
  <2>2. CASE i # hash[s]
    <3>1. entries'[i] = entries[i] /\ entries[i] \in Seq(Entry)
      BY <1>1, <2>2 DEF TableInv, TypeOK
    <3>2. ChainIsCurrent(entries[i], i, last) /\ ~Holds(entries[i], s)
      BY <2>2, CurrentByBucket, NotInOtherBuckets DEF TableInv
    <3>. QED  BY <1>2, <3>1, <3>2, OtherChain DEF TableInv, TypeOK
  <2>. QED  BY <2>1, <2>2
<1>5. EntriesAreCurrent'
  BY <1>4 DEF EntriesAreCurrent, ChainIsCurrent
<1>. QED  BY <1>3, <1>5 DEF TableInv

\* So does a lookup.
LEMMA LookupKeepsTable ==
  ASSUME TableInv, NEW s \in Symbols, Lookup(s)
  PROVE  TableInv'
<1>1. PICK rest \in Seq(Entry) :
        /\ entries' = [entries EXCEPT ![hash[s]] = rest]
        /\ ChainIsCurrent(rest, hash[s], last)
  BY LookupEffect DEF TableInv
<1>2. last' = last /\ count' = count
  BY DEF Lookup
<1>3. answer' \in Addresses \cup {ABSENT} /\ crashed' \in BOOLEAN
  <2>1. CASE LookupEmptySlot(s)
    BY <2>1 DEF LookupEmptySlot, TableInv, TypeOK
  <2>2. CASE LookupFinds(s)
    <3>1. /\ Chain(s) \in Seq(Entry)
          /\ Position(Chain(s), s) \in DOMAIN Chain(s)
      BY <2>2, ChainType, PositionOf DEF LookupFinds, TableInv
    <3>2. Chain(s)[Position(Chain(s), s)].address \in Addresses
      BY <3>1, EntryOf
    <3>. QED  BY <2>2, <3>2 DEF LookupFinds, TableInv, TypeOK
  <2>3. CASE LookupMisses(s)
    BY <2>3 DEF LookupMisses, TableInv, TypeOK
  <2>. QED  BY <2>1, <2>2, <2>3 DEF Lookup
<1>4. TypeOK'
  BY <1>1, <1>2, <1>3 DEF TableInv, TypeOK
<1>5. ASSUME NEW i \in Slot PROVE ChainIsCurrent(entries'[i], i, last')
  <2>1. CASE i = hash[s]
    BY <1>1, <1>2, <2>1 DEF TableInv, TypeOK
  <2>2. CASE i # hash[s]
    <3>1. entries'[i] = entries[i]
      BY <1>1, <2>2 DEF TableInv, TypeOK
    <3>. QED  BY <1>2, <3>1, CurrentByBucket DEF TableInv
  <2>. QED  BY <2>1, <2>2
<1>6. EntriesAreCurrent'
  BY <1>5 DEF EntriesAreCurrent, ChainIsCurrent
<1>. QED  BY <1>4, <1>6 DEF TableInv

LEMMA TableStep == TableInv /\ [Next]_vars => TableInv'
<1>1. ASSUME TableInv, UNCHANGED vars PROVE TableInv'
  BY <1>1 DEF TableInv, TypeOK, EntriesAreCurrent, vars
<1>. QED  BY <1>1, InsertKeepsTable, LookupKeepsTable DEF Next

\* The table keeps its type.
THEOREM SymbolTableType == Spec => []TypeOK
<1>1. TableInv => TypeOK
  BY DEF TableInv
<1>. QED  BY <1>1, InitTable, TableStep, PTL DEF Spec

\* No address that a later insert replaced is left in the table to be found,
\* in whatever order lookups dropped entries and inserts appended them.
THEOREM NoReplacedAddress == Spec => []EntriesAreCurrent
<1>1. TableInv => EntriesAreCurrent
  BY DEF TableInv
<1>. QED  BY <1>1, InitTable, TableStep, PTL DEF Spec

\* An insert brings at most its symbol's bucket into use; a lookup none.
LEMMA CountStep == TableInv /\ CountIsBucketsInUse /\ [Next]_vars => CountIsBucketsInUse'
<1>. SUFFICES ASSUME TableInv, CountIsBucketsInUse, [Next]_vars
              PROVE  CountIsBucketsInUse'
  OBVIOUS
<1>1. IsFiniteSet(InUse)
  <2>1. IsFiniteSet(Slot)
    BY FS_Interval, TableAssumption DEF Slot
  <2>2. InUse \in SUBSET Slot
    BY DEF InUse
  <2>. QED  BY <2>1, <2>2, FS_Subset
<1>2. count = Cardinality(InUse)
  BY DEF CountIsBucketsInUse, InUse
<1>3. ASSUME NEW s \in Symbols, NEW address \in Addresses, Insert(s, address)
      PROVE  CountIsBucketsInUse'
  <2>1. PICK new \in Seq(Entry) :
          /\ entries' = [entries EXCEPT ![hash[s]] = new]
          /\ count' = IF Chain(s) = <<>> THEN count + 1 ELSE count
          /\ new # <<>>
    BY <1>3, InsertEffect DEF TableInv
  <2>2. InUse' = InUse \cup {hash[s]}
    BY <2>1, ChainType DEF InUse, TableInv, TypeOK
  <2>3. hash[s] \in InUse <=> Chain(s) # <<>>
    BY ChainType DEF InUse, Chain, TableInv
  <2>4. Cardinality(InUse \cup {hash[s]})
          = IF hash[s] \in InUse THEN Cardinality(InUse) ELSE Cardinality(InUse) + 1
    BY <1>1, FS_AddElement
  <2>5. count' = Cardinality(InUse')
    BY <1>2, <2>1, <2>2, <2>3, <2>4
  <2>. QED  BY <2>5 DEF CountIsBucketsInUse, InUse
<1>4. ASSUME NEW s \in Symbols, Lookup(s)
      PROVE  CountIsBucketsInUse'
  <2>1. PICK rest \in Seq(Entry) :
          /\ entries' = [entries EXCEPT ![hash[s]] = rest]
          /\ rest = <<>> <=> Chain(s) = <<>>
    BY <1>4, LookupEffect DEF TableInv
  <2>2. InUse' = InUse
    BY <2>1, ChainType DEF InUse, Chain, TableInv, TypeOK
  <2>3. count' = Cardinality(InUse')
    BY <1>2, <1>4, <2>2 DEF Lookup
  <2>. QED  BY <2>3 DEF CountIsBucketsInUse, InUse
<1>5. CASE UNCHANGED vars
  BY <1>5 DEF CountIsBucketsInUse, vars
<1>. QED  BY <1>3, <1>4, <1>5 DEF Next

\* count is the number of buckets in use: no lookup empties one.
THEOREM CountStaysBucketsInUse == Spec => []CountIsBucketsInUse
BY InitTable, TableStep, CountStep, PTL DEF Spec

(***************************************************************************)
(* The table implements the map                                            *)
(***************************************************************************)
\* The map the table stands for, and the symbols a lookup of s may cost.
TableMap == [s \in Symbols |-> Found(s)]
RivalsOf == [s \in Symbols |-> {t \in Symbols \ {s} : hash[t] = hash[s]}]

\* After an insert, the map differs at its symbol only.
LEMMA InsertIsMapInsert ==
  ASSUME TableInv, NEW s \in Symbols, NEW address \in Addresses, Insert(s, address)
  PROVE  TableMap' = [TableMap EXCEPT ![s] = address] /\ UNCHANGED answer
<1>1. PICK new \in Seq(Entry) :
        /\ entries' = [entries EXCEPT ![hash[s]] = new]
        /\ \A t : Holds(new, t) <=> Holds(Chain(s), t) \/ t = s
  BY InsertEffect DEF TableInv
<1>2. last' = [last EXCEPT ![s] = address] /\ UNCHANGED answer
  BY DEF Insert
<1>3. ASSUME NEW t \in Symbols
      PROVE  Found(t)' = IF t = s THEN address ELSE Found(t)
  <2>1. hash[t] \in Slot /\ hash[s] \in Slot /\ entries \in [Slot -> Seq(Entry)]
    BY ChainType DEF TableInv, TypeOK
  <2>2. Chain(t)' = IF hash[t] = hash[s] THEN new ELSE Chain(t)
    BY <1>1, <2>1 DEF Chain
  <2>3. Holds(Chain(t)', t) <=> Holds(Chain(t), t) \/ t = s
    BY <1>1, <2>2 DEF Chain
  <2>4. last'[t] = IF t = s THEN address ELSE last[t]
    BY <1>2 DEF TableInv, TypeOK
  <2>. QED  BY <2>3, <2>4 DEF Found
<1>. QED  BY <1>2, <1>3 DEF TableMap

\* A lookup answers with what the map holds for its symbol, and the map loses
\* rivals of the symbol at most.
LEMMA LookupIsMapLookup ==
  ASSUME ChecksNext, TableInv, NEW s \in Symbols, Lookup(s)
  PROVE  /\ answer' = TableMap[s]
         /\ \E lost \in SUBSET RivalsOf[s] :
              TableMap' = [t \in Symbols |-> IF t \in lost THEN ABSENT ELSE TableMap[t]]
<1>1. PICK rest \in Seq(Entry) :
        /\ entries' = [entries EXCEPT ![hash[s]] = rest]
        /\ \A t : Holds(rest, t) => Holds(Chain(s), t)
        /\ Holds(Chain(s), s) => Holds(rest, s)
  BY LookupEffect DEF TableInv
<1>2. last' = last
  BY DEF Lookup
<1>3. answer' = Found(s)
  <2>1. CASE LookupEmptySlot(s)
    BY <2>1 DEF LookupEmptySlot, Found, Holds
  <2>2. CASE LookupFinds(s)
    <3>. DEFINE k == Position(Chain(s), s)
    <3>1. /\ Chain(s) \in Seq(Entry)
          /\ ChainIsCurrent(Chain(s), hash[s], last)
          /\ Holds(Chain(s), s)
      BY <2>2, ChainType DEF LookupFinds, TableInv
    <3>2. k \in DOMAIN Chain(s) /\ Chain(s)[k].symbol = s
      BY <3>1, PositionOf
    <3>3. Chain(s)[k].address = last[s]
      BY <3>1, <3>2 DEF ChainIsCurrent
    <3>. QED  BY <2>2, <3>1, <3>3 DEF LookupFinds, Found
  <2>3. CASE LookupMisses(s)
    BY <2>3 DEF LookupMisses, Found
  <2>. QED  BY <2>1, <2>2, <2>3 DEF Lookup
<1>. DEFINE lost == {t \in RivalsOf[s] : ~Holds(rest, t)}
<1>4. lost \in SUBSET RivalsOf[s] /\ RivalsOf[s] \subseteq Symbols
  BY DEF RivalsOf
<1>5. ASSUME NEW t \in Symbols
      PROVE  Found(t)' = IF t \in lost THEN ABSENT ELSE Found(t)
  <2>1. hash[t] \in Slot /\ hash[s] \in Slot /\ entries \in [Slot -> Seq(Entry)]
    BY ChainType DEF TableInv, TypeOK
  <2>2. CASE hash[t] # hash[s]
    <3>1. Chain(t)' = Chain(t)
      BY <1>1, <2>1, <2>2 DEF Chain
    <3>2. t \notin lost
      BY <2>2 DEF RivalsOf
    <3>. QED  BY <1>2, <3>1, <3>2 DEF Found
  <2>3. CASE t = s
    <3>1. Chain(s)' = rest
      BY <1>1, <2>1 DEF Chain
    <3>2. Holds(rest, s) <=> Holds(Chain(s), s)
      BY <1>1
    <3>3. s \notin lost
      BY DEF RivalsOf
    <3>. QED  BY <1>2, <2>3, <3>1, <3>2, <3>3 DEF Found
  <2>4. CASE t # s /\ hash[t] = hash[s]
    <3>1. Chain(t)' = rest /\ Chain(t) = Chain(s)
      BY <1>1, <2>1, <2>4 DEF Chain
    <3>2. t \in lost <=> ~Holds(rest, t)
      BY <2>4 DEF RivalsOf
    <3>3. Holds(rest, t) => Holds(Chain(s), t)
      BY <1>1
    <3>. QED  BY <1>2, <3>1, <3>2, <3>3 DEF Found
  <2>. QED  BY <2>2, <2>3, <2>4
<1>. HIDE DEF lost
<1>6. TableMap' = [t \in Symbols |-> IF t \in lost THEN ABSENT ELSE TableMap[t]]
  BY <1>5 DEF TableMap
<1>. QED  BY <1>3, <1>4, <1>6 DEF TableMap

\* The compiler's copy implements a map that answers every lookup with the
\* address inserted last, and loses symbols only to lookups of the symbols
\* they share a bucket with: with a bucket for each symbol it is a true map.
THEOREM TableImplementsMap ==
  ASSUME ChecksNext PROVE Spec => RefinesSymbolMap
<1>1. Init => Map!Init
  BY TableAssumption DEF Init, Map!Init, Found, Chain, Holds, Map!ABSENT, ABSENT
<1>2. TableInv /\ [Next]_vars => [Map!Next]_Map!mapVars
  <2>. SUFFICES ASSUME TableInv, [Next]_vars PROVE [Map!Next]_Map!mapVars
    OBVIOUS
  <2>1. ASSUME NEW s \in Symbols, NEW address \in Addresses, Insert(s, address)
        PROVE  Map!Insert(s, address)
    BY <2>1, InsertIsMapInsert DEF Map!Insert, TableMap
  <2>2. ASSUME NEW s \in Symbols, Lookup(s)
        PROVE  Map!Lookup(s)
    BY <2>2, LookupIsMapLookup DEF Map!Lookup, TableMap, RivalsOf, Map!ABSENT, ABSENT
  <2>3. CASE UNCHANGED vars
    BY <2>3 DEF vars, Map!mapVars, Found, Chain
  <2>. QED  BY <2>1, <2>2, <2>3 DEF Next, Map!Next
<1>. QED  BY <1>1, <1>2, InitTable, TableStep, PTL DEF Spec, RefinesSymbolMap, Map!Spec
=============================================================================
