------------------------- MODULE CodeGenerationProofs -------------------------
(***************************************************************************)
(* What the compiler's registers hold between lines, that expressions and  *)
(* comparisons free the registers they take, and that branches find their  *)
(* labels, for every program, number of registers and hash function.       *)
(***************************************************************************)
EXTENDS CodeGeneration, SequenceTheorems, FiniteSetTheorems, NaturalsInduction,
        WellFoundedInduction, TLAPS

LEMMA LeastNatural ==
  ASSUME NEW T \in SUBSET Nat, T # {}
  PROVE  \E x \in T : \A y \in T : ~(y < x)
<1>1. PICK x \in T : \A y \in T : ~ (<<y, x>> \in OpToRel(<, Nat))
  BY NatLessThanWellFounded, WFMin
<1>. QED  BY <1>1 DEF OpToRel

LEMMA LeastOf ==
  ASSUME NEW T \in SUBSET Nat, T # {}
  PROVE  Min(T) \in T /\ \A y \in T : Min(T) <= y
<1>1. PICK x \in T : \A y \in T : ~(y < x)
  BY LeastNatural
<1>2. \A y \in T : x <= y
  BY <1>1
<1>. QED  BY <1>2 DEF Min

(***************************************************************************)
(* The table of variables                                                  *)
(***************************************************************************)
IsSequence(s) == \E S : s \in Seq(S)

IsEntry(e, slot) ==
  /\ e.address \in Registers
  /\ e.symbol = <<e.symbol[1]>>
  /\ Hash(e.symbol) = slot

IsTable(t) ==
  \A slot \in DOMAIN t :
    IsSequence(t[slot]) /\ \A i \in DOMAIN t[slot] : IsEntry(t[slot][i], slot)

EntriesOf(t) == UNION {ToSet(t[slot]) : slot \in DOMAIN t}

LEMMA EntryPlace ==
  ASSUME NEW t, NEW e
  PROVE  e \in EntriesOf(t) <=> \E slot \in DOMAIN t : \E i \in DOMAIN t[slot] : e = t[slot][i]
BY DEF EntriesOf, ToSet

LEMMA EntriesTyped ==
  ASSUME NEW t, IsTable(t), NEW e \in EntriesOf(t)
  PROVE  e.address \in Registers /\ e.symbol = <<e.symbol[1]>>
BY EntryPlace DEF IsTable, IsEntry

\* The chain of a text, and where the text is in it.
LEMMA ChainFacts ==
  ASSUME NEW t, IsTable(t), NEW text
  PROVE  /\ IsSequence(ChainOf(t, text))
         /\ Len(ChainOf(t, text)) \in Nat
         /\ DOMAIN ChainOf(t, text) = 1 .. Len(ChainOf(t, text))
         /\ \A i \in DOMAIN ChainOf(t, text) : IsEntry(ChainOf(t, text)[i], Hash(text))
<1>1. <<>> \in Seq({})
  OBVIOUS
<1>2. IsSequence(ChainOf(t, text))
  BY <1>1 DEF ChainOf, IsTable, IsSequence
<1>3. \A i \in DOMAIN ChainOf(t, text) : IsEntry(ChainOf(t, text)[i], Hash(text))
  BY DEF ChainOf, IsTable
<1>. QED  BY <1>2, <1>3 DEF IsSequence

LEMMA EntryFacts ==
  ASSUME NEW t, IsTable(t), NEW text
  PROVE  /\ EntryOf(t, text) \in 0 .. Len(ChainOf(t, text))
         /\ EntryOf(t, text) # 0 => ChainOf(t, text)[EntryOf(t, text)].symbol = text
         /\ EntryOf(t, text) = 0 =>
              \A i \in DOMAIN ChainOf(t, text) : ChainOf(t, text)[i].symbol # text
<1>. DEFINE chain == ChainOf(t, text)
            I == {i \in 1 .. Len(chain) : chain[i].symbol = text}
<1>1. EntryOf(t, text) = IF I # {} THEN Min(I) ELSE 0
  BY DEF EntryOf, SelectInSeq
<1>2. Len(chain) \in Nat /\ DOMAIN chain = 1 .. Len(chain)
  BY ChainFacts
<1>3. I \in SUBSET Nat /\ 0 \notin I
  OBVIOUS
<1>4. ASSUME I # {} PROVE Min(I) \in I
  <2>. HIDE DEF I
  <2>. QED  BY <1>3, <1>4, LeastOf
<1>. QED  BY <1>1, <1>2, <1>3, <1>4

\* A lookup only loses entries.
LEMMA LookupLoses ==
  ASSUME NEW t, IsTable(t), NEW text
  PROVE  /\ IsTable(AfterLookup(t, text))
         /\ EntriesOf(AfterLookup(t, text)) \subseteq EntriesOf(t)
<1>. DEFINE chain == ChainOf(t, text)
            stop == IF EntryOf(t, text) = 0 THEN Len(chain) ELSE EntryOf(t, text)
            rest == SubSeq(chain, stop, Len(chain))
<1>1. CASE chain = <<>>
  BY <1>1 DEF AfterLookup
<1>2. CASE chain # <<>>
  <2>1. /\ IsSequence(chain) /\ Len(chain) \in Nat /\ DOMAIN chain = 1 .. Len(chain)
        /\ EntryOf(t, text) \in 0 .. Len(chain)
    BY ChainFacts, EntryFacts
  <2>2. PICK S : chain \in Seq(S)
    BY <2>1 DEF IsSequence
  <2>3. stop \in 1 .. Len(chain)
    BY <1>2, <2>1, <2>2
  <2>4. Hash(text) \in DOMAIN t /\ t[Hash(text)] = chain
    BY <1>2 DEF ChainOf
  <2>5. AfterLookup(t, text) = [t EXCEPT ![Hash(text)] = rest]
    BY <1>2 DEF AfterLookup
  <2>. HIDE DEF stop
  <2>6. \A k \in stop .. Len(chain) : chain[k] \in S
    BY <2>1, <2>2, <2>3
  <2>7. /\ rest \in Seq(S) /\ Len(rest) = Len(chain) - stop + 1
        /\ \A k \in 1 .. Len(chain) - stop + 1 : rest[k] = chain[stop + k - 1]
    BY <2>1, <2>3, <2>6, SubSeqProperties
  <2>. HIDE DEF rest, chain
  <2>8. \A k \in DOMAIN rest : stop + k - 1 \in DOMAIN chain /\ rest[k] = chain[stop + k - 1]
    BY <2>1, <2>3, <2>7
  <2>9. ASSUME NEW slot \in DOMAIN t
        PROVE  /\ IsSequence(AfterLookup(t, text)[slot])
               /\ \A i \in DOMAIN AfterLookup(t, text)[slot] :
                    \E j \in DOMAIN t[slot] : AfterLookup(t, text)[slot][i] = t[slot][j]
    <3>1. CASE slot = Hash(text)
      BY <2>4, <2>5, <2>7, <2>8, <3>1 DEF IsSequence
    <3>2. CASE slot # Hash(text)
      BY <2>5, <3>2 DEF IsTable
    <3>. QED  BY <3>1, <3>2
  <2>10. DOMAIN AfterLookup(t, text) = DOMAIN t
    BY <2>5
  <2>11. IsTable(AfterLookup(t, text))
    BY <2>9, <2>10 DEF IsTable
  <2>12. EntriesOf(AfterLookup(t, text)) \subseteq EntriesOf(t)
    BY <2>9, <2>10, EntryPlace
  <2>. QED  BY <2>11, <2>12
<1>. QED  BY <1>1, <1>2

\* An entry is found in the chain of its own text.
LEMMA EntryInChain ==
  ASSUME NEW t, IsTable(t), NEW e \in EntriesOf(t)
  PROVE  \E i \in DOMAIN ChainOf(t, e.symbol) : ChainOf(t, e.symbol)[i] = e
BY EntryPlace DEF IsTable, IsEntry, ChainOf

LEMMA ChainInTable ==
  ASSUME NEW t, IsTable(t), NEW text, NEW i \in DOMAIN ChainOf(t, text)
  PROVE  ChainOf(t, text)[i] \in EntriesOf(t)
BY EntryPlace DEF ChainOf

\* What a table answers for a variable is the register of an entry of its.
LEMMA AddressFacts ==
  ASSUME NEW c, IsTable(c.var_reg_table), NEW v
  PROVE  /\ Address(c, v) # ABSENT =>
              \E e \in Entries(c) : e.symbol = <<v>> /\ e.address = Address(c, v)
         /\ Address(c, v) # ABSENT => Address(c, v) \in Registers
         /\ Address(c, v) = ABSENT => \A e \in Entries(c) : e.symbol # <<v>>
<1>. DEFINE t == c.var_reg_table
            i == EntryOf(t, <<v>>)
            chain == ChainOf(t, <<v>>)
<1>1. Entries(c) = EntriesOf(t)
  BY DEF Entries, EntriesOf
<1>2. /\ Len(chain) \in Nat /\ DOMAIN chain = 1 .. Len(chain)
      /\ i \in 0 .. Len(chain)
      /\ i # 0 => chain[i].symbol = <<v>>
      /\ i = 0 => \A k \in DOMAIN chain : chain[k].symbol # <<v>>
  BY ChainFacts, EntryFacts
<1>3. Address(c, v) = IF i = 0 THEN ABSENT ELSE chain[i].address
  BY DEF Address
<1>. HIDE DEF t
<1>4. ASSUME i # 0
      PROVE  /\ chain[i] \in EntriesOf(t) /\ chain[i].symbol = <<v>>
             /\ chain[i].address \in Registers
  <2>1. chain[i] \in EntriesOf(t)
    BY <1>2, <1>4, ChainInTable DEF t
  <2>. QED  BY <1>2, <1>4, <2>1, EntriesTyped DEF t
<1>5. ABSENT \notin Registers
  BY DEF ABSENT, Registers
<1>6. ASSUME i = 0, NEW e \in EntriesOf(t) PROVE e.symbol # <<v>>
  <2>. SUFFICES ASSUME e.symbol = <<v>> PROVE FALSE
    OBVIOUS
  <2>1. \E k \in DOMAIN ChainOf(t, e.symbol) : ChainOf(t, e.symbol)[k] = e
    BY EntryInChain DEF t
  <2>. QED  BY <1>2, <1>6, <2>1
<1>. HIDE DEF i, chain
<1>. QED  BY <1>1, <1>3, <1>4, <1>5, <1>6

LEMMA InsertAdds ==
  ASSUME NEW t, IsTable(t), NEW v, NEW r \in Registers
  PROVE  /\ IsTable(AfterInsert(t, <<v>>, r))
         /\ EntriesOf(AfterInsert(t, <<v>>, r))
              \subseteq EntriesOf(t) \cup {[symbol |-> <<v>>, address |-> r]}
<1>. DEFINE text == <<v>>
            chain == ChainOf(t, text)
            e == [symbol |-> text, address |-> r]
            longer == Append(chain, e)
            u == AfterInsert(t, text, r)
<1>1. IsEntry(e, Hash(text))
  <2>1. text[1] = v
    OBVIOUS
  <2>. QED  BY <2>1 DEF IsEntry
<1>2. IsSequence(chain) /\ \A i \in DOMAIN chain : IsEntry(chain[i], Hash(text))
  BY ChainFacts
<1>3. PICK S : chain \in Seq(S)
  BY <1>2 DEF IsSequence
<1>. HIDE DEF e, text
<1>4. chain \in Seq(S \cup {e}) /\ e \in S \cup {e}
  BY <1>3, SeqMonotonic
<1>5. /\ longer \in Seq(S \cup {e}) /\ Len(longer) = Len(chain) + 1
      /\ \A i \in 1 .. Len(chain) : longer[i] = chain[i]
      /\ longer[Len(chain) + 1] = e
  BY <1>4, AppendProperties
<1>. HIDE DEF longer
<1>6. \A i \in DOMAIN longer : longer[i] = e \/ \E j \in DOMAIN chain : longer[i] = chain[j]
  BY <1>3, <1>5
<1>7. /\ DOMAIN u = DOMAIN t \cup {Hash(text)}
      /\ \A slot \in DOMAIN u : u[slot] = IF slot = Hash(text) THEN longer ELSE t[slot]
  BY DEF AfterInsert, e, longer
<1>. HIDE DEF u, chain
<1>8. IsTable(u)
  BY <1>1, <1>2, <1>5, <1>6, <1>7 DEF IsTable, IsSequence
<1>9. \A slot \in DOMAIN u : \A i \in DOMAIN u[slot] : u[slot][i] \in EntriesOf(t) \cup {e}
  <2>. SUFFICES ASSUME NEW slot \in DOMAIN u, NEW i \in DOMAIN u[slot]
                PROVE  u[slot][i] \in EntriesOf(t) \cup {e}
    OBVIOUS
  <2>1. CASE slot = Hash(text)
    BY <1>6, <1>7, <2>1, ChainInTable DEF chain
  <2>2. CASE slot # Hash(text)
    BY <1>7, <2>2, EntryPlace
  <2>. QED  BY <2>1, <2>2
<1>10. EntriesOf(u) \subseteq EntriesOf(t) \cup {e}
  BY <1>9, EntryPlace
<1>. QED  BY <1>8, <1>10 DEF u, e, text

(***************************************************************************)
(* A call                                                                  *)
(***************************************************************************)
Fields ==
  {"lines", "operands", "status", "branch_num", "inp_branch_num", "free_reg_arr",
   "var_reg_table", "holds", "written", "kept", "exposed", "num_len",
   "num_rnd_branches", "string_eq_branch_num", "assembly_file", "repeats"}

CallOK(c) ==
  /\ DOMAIN c = Fields
  /\ c.status \in {"compiling", "done", "failed", "undefined"}
  /\ c.free_reg_arr \subseteq Registers
  /\ IsTable(c.var_reg_table)
  /\ DOMAIN c.holds = Registers
  /\ c.written \cup c.kept \subseteq Registers
  /\ IsSequence(c.operands)

\* The variables keep their registers, but for those of V, whose registers have
\* no value yet.
KeepBut(c, V) ==
  \A e \in Entries(c) :
    e.symbol[1] \notin c.exposed =>
      /\ e.address \notin c.free_reg_arr
      /\ e.symbol[1] \notin V => c.holds[e.address] = e.symbol

\* Where a step leads from c that compiles part of a line.
Leads(c, d, V) ==
  /\ CallOK(d)
  /\ Entries(d) \subseteq Entries(c)
  /\ KeepBut(d, V)
  /\ d.status \in {c.status, "failed", "undefined"}
  /\ d.lines = c.lines

LEMMA CallTyped ==
  ASSUME NEW c, NEW lines
  PROVE  CallOK(Call(lines, c))
<1>. DEFINE d == Call(lines, c)
<1>1. DOMAIN d = Fields
  BY DEF Call, Fields
<1>2. d.free_reg_arr = Registers /\ d.status = "compiling" /\ d.var_reg_table = <<>> /\ d.kept = {}
  BY DEF Call
<1>3. d.written \subseteq Registers
  BY RegistersAssumption DEF Call, Registers
<1>4. DOMAIN d.holds = Registers
  BY DEF Call
<1>5. IsTable(<<>>)
  BY DEF IsTable
<1>6. d.operands = <<>> /\ <<>> \in Seq({})
  BY DEF Call
<1>. QED  BY <1>1, <1>2, <1>3, <1>4, <1>5, <1>6 DEF CallOK, IsSequence

LEMMA StopKeeps ==
  ASSUME NEW c, NEW V, CallOK(c), KeepBut(c, V), NEW status \in {"failed", "undefined"}
  PROVE  Leads(c, Stop(c, status), V) /\ ~Compiling(Stop(c, status))
<1>. DEFINE d == Stop(c, status)
<1>1. /\ DOMAIN d = Fields /\ d.status \in {"done", "failed", "undefined"}
      /\ d.status \in {c.status, "failed", "undefined"}
      /\ d.operands = c.operands /\ d.lines = c.lines
  BY DEF Stop, Compiling, CallOK, Fields
<1>2. /\ d.free_reg_arr = c.free_reg_arr /\ d.var_reg_table = c.var_reg_table
      /\ d.holds = c.holds /\ d.written = c.written /\ d.kept = c.kept /\ d.exposed = c.exposed
      /\ d.operands = c.operands /\ d.lines = c.lines
  BY DEF Stop
<1>. QED  BY <1>1, <1>2 DEF Leads, CallOK, KeepBut, Entries, Compiling

Ready(c, V) == CallOK(c) /\ KeepBut(c, V)

LEMMA LeadsOn ==
  ASSUME NEW c, NEW d, NEW V, Leads(c, d, V)
  PROVE  Ready(d, V) /\ \A e : Leads(d, e, V) => Leads(c, e, V)
BY DEF Leads, Ready, CallOK

\* Steps that change nothing of the registers.
Alike(c, d) ==
  /\ DOMAIN d = Fields
  /\ d.status = c.status
  /\ d.free_reg_arr = c.free_reg_arr
  /\ d.var_reg_table = c.var_reg_table
  /\ d.holds = c.holds
  /\ d.written = c.written
  /\ d.kept = c.kept
  /\ d.exposed = c.exposed
  /\ IsSequence(d.operands)
  /\ d.lines = c.lines

LEMMA AlikeKeeps ==
  ASSUME NEW c, NEW d, NEW V, Ready(c, V), Alike(c, d)
  PROVE  Leads(c, d, V)
BY DEF Ready, Alike, Leads, CallOK, KeepBut, Entries

LEMMA LongerSequence ==
  ASSUME NEW s, IsSequence(s), NEW o
  PROVE  /\ IsSequence(Append(s, o))
         /\ Len(s) \in Nat /\ Len(Append(s, o)) = Len(s) + 1
         /\ \A i \in 1 .. Len(s) : Append(s, o)[i] = s[i]
         /\ Append(s, o)[Len(s) + 1] = o
<1>1. PICK S : s \in Seq(S)
  BY DEF IsSequence
<1>2. s \in Seq(S \cup {o}) /\ o \in S \cup {o}
  BY <1>1, SeqMonotonic
<1>3. Len(s) \in Nat
  BY <1>1
<1>. QED  BY <1>2, <1>3, AppendProperties DEF IsSequence

LEMMA PushKeeps ==
  ASSUME NEW c, NEW V, Ready(c, V), NEW o
  PROVE  Leads(c, PushOperand(c, o), V)
<1>1. IsSequence(Append(c.operands, o))
  BY LongerSequence DEF Ready, CallOK
<1>2. Alike(c, PushOperand(c, o))
  BY <1>1 DEF Alike, PushOperand, Ready, CallOK, Fields
<1>. QED  BY <1>2, AlikeKeeps

LEMMA EmitKeeps ==
  ASSUME NEW c, NEW V, Ready(c, V), NEW lines
  PROVE  Leads(c, Emit(c, lines), V)
<1>1. Alike(c, Emit(c, lines))
  BY DEF Alike, Emit, Ready, CallOK, Fields
<1>. QED  BY <1>1, AlikeKeeps

LEMMA LookupKeeps ==
  ASSUME NEW c, NEW V, Ready(c, V), NEW text
  PROVE  Leads(c, Lookup(c, text), V)
<1>. DEFINE d == Lookup(c, text)
<1>1. /\ DOMAIN d = Fields /\ d.status = c.status /\ d.free_reg_arr = c.free_reg_arr
      /\ d.var_reg_table = AfterLookup(c.var_reg_table, text)
      /\ d.holds = c.holds /\ d.written = c.written /\ d.kept = c.kept /\ d.exposed = c.exposed
      /\ d.operands = c.operands /\ d.lines = c.lines
  BY DEF Lookup, Ready, CallOK, Fields
<1>2. Entries(c) = EntriesOf(c.var_reg_table) /\ Entries(d) = EntriesOf(d.var_reg_table)
  BY DEF Entries, EntriesOf
<1>3. IsTable(d.var_reg_table) /\ Entries(d) \subseteq Entries(c)
  BY <1>1, <1>2, LookupLoses DEF Ready, CallOK
<1>. HIDE DEF d
<1>. QED  BY <1>1, <1>3 DEF Leads, Ready, CallOK, KeepBut, d

LEMMA TakeKeeps ==
  ASSUME NEW c, NEW V, Ready(c, V), NEW r
  PROVE  Leads(c, Take(c, r), V)
<1>. DEFINE d == Take(c, r)
<1>1. /\ DOMAIN d = Fields /\ d.status = c.status /\ d.free_reg_arr = c.free_reg_arr \ {r}
      /\ d.var_reg_table = c.var_reg_table
      /\ d.holds = c.holds /\ d.written = c.written /\ d.kept = c.kept /\ d.exposed = c.exposed
      /\ d.operands = c.operands /\ d.lines = c.lines
  BY DEF Take, Ready, CallOK, Fields
<1>. HIDE DEF d
<1>2. Entries(d) = Entries(c)
  BY <1>1 DEF Entries
<1>. QED  BY <1>1, <1>2 DEF Leads, Ready, CallOK, KeepBut, d

LEMMA ReleaseKeeps ==
  ASSUME NEW c, NEW V, Ready(c, V), NEW r
  PROVE  Leads(c, Release(c, r), V)
<1>. DEFINE d == Release(c, r)
<1>2. CASE ~(Compiling(c) /\ r \in Registers)
  <2>1. d = Stop(c, "undefined")
    BY <1>2 DEF Release, Undefined
  <2>. QED  BY <2>1, StopKeeps DEF Ready
<1>3. CASE Compiling(c) /\ r \in Registers
  <2>1. /\ DOMAIN d = Fields /\ d.status = c.status
        /\ d.free_reg_arr = c.free_reg_arr \cup {r}
        /\ d.var_reg_table = c.var_reg_table
        /\ d.holds = c.holds /\ d.written = c.written /\ d.kept = c.kept
        /\ d.exposed = c.exposed \cup VariablesIn(c, {r})
        /\ d.operands = c.operands /\ d.lines = c.lines
    BY <1>3 DEF Release, Ready, CallOK, Fields
  <2>. HIDE DEF d
  <2>2. Entries(d) = Entries(c)
    BY <2>1 DEF Entries
  <2>3. \A e \in Entries(c) : e.address = r => e.symbol[1] \in VariablesIn(c, {r})
    BY DEF VariablesIn
  <2>4. KeepBut(d, V)
    BY <2>1, <2>2, <2>3 DEF Ready, KeepBut
  <2>. QED  BY <1>3, <2>1, <2>2, <2>4 DEF Leads, Ready, CallOK, d
<1>. QED  BY <1>2, <1>3

LEMMA FirstFree ==
  ASSUME NEW c, CallOK(c)
  PROVE  IF c.free_reg_arr = {}
           THEN first_free_reg(c) = -1
           ELSE first_free_reg(c) \in c.free_reg_arr /\ first_free_reg(c) \in Registers
<1>1. c.free_reg_arr \in SUBSET Nat
  BY DEF CallOK, Registers
<1>2. c.free_reg_arr # {} => Min(c.free_reg_arr) \in c.free_reg_arr
  BY <1>1, LeastOf
<1>. QED  BY <1>2 DEF first_free_reg, CallOK

\* What is written to a free register changes no variable.
LEMMA ScratchKeeps ==
  ASSUME NEW c, NEW V, Ready(c, V), NEW value
  PROVE  Leads(c, Scratch(c, value), V) /\ Leads(c, ScratchTaken(c, value), V)
<1>. DEFINE d == Scratch(c, value)
            r == first_free_reg(c)
<1>2. CASE ~(Compiling(c) /\ c.free_reg_arr # {})
  <2>1. d = Stop(c, "undefined")
    BY <1>2 DEF Scratch, Undefined
  <2>2. Leads(c, d, V)
    BY <2>1, StopKeeps DEF Ready
  <2>. QED  BY <2>2, TakeKeeps, LeadsOn DEF ScratchTaken
<1>3. CASE Compiling(c) /\ c.free_reg_arr # {}
  <2>1. r \in c.free_reg_arr /\ r \in Registers
    BY <1>3, FirstFree DEF Ready
  <2>. HIDE DEF r
  <2>2. d = Write(c, r, value)
    BY <1>3 DEF Scratch, r
  <2>3. /\ DOMAIN d = Fields /\ d.status = c.status /\ d.free_reg_arr = c.free_reg_arr
        /\ d.var_reg_table = c.var_reg_table
        /\ d.holds = [c.holds EXCEPT ![r] = value]
        /\ d.written = c.written \cup {r} /\ d.kept = c.kept /\ d.exposed = c.exposed
        /\ d.operands = c.operands /\ d.lines = c.lines
    BY <2>2 DEF Write, Ready, CallOK, Fields
  <2>. HIDE DEF d
  <2>4. Entries(d) = Entries(c)
    BY <2>3 DEF Entries
  <2>5. KeepBut(d, V)
    BY <2>1, <2>3, <2>4 DEF Ready, KeepBut
  <2>6. Leads(c, d, V)
    BY <2>1, <2>3, <2>4, <2>5 DEF Leads, Ready, CallOK
  <2>. QED  BY <2>6, TakeKeeps, LeadsOn DEF ScratchTaken, d
<1>. QED  BY <1>2, <1>3

(***************************************************************************)
(* What the parts of an expression do to the registers that are free, and  *)
(* to the operands.                                                        *)
(***************************************************************************)
Has(d, free, kept, operands) ==
  Compiling(d) => d.free_reg_arr = free /\ d.kept = kept /\ d.operands = operands

LEMMA Effects ==
  ASSUME NEW c, CallOK(c), NEW x
  PROVE  /\ Has(PushOperand(c, x), c.free_reg_arr, c.kept, Append(c.operands, x))
         /\ Has(Emit(c, x), c.free_reg_arr, c.kept, c.operands)
         /\ Has(Lookup(c, x), c.free_reg_arr, c.kept, c.operands)
         /\ Has(Take(c, x), c.free_reg_arr \ {x}, c.kept, c.operands)
         /\ Has(Release(c, x), c.free_reg_arr \cup {x}, c.kept, c.operands)
         /\ Has(Scratch(c, x), c.free_reg_arr, c.kept, c.operands)
         /\ Has(ScratchTaken(c, x), c.free_reg_arr \ {first_free_reg(c)}, c.kept, c.operands)
<1>1. Has(PushOperand(c, x), c.free_reg_arr, c.kept, Append(c.operands, x))
  BY DEF Has, PushOperand, CallOK, Fields
<1>2. Has(Emit(c, x), c.free_reg_arr, c.kept, c.operands)
  BY DEF Has, Emit, CallOK, Fields
<1>3. Has(Lookup(c, x), c.free_reg_arr, c.kept, c.operands)
  BY DEF Has, Lookup, CallOK, Fields
<1>4. Has(Take(c, x), c.free_reg_arr \ {x}, c.kept, c.operands)
  BY DEF Has, Take, CallOK, Fields
<1>5. Has(Release(c, x), c.free_reg_arr \cup {x}, c.kept, c.operands)
  <2>1. ~Compiling(Undefined(c))
    BY DEF Undefined, Stop, Compiling, CallOK, Fields
  <2>. QED  BY <2>1 DEF Has, Release, CallOK, Fields
<1>6. Has(Scratch(c, x), c.free_reg_arr, c.kept, c.operands)
  <2>1. ~Compiling(Undefined(c))
    BY DEF Undefined, Stop, Compiling, CallOK, Fields
  <2>. QED  BY <2>1 DEF Has, Scratch, Write, CallOK, Fields
<1>7. Has(ScratchTaken(c, x), c.free_reg_arr \ {first_free_reg(c)}, c.kept, c.operands)
  <2>. DEFINE d == Scratch(c, x)
  <2>1. DOMAIN d = Fields
    BY DEF Scratch, Write, Undefined, Stop, CallOK, Fields
  <2>. HIDE DEF d
  <2>2. LET e == Take(d, first_free_reg(c))
        IN  /\ e.status = d.status /\ e.kept = d.kept /\ e.operands = d.operands
            /\ e.free_reg_arr = d.free_reg_arr \ {first_free_reg(c)}
    BY <2>1 DEF Take, Fields
  <2>. QED  BY <1>6, <2>2 DEF Has, ScratchTaken, Compiling, d
<1>. QED  BY <1>1, <1>2, <1>3, <1>4, <1>5, <1>6, <1>7

\* Nothing is taken for good, and the operands stay.
Works(c, d, V) ==
  /\ Leads(c, d, V)
  /\ Compiling(d) =>
       /\ c.free_reg_arr \subseteq d.free_reg_arr
       /\ d.kept = c.kept
       /\ d.operands = c.operands

\* The same, and there is an operand more.
Yields1(c, d, V) ==
  /\ Leads(c, d, V)
  /\ Compiling(d) =>
       /\ c.free_reg_arr \subseteq d.free_reg_arr
       /\ d.kept = c.kept
       /\ \E o : d.operands = Append(c.operands, o)

LEMMA CompiledBefore ==
  ASSUME NEW c, NEW d, NEW V, Leads(c, d, V), Compiling(d)
  PROVE  Compiling(c)
BY DEF Leads, Compiling

LEMMA FailWorks ==
  ASSUME NEW c, NEW V, Ready(c, V)
  PROVE  /\ Works(c, Fail(c), V) /\ Yields1(c, Fail(c), V)
         /\ Leads(c, Undefined(c), V) /\ ~Compiling(Undefined(c))
         /\ ~Compiling(Fail(c))
BY StopKeeps DEF Ready, Works, Yields1, Fail, Undefined

LEMMA WorksOn ==
  ASSUME NEW c, NEW d, NEW V, Works(c, d, V)
  PROVE  /\ Ready(d, V)
         /\ \A e : Works(d, e, V) => Works(c, e, V)
         /\ \A e : Yields1(d, e, V) => Yields1(c, e, V)
<1>1. Ready(d, V) /\ \A e : Leads(d, e, V) => Leads(c, e, V)
  BY LeadsOn DEF Works
<1>2. \A e : Leads(d, e, V) /\ Compiling(e) => Compiling(d)
  BY CompiledBefore
<1>. QED  BY <1>1, <1>2 DEF Works, Yields1

LEMMA LookupWorks ==
  ASSUME NEW c, NEW V, Ready(c, V), NEW text
  PROVE  Works(c, Lookup(c, text), V)
BY LookupKeeps, Effects DEF Works, Has, Ready

LEMMA ScratchWorks ==
  ASSUME NEW c, NEW V, Ready(c, V), NEW value
  PROVE  Works(c, Scratch(c, value), V)
BY ScratchKeeps, Effects DEF Works, Has, Ready

LEMMA PushYields ==
  ASSUME NEW c, NEW V, Ready(c, V), NEW o
  PROVE  Yields1(c, PushOperand(c, o), V)
<1>1. Has(PushOperand(c, o), c.free_reg_arr, c.kept, Append(c.operands, o))
  BY Effects DEF Ready
<1>2. Leads(c, PushOperand(c, o), V)
  BY PushKeeps
<1>. QED  BY <1>1, <1>2 DEF Yields1, Has

\* Two registers are used, the first is free again.
LEMMA TwoScratchesWork ==
  ASSUME NEW c, NEW V, Ready(c, V)
  PROVE  Works(c, Release(Scratch(ScratchTaken(c, JUNK), JUNK), first_free_reg(c)), V)
<1>. DEFINE r == first_free_reg(c)
            c1 == ScratchTaken(c, JUNK)
            c2 == Scratch(c1, JUNK)
            d == Release(c2, r)
<1>1. Leads(c, c1, V)
  BY ScratchKeeps
<1>2. Ready(c1, V)
  BY <1>1, LeadsOn
<1>3. Has(c1, c.free_reg_arr \ {r}, c.kept, c.operands)
  BY Effects DEF Ready
<1>. HIDE DEF c1, r
<1>4. Leads(c1, c2, V) /\ Has(c2, c1.free_reg_arr, c1.kept, c1.operands)
  BY <1>2, ScratchKeeps, Effects DEF Ready
<1>5. Ready(c2, V) /\ Leads(c, c2, V)
  BY <1>1, <1>4, LeadsOn
<1>. HIDE DEF c2
<1>6. Leads(c2, d, V) /\ Has(d, c2.free_reg_arr \cup {r}, c2.kept, c2.operands)
  BY <1>5, ReleaseKeeps, Effects DEF Ready
<1>7. Leads(c, d, V)
  BY <1>5, <1>6, LeadsOn
<1>. HIDE DEF d
<1>8. Compiling(d) => Compiling(c2) /\ Compiling(c1)
  BY <1>4, <1>6, CompiledBefore
<1>9. Works(c, d, V)
  BY <1>3, <1>4, <1>6, <1>7, <1>8 DEF Works, Has
<1>. QED  BY <1>9 DEF d, c2, c1, r

LEMMA StringWorks ==
  ASSUME NEW c, NEW V, Ready(c, V), NEW literal
  PROVE  Works(c, store_string_literal_in_memory(c, literal), V)
BY FailWorks, TwoScratchesWork DEF store_string_literal_in_memory

LEMMA EvalVariableYields ==
  ASSUME NEW c, NEW V, Ready(c, V), NEW token
  PROVE  Yields1(c, EvalVariable(c, token), V)
<1>. DEFINE d == Lookup(c, <<token>>)
<1>1. Works(c, d, V)
  BY LookupWorks
<1>. HIDE DEF d
<1>2. Yields1(d, PushOperand(d, Reg(Address(c, token))), V)
  BY <1>1, WorksOn, PushYields
<1>. QED  BY <1>1, <1>2, WorksOn, FailWorks DEF EvalVariable, d

LEMMA FindStringWorks ==
  ASSUME NEW c, NEW V, Ready(c, V), NEW s
  PROVE  Works(c, FindString(c, s), V)
BY StringWorks, FailWorks, LookupWorks DEF FindString

\* Steps that touch neither registers nor operands.
LEMMA AlikeWorks ==
  ASSUME NEW c, NEW d, NEW V, Ready(c, V), Alike(c, d), d.operands = c.operands
  PROVE  Works(c, d, V)
BY AlikeKeeps DEF Works, Alike

LEMMA EmitWorks ==
  ASSUME NEW c, NEW V, Ready(c, V), NEW lines
  PROVE  Works(c, Emit(c, lines), V)
<1>1. Alike(c, Emit(c, lines)) /\ Emit(c, lines).operands = c.operands
  BY DEF Alike, Emit, Ready, CallOK, Fields
<1>. QED  BY <1>1, AlikeWorks

\* The register of the length is taken, then that of the counter is used.
LEMMA CountFoundYields ==
  ASSUME NEW c, NEW V, Ready(c, V)
  PROVE  Yields1(c, CountFound(c), V)
<1>. DEFINE r == first_free_reg(c)
            k == 2 * c.num_len
            c1 == ScratchTaken(c, JUNK)
            c2 == Scratch(c1, JUNK)
            c3 == [c2 EXCEPT !.num_len = @ + 1]
            c4 == Release(c3, r)
            code == <<Branch("LEN", k), Bare("LEN", k + 1), Label("LEN", k), Branch("LEN", k + 1)>>
            c5 == Emit(c4, code)
            d == PushOperand(c5, Reg(r))
<1>1. d = CountFound(c)
  BY DEF CountFound, CountLength
<1>. HIDE DEF r, k, code
<1>2. Leads(c, c1, V) /\ Has(c1, c.free_reg_arr \ {r}, c.kept, c.operands)
  BY ScratchKeeps, Effects DEF Ready, r
<1>. HIDE DEF c1
<1>3. Ready(c1, V)
  BY <1>2, LeadsOn
<1>4. Leads(c1, c2, V) /\ Has(c2, c1.free_reg_arr, c1.kept, c1.operands)
  BY <1>3, ScratchKeeps, Effects DEF Ready
<1>. HIDE DEF c2
<1>5. Ready(c2, V) /\ Leads(c, c2, V)
  BY <1>2, <1>4, LeadsOn
<1>6. Works(c2, c3, V)
  <2>1. Alike(c2, c3) /\ c3.operands = c2.operands
    BY <1>5 DEF Alike, Ready, CallOK, Fields
  <2>. QED  BY <1>5, <2>1, AlikeWorks
<1>. HIDE DEF c3
<1>7. Ready(c3, V)
  BY <1>6, WorksOn
<1>8. Leads(c3, c4, V) /\ Has(c4, c3.free_reg_arr \cup {r}, c3.kept, c3.operands)
  BY <1>7, ReleaseKeeps, Effects DEF Ready
<1>. HIDE DEF c4
<1>9. Leads(c, c4, V) /\ Ready(c4, V)
  BY <1>5, <1>6, <1>8, LeadsOn DEF Works
<1>10. Compiling(c4) => Compiling(c3) /\ Compiling(c2) /\ Compiling(c1)
  BY <1>4, <1>6, <1>8, CompiledBefore DEF Works
<1>11. Works(c, c4, V)
  BY <1>2, <1>4, <1>6, <1>8, <1>9, <1>10 DEF Works, Has
<1>12. Works(c4, c5, V)
  BY <1>9, EmitWorks
<1>. HIDE DEF c5
<1>13. Yields1(c5, d, V)
  BY <1>12, WorksOn, PushYields
<1>14. Yields1(c4, d, V)
  BY <1>12, <1>13, WorksOn
<1>. HIDE DEF d
<1>. QED  BY <1>1, <1>11, <1>14, WorksOn

LEMMA EvalLenYields ==
  ASSUME NEW c, NEW V, Ready(c, V), NEW token
  PROVE  Yields1(c, EvalLen(c, token), V)
<1>. DEFINE c1 == Lookup(c, <<token>>)
            c2 == FindString(c1, ArgumentOf[token])
            d == CountFound(c2)
<1>1. Works(c, c1, V)
  BY LookupWorks
<1>. HIDE DEF c1
<1>2. Works(c1, c2, V)
  BY <1>1, WorksOn, FindStringWorks
<1>. HIDE DEF c2
<1>3. Yields1(c2, d, V)
  BY <1>2, WorksOn, CountFoundYields
<1>. HIDE DEF d
<1>4. Yields1(c1, d, V)
  BY <1>2, <1>3, WorksOn
<1>5. Yields1(c, d, V)
  BY <1>1, <1>4, WorksOn
<1>. QED  BY <1>5 DEF EvalLen, d, c2, c1

LEMMA EvalRndYields ==
  ASSUME NEW c, NEW V, Ready(c, V)
  PROVE  Yields1(c, EvalRnd(c), V)
<1>. DEFINE k == 2 * c.num_rnd_branches
            r == first_free_reg(c)
            c1 == Lookup(c, <<RND>>)
            c2 == Scratch(c1, JUNK)
            c3 == [c2 EXCEPT !.num_rnd_branches = @ + 1]
            code == <<Branch("RND:", k), Label("RND", k + 1),
                      Label("RND", k), Branch("RND", k + 1)>>
            c4 == Emit(c3, code)
            d == PushOperand(c4, Reg(r))
<1>1. d = EvalRnd(c)
  BY DEF EvalRnd
<1>. HIDE DEF k, r, code
<1>2. Works(c, c1, V)
  BY LookupWorks
<1>. HIDE DEF c1
<1>3. Works(c1, c2, V)
  BY <1>2, WorksOn, ScratchWorks
<1>. HIDE DEF c2
<1>4. Ready(c2, V)
  BY <1>3, WorksOn
<1>5. Works(c2, c3, V)
  <2>1. Alike(c2, c3) /\ c3.operands = c2.operands
    BY <1>4 DEF Alike, Ready, CallOK, Fields
  <2>. QED  BY <1>4, <2>1, AlikeWorks
<1>. HIDE DEF c3
<1>6. Works(c3, c4, V)
  BY <1>5, WorksOn, EmitWorks
<1>. HIDE DEF c4
<1>7. Yields1(c4, d, V)
  BY <1>6, WorksOn, PushYields
<1>. HIDE DEF d
<1>8. Yields1(c3, d, V)
  BY <1>6, <1>7, WorksOn
<1>9. Yields1(c2, d, V)
  BY <1>5, <1>8, WorksOn
<1>10. Yields1(c1, d, V)
  BY <1>3, <1>9, WorksOn
<1>. QED  BY <1>1, <1>2, <1>10, WorksOn

LEMMA EvalLeafYields ==
  ASSUME NEW c, NEW V, Ready(c, V), NEW token, NEW ends_line
  PROVE  Yields1(c, EvalLeaf(c, token, ends_line), V)
BY FailWorks, PushYields, EvalLenYields, EvalRndYields, EvalVariableYields DEF EvalLeaf

(***************************************************************************)
(* Operators and closing brackets                                          *)
(***************************************************************************)
LEMMA ShorterSequence ==
  ASSUME NEW s, IsSequence(s), NEW m \in Int, m <= Len(s)
  PROVE  /\ IsSequence(SubSeq(s, 1, m))
         /\ m \in Nat => /\ Len(SubSeq(s, 1, m)) = m
                         /\ \A i \in 1 .. m : SubSeq(s, 1, m)[i] = s[i]
<1>1. PICK S : s \in Seq(S)
  BY DEF IsSequence
<1>2. CASE m \in Nat
  <2>1. Len(s) \in Nat /\ \A i \in 1 .. m : s[i] \in S
    BY <1>1, <1>2
  <2>2. /\ SubSeq(s, 1, m) \in Seq(S) /\ Len(SubSeq(s, 1, m)) = m
        /\ \A i \in 1 .. m : SubSeq(s, 1, m)[i] = s[i]
    BY <1>1, <1>2, <2>1
  <2>. QED  BY <2>2 DEF IsSequence
<1>3. CASE m \notin Nat
  <2>1. SubSeq(s, 1, m) = <<>> /\ <<>> \in Seq(S)
    BY <1>1, <1>3, SubSeqEmpty
  <2>. QED  BY <1>3, <2>1 DEF IsSequence
<1>. QED  BY <1>2, <1>3

LEMMA KeepLeftLeads ==
  ASSUME NEW c, NEW V, Ready(c, V), NEW o
  PROVE  Leads(c, PushOperand(KeepLeft(c), o), V)
<1>. DEFINE c1 == KeepLeft(c)
            d == PushOperand(c1, o)
<1>1. CASE LastOperand(c).is_reg
  <2>1. Leads(c, c1, V)
    BY <1>1, TakeKeeps DEF KeepLeft
  <2>. HIDE DEF c1
  <2>2. Leads(c1, d, V)
    BY <2>1, LeadsOn, PushKeeps
  <2>. HIDE DEF d
  <2>3. Leads(c, d, V)
    BY <2>1, <2>2, LeadsOn
  <2>. QED  BY <2>3 DEF d, c1
<1>2. CASE ~LastOperand(c).is_reg
  BY <1>2, PushKeeps DEF KeepLeft
<1>. QED  BY <1>1, <1>2

\* What a closing bracket does to the registers: the result's is free again,
\* like the left operand's.
Merged(c, value, left, result) == Release(Release(ScratchTaken(c, value), left), result)

LEMMA MergedLeads ==
  ASSUME NEW c, NEW V, Ready(c, V), NEW value, NEW left
  PROVE  LET d == Merged(c, value, left, first_free_reg(c))
         IN  /\ Leads(c, d, V)
             /\ d.operands = c.operands
             /\ Compiling(d) => /\ d.kept = c.kept
                                /\ c.free_reg_arr \cup {left} \subseteq d.free_reg_arr
<1>. DEFINE r == first_free_reg(c)
            c1 == ScratchTaken(c, value)
            c2 == Release(c1, left)
            d == Release(c2, r)
<1>1. ASSUME NEW e, CallOK(e), NEW x
      PROVE  Release(e, x).operands = e.operands
  BY <1>1 DEF Release, Undefined, Stop, CallOK, Fields
<1>2. c1.operands = c.operands
  BY DEF ScratchTaken, Take, Scratch, Write, Undefined, Stop, Ready, CallOK, Fields
<1>. HIDE DEF r
<1>3. Leads(c, c1, V) /\ Has(c1, c.free_reg_arr \ {r}, c.kept, c.operands)
  BY ScratchKeeps, Effects DEF Ready, r
<1>. HIDE DEF c1
<1>4. Ready(c1, V)
  BY <1>3, LeadsOn
<1>5. Leads(c1, c2, V) /\ Has(c2, c1.free_reg_arr \cup {left}, c1.kept, c1.operands)
  BY <1>4, ReleaseKeeps, Effects DEF Ready
<1>6. c2.operands = c1.operands
  BY <1>1, <1>4 DEF Ready
<1>. HIDE DEF c2
<1>7. Ready(c2, V) /\ Leads(c, c2, V)
  BY <1>3, <1>5, LeadsOn
<1>8. Leads(c2, d, V) /\ Has(d, c2.free_reg_arr \cup {r}, c2.kept, c2.operands)
  BY <1>7, ReleaseKeeps, Effects DEF Ready
<1>9. d.operands = c2.operands
  BY <1>1, <1>7 DEF Ready
<1>. HIDE DEF d
<1>10. Leads(c, d, V)
  BY <1>7, <1>8, LeadsOn
<1>11. Compiling(d) => Compiling(c2) /\ Compiling(c1)
  BY <1>5, <1>8, CompiledBefore
<1>12. Compiling(d) => d.kept = c.kept /\ c.free_reg_arr \cup {left} \subseteq d.free_reg_arr
  BY <1>3, <1>5, <1>8, <1>11 DEF Has
<1>. QED  BY <1>2, <1>6, <1>9, <1>10, <1>12 DEF Merged, d, c2, c1, r

LEMMA CombineLeads ==
  ASSUME NEW c, NEW V, Ready(c, V)
  PROVE  LET n == Len(c.operands)
             d == Combine(c)
         IN  /\ Leads(c, d, V)
             /\ Compiling(d) => /\ d.kept = c.kept
                                /\ c.free_reg_arr \cup {c.operands[n - 2].n} \subseteq d.free_reg_arr
                                /\ \E o : d.operands = Append(SubSeq(c.operands, 1, n - 3), o)
<1>. DEFINE n == Len(c.operands)
            left == c.operands[n - 2]
            r == first_free_reg(c)
            value == Compound(c, left, c.operands[n - 1].token, c.operands[n])
            e == Merged(c, value, left.n, r)
            d == [e EXCEPT !.operands = Append(SubSeq(@, 1, n - 3), Reg(r))]
<1>1. Combine(c) = d
  BY DEF Combine, FreeResult, FreeOperands, Merged
<1>. HIDE DEF value
<1>2. /\ Leads(c, e, V) /\ e.operands = c.operands
      /\ Compiling(e) => e.kept = c.kept /\ c.free_reg_arr \cup {left.n} \subseteq e.free_reg_arr
  BY MergedLeads
<1>. HIDE DEF e, left, r
<1>3. Ready(e, V)
  BY <1>2, LeadsOn
<1>4. IsSequence(c.operands)
  BY DEF Ready, CallOK
<1>5. n \in Nat
  BY <1>4, LongerSequence
<1>6. IsSequence(Append(SubSeq(c.operands, 1, n - 3), Reg(r)))
  <2>1. n - 3 \in Int /\ n - 3 <= n
    BY <1>5
  <2>2. IsSequence(SubSeq(c.operands, 1, n - 3))
    BY <1>4, <2>1, ShorterSequence
  <2>. QED  BY <2>2, LongerSequence
<1>7. /\ Alike(e, d) /\ d.operands = Append(SubSeq(c.operands, 1, n - 3), Reg(r))
  BY <1>2, <1>3, <1>6 DEF Alike, Ready, CallOK, Fields
<1>. HIDE DEF d
<1>8. Leads(c, d, V)
  BY <1>2, <1>3, <1>7, AlikeKeeps, LeadsOn
<1>9. Compiling(d) => /\ d.kept = c.kept
                      /\ c.free_reg_arr \cup {left.n} \subseteq d.free_reg_arr
                      /\ \E o : d.operands = Append(SubSeq(c.operands, 1, n - 3), o)
  BY <1>2, <1>7 DEF Alike, Compiling
<1>. QED  BY <1>1, <1>8, <1>9 DEF left

LEMMA TokenCases ==
  ASSUME NEW c, NEW b, NEW i, NEW ends_line, Compiling(c)
  PROVE  LET d == EvalToken(c, b, i, ends_line)
         IN  /\ b[i] = "(" => d = Lookup(c, PartAt(b, i))
             /\ b[i] = ")" => d = Combine(c)
             /\ b[i] \in OPERATORS => d = PushOperand(KeepLeft(c), Operator(b[i]))
             /\ b[i] \notin OPERATORS \cup {"(", ")"} =>
                  d = EvalLeaf(c, b[i], ends_line /\ Len(b) = 1)
BY DEF EvalToken, OPERATORS, precedence

LEMMA EvalTokenLeads ==
  ASSUME NEW c, NEW V, Ready(c, V), NEW b, NEW i, NEW ends_line
  PROVE  Leads(c, EvalToken(c, b, i, ends_line), V)
<1>. DEFINE d == EvalToken(c, b, i, ends_line)
<1>1. CASE ~Compiling(c)
  BY <1>1 DEF EvalToken, Leads, Ready
<1>2. CASE Compiling(c) /\ b[i] = "("
  BY <1>2, LookupKeeps, TokenCases
<1>3. CASE Compiling(c) /\ b[i] = ")"
  BY <1>3, CombineLeads, TokenCases
<1>4. CASE Compiling(c) /\ b[i] \in OPERATORS
  BY <1>4, KeepLeftLeads, TokenCases
<1>5. CASE Compiling(c) /\ b[i] \notin OPERATORS \cup {"(", ")"}
  BY <1>5, EvalLeafYields, TokenCases DEF Yields1
<1>. QED  BY <1>1, <1>2, <1>3, <1>4, <1>5

(***************************************************************************)
(* How high the stack of operands is.  In a bracketed expression operators *)
(* lie on the even places above the operands that were there before.       *)
(***************************************************************************)
Even(x) == x % 2 = 0

Climbs(token, x, y) ==
  /\ token = "(" => Even(x) /\ y = x
  /\ token = ")" => ~Even(x) /\ x >= 3 /\ y = x - 2
  /\ token \in OPERATORS => ~Even(x) /\ y = x + 1
  /\ token \notin OPERATORS \cup {"(", ")"} => Even(x) /\ y = x + 1

\* A sequence of tokens takes the stack from height x to height y.
Rises(b, x, y) ==
  /\ IsSequence(b)
  /\ \E h \in [0 .. Len(b) -> Nat] :
       /\ h[0] = x
       /\ h[Len(b)] = y
       /\ \A i \in 1 .. Len(b) : Climbs(b[i], h[i - 1], h[i])

WellBracketed(b) == Rises(b, 0, 1)

\* The registers that hold left operands: all but the last one's.
Pending(d, base, h) ==
  {d.operands[base + j].n : j \in {k \in 1 .. h - 1 : d.operands[base + k].is_reg}}

Piles(d, base, h, kept, X) ==
  /\ Len(d.operands) = base + h
  /\ d.kept = kept
  /\ \A j \in 1 .. h : Even(j) => ~d.operands[base + j].is_reg
  /\ Registers \ d.free_reg_arr \subseteq X \cup Pending(d, base, h)

LEMMA PendingPlace ==
  ASSUME NEW d, NEW base, NEW h
  PROVE  /\ \A k \in 1 .. h - 1 :
              d.operands[base + k].is_reg => d.operands[base + k].n \in Pending(d, base, h)
         /\ \A r \in Pending(d, base, h) :
              \E k \in 1 .. h - 1 : d.operands[base + k].is_reg /\ r = d.operands[base + k].n
BY DEF Pending

LEMMA PendingGrows ==
  ASSUME NEW c, NEW d, NEW base, NEW h \in Nat,
         \A j \in 1 .. h : d.operands[base + j] = c.operands[base + j]
  PROVE  Pending(c, base, h) \subseteq Pending(d, base, h + 1)
<1>1. ASSUME NEW r \in Pending(c, base, h) PROVE r \in Pending(d, base, h + 1)
  <2>1. PICK k \in 1 .. h - 1 : c.operands[base + k].is_reg /\ r = c.operands[base + k].n
    BY PendingPlace
  <2>2. k \in 1 .. h /\ k \in 1 .. (h + 1) - 1
    OBVIOUS
  <2>3. d.operands[base + k] = c.operands[base + k]
    BY <2>2
  <2>. QED  BY <2>1, <2>2, <2>3, PendingPlace
<1>. QED  BY <1>1

LEMMA PilesStay ==
  ASSUME NEW c, NEW d, NEW V, NEW base, NEW h, NEW kept, NEW X,
         Works(c, d, V), Compiling(d), Piles(c, base, h, kept, X)
  PROVE  Piles(d, base, h, kept, X)
BY DEF Works, Piles, Pending

LEMMA PilesLeaf ==
  ASSUME NEW c, NEW d, NEW V, NEW base \in Nat, NEW h \in Nat, NEW kept, NEW X,
         Ready(c, V), Yields1(c, d, V), Compiling(d), Piles(c, base, h, kept, X), Even(h)
  PROVE  Piles(d, base, h + 1, kept, X)
<1>1. PICK o : d.operands = Append(c.operands, o)
  BY DEF Yields1
<1>2. IsSequence(c.operands)
  BY DEF Ready, CallOK
<1>3. /\ Len(c.operands) = base + h
      /\ \A j \in 1 .. h : d.operands[base + j] = c.operands[base + j]
      /\ Len(d.operands) = base + (h + 1)
  BY <1>1, <1>2, LongerSequence DEF Piles
<1>4. ~Even(h + 1)
  BY DEF Even
<1>5. \A j \in 1 .. h + 1 : Even(j) => ~d.operands[base + j].is_reg
  <2>. SUFFICES ASSUME NEW j \in 1 .. h + 1, Even(j) PROVE ~d.operands[base + j].is_reg
    OBVIOUS
  <2>1. CASE j = h + 1
    BY <1>3, <1>4, <2>1
  <2>2. CASE j \in 1 .. h
    <3>1. d.operands[base + j] = c.operands[base + j]
      BY <1>3, <2>2
    <3>. QED  BY <2>2, <3>1 DEF Piles
  <2>. QED  BY <2>1, <2>2
<1>6. Pending(c, base, h) \subseteq Pending(d, base, h + 1)
  BY <1>3, PendingGrows
<1>. QED  BY <1>3, <1>5, <1>6 DEF Piles, Yields1

LEMMA PilesOperator ==
  ASSUME NEW c, NEW V, NEW base \in Nat, NEW h \in Nat, NEW kept, NEW X,
         Ready(c, V), Piles(c, base, h, kept, X), ~Even(h), NEW token,
         Compiling(PushOperand(KeepLeft(c), Operator(token)))
  PROVE  Piles(PushOperand(KeepLeft(c), Operator(token)), base, h + 1, kept, X)
<1>. DEFINE o == Operator(token)
            c1 == KeepLeft(c)
            d == PushOperand(c1, o)
<1>1. /\ d.operands = Append(c.operands, o) /\ d.kept = c.kept
      /\ d.free_reg_arr = IF LastOperand(c).is_reg
                            THEN c.free_reg_arr \ {LastOperand(c).n} ELSE c.free_reg_arr
  BY DEF PushOperand, KeepLeft, Take, Ready, CallOK, Fields
<1>2. IsSequence(c.operands)
  BY DEF Ready, CallOK
<1>. HIDE DEF d, o
<1>3. /\ Len(c.operands) = base + h
      /\ \A j \in 1 .. h : d.operands[base + j] = c.operands[base + j]
      /\ Len(d.operands) = base + (h + 1)
      /\ d.operands[base + (h + 1)] = o
  BY <1>1, <1>2, LongerSequence DEF Piles
<1>4. ~o.is_reg
  BY DEF Operator, o
<1>5. \A j \in 1 .. h + 1 : Even(j) => ~d.operands[base + j].is_reg
  <2>. SUFFICES ASSUME NEW j \in 1 .. h + 1, Even(j) PROVE ~d.operands[base + j].is_reg
    OBVIOUS
  <2>1. CASE j = h + 1
    BY <1>3, <1>4, <2>1
  <2>2. CASE j \in 1 .. h
    <3>1. d.operands[base + j] = c.operands[base + j]
      BY <1>3, <2>2
    <3>. QED  BY <2>2, <3>1 DEF Piles
  <2>. QED  BY <2>1, <2>2
<1>6. h >= 1 /\ LastOperand(c) = c.operands[base + h]
  <2>1. h # 0
    BY DEF Even
  <2>. QED  BY <1>3, <2>1 DEF LastOperand, Last
<1>7. Pending(c, base, h) \subseteq Pending(d, base, h + 1)
  BY <1>3, PendingGrows
<1>8. LastOperand(c).is_reg => LastOperand(c).n \in Pending(d, base, h + 1)
  <2>1. h \in 1 .. h /\ h \in 1 .. (h + 1) - 1
    BY <1>6
  <2>2. d.operands[base + h] = LastOperand(c)
    BY <1>3, <1>6, <2>1
  <2>. QED  BY <2>1, <2>2, PendingPlace
<1>9. Piles(d, base, h + 1, kept, X)
  BY <1>1, <1>3, <1>5, <1>7, <1>8 DEF Piles
<1>. QED  BY <1>9 DEF d, o

LEMMA PilesCombine ==
  ASSUME NEW c, NEW V, NEW base \in Nat, NEW h \in Nat, NEW kept, NEW X,
         Ready(c, V), Piles(c, base, h, kept, X), ~Even(h), h >= 3, Compiling(Combine(c))
  PROVE  Piles(Combine(c), base, h - 2, kept, X)
<1>. DEFINE n == Len(c.operands)
            d == Combine(c)
            s == SubSeq(c.operands, 1, n - 3)
<1>1. /\ d.kept = c.kept
      /\ c.free_reg_arr \cup {c.operands[n - 2].n} \subseteq d.free_reg_arr
      /\ \E o : d.operands = Append(SubSeq(c.operands, 1, n - 3), o)
  BY CombineLeads
<1>2. PICK o : d.operands = Append(s, o)
  BY <1>1
<1>3. IsSequence(c.operands) /\ n = base + h
  BY DEF Ready, CallOK, Piles
<1>4. n - 3 \in Nat /\ n - 3 <= n /\ n - 3 = base + (h - 3) /\ n - 2 = base + (h - 2)
  BY <1>3
<1>5. IsSequence(s) /\ Len(s) = n - 3 /\ \A i \in 1 .. n - 3 : s[i] = c.operands[i]
  BY <1>3, <1>4, ShorterSequence
<1>. HIDE DEF s, d
<1>6. /\ Len(d.operands) = base + (h - 2)
      /\ \A j \in 1 .. h - 3 : d.operands[base + j] = c.operands[base + j]
  <2>1. /\ Len(d.operands) = n - 3 + 1
        /\ \A i \in 1 .. n - 3 : d.operands[i] = c.operands[i]
    BY <1>2, <1>5, LongerSequence
  <2>2. \A j \in 1 .. h - 3 : base + j \in 1 .. n - 3
    BY <1>4
  <2>. QED  BY <1>4, <2>1, <2>2
<1>7. ~Even(h - 2) /\ Even(h - 1)
  BY DEF Even
<1>8. \A j \in 1 .. h - 2 : Even(j) => ~d.operands[base + j].is_reg
  <2>1. \A j \in 1 .. h - 2 : Even(j) => j \in 1 .. h - 3 /\ j \in 1 .. h
    BY <1>7
  <2>. QED  BY <1>6, <2>1 DEF Piles
<1>9. ~c.operands[base + (h - 1)].is_reg
  BY <1>7 DEF Piles
<1>10. Pending(c, base, h) \subseteq Pending(d, base, h - 2) \cup {c.operands[n - 2].n}
  <2>. SUFFICES ASSUME NEW k \in 1 .. h - 1, c.operands[base + k].is_reg
                PROVE  c.operands[base + k].n
                         \in Pending(d, base, h - 2) \cup {c.operands[n - 2].n}
    BY DEF Pending
  <2>1. k # h - 1
    BY <1>9
  <2>2. CASE k = h - 2
    BY <1>4, <2>2
  <2>3. CASE k \in 1 .. h - 3
    <3>1. k \in 1 .. (h - 2) - 1
      BY <2>3
    <3>2. d.operands[base + k] = c.operands[base + k]
      BY <1>6, <2>3
    <3>. QED  BY <3>1, <3>2, PendingPlace
  <2>. QED  BY <2>1, <2>2, <2>3
<1>11. Piles(d, base, h - 2, kept, X)
  BY <1>1, <1>6, <1>8, <1>10 DEF Piles
<1>. QED  BY <1>11 DEF d

\* Every token keeps the stack as high as the bracketing says.
LEMMA PilesToken ==
  ASSUME NEW c, NEW V, NEW base \in Nat, NEW h \in Nat, NEW g \in Nat, NEW kept, NEW X,
         Ready(c, V), NEW b, NEW i, NEW ends_line, Climbs(b[i], h, g),
         Compiling(EvalToken(c, b, i, ends_line)), Piles(c, base, h, kept, X)
  PROVE  Piles(EvalToken(c, b, i, ends_line), base, g, kept, X)
<1>. DEFINE d == EvalToken(c, b, i, ends_line)
<1>1. Compiling(c)
  BY EvalTokenLeads, CompiledBefore
<1>2. CASE b[i] = "("
  <2>1. d = Lookup(c, PartAt(b, i)) /\ g = h
    BY <1>1, <1>2, TokenCases DEF Climbs
  <2>2. Works(c, d, V)
    BY <2>1, LookupWorks
  <2>. QED  BY <2>1, <2>2, PilesStay
<1>3. CASE b[i] = ")"
  <2>1. d = Combine(c) /\ g = h - 2 /\ ~Even(h) /\ h >= 3
    BY <1>1, <1>3, TokenCases DEF Climbs
  <2>. QED  BY <2>1, PilesCombine
<1>4. CASE b[i] \in OPERATORS
  <2>1. d = PushOperand(KeepLeft(c), Operator(b[i])) /\ g = h + 1 /\ ~Even(h)
    BY <1>1, <1>4, TokenCases DEF Climbs
  <2>. QED  BY <2>1, PilesOperator
<1>5. CASE b[i] \notin OPERATORS \cup {"(", ")"}
  <2>1. d = EvalLeaf(c, b[i], ends_line /\ Len(b) = 1) /\ g = h + 1 /\ Even(h)
    BY <1>1, <1>5, TokenCases DEF Climbs
  <2>2. Yields1(c, d, V)
    BY <2>1, EvalLeafYields
  <2>. QED  BY <2>1, <2>2, PilesLeaf
<1>. QED  BY <1>2, <1>3, <1>4, <1>5

(***************************************************************************)
(* eval_arithmetic, token by token                                         *)
(***************************************************************************)
IsRun(f, n, c, b, ends_line) ==
  f = [i \in 0 .. n |-> IF i = 0 THEN c ELSE EvalToken(f[i - 1], b, i, ends_line)]

LEMMA RunsExist ==
  ASSUME NEW c, NEW b, NEW ends_line, NEW n \in Nat
  PROVE  \E f : IsRun(f, n, c, b, ends_line)
<1>. DEFINE T == {m \in 0 .. n : ~ \E f : IsRun(f, m, c, b, ends_line)}
<1>. SUFFICES ASSUME T # {} PROVE FALSE
  OBVIOUS
<1>1. T \in SUBSET Nat
  OBVIOUS
<1>2. PICK m \in T : \A y \in T : ~(y < m)
  <2>. HIDE DEF T
  <2>. QED  BY <1>1, LeastNatural
<1>3. m # 0
  <2>1. IsRun([i \in 0 .. 0 |-> c], 0, c, b, ends_line)
    BY DEF IsRun
  <2>. QED  BY <2>1
<1>4. m - 1 \in 0 .. n /\ m - 1 \notin T /\ m \in Nat
  BY <1>2, <1>3
<1>5. PICK f : IsRun(f, m - 1, c, b, ends_line)
  BY <1>4
<1>. DEFINE g == [i \in 0 .. m |-> IF i = m THEN EvalToken(f[m - 1], b, m, ends_line) ELSE f[i]]
<1>6. \A k \in 0 .. m : g[k] = IF k = 0 THEN c ELSE EvalToken(g[k - 1], b, k, ends_line)
  BY <1>3, <1>4, <1>5 DEF IsRun
<1>. HIDE DEF g
<1>7. g = [i \in 0 .. m |-> g[i]]
  BY DEF g
<1>8. IsRun(g, m, c, b, ends_line)
  BY <1>6, <1>7 DEF IsRun
<1>. QED  BY <1>2, <1>8

\* What is compiled after each token.
AreSteps(f, c, b, ends_line) ==
  /\ f[0] = c
  /\ \A i \in 1 .. Len(b) : f[i] = EvalToken(f[i - 1], b, i, ends_line)
  /\ eval_arithmetic(c, b, ends_line) = f[Len(b)]

LEMMA EvalSteps ==
  ASSUME NEW c, NEW b, Len(b) \in Nat, NEW ends_line
  PROVE  \E f : AreSteps(f, c, b, ends_line)
<1>. DEFINE IsAfter(f) ==
              f = [i \in 0 .. Len(b) |-> IF i = 0 THEN c ELSE EvalToken(f[i - 1], b, i, ends_line)]
            after == CHOOSE f : IsAfter(f)
<1>1. eval_arithmetic(c, b, ends_line) = after[Len(b)]
  BY DEF eval_arithmetic
<1>2. \E f : IsAfter(f)
  <2>1. \E f : IsRun(f, Len(b), c, b, ends_line)
    BY RunsExist
  <2>. QED  BY <2>1 DEF IsRun
<1>3. IsAfter(after)
  BY <1>2
<1>. HIDE DEF after
<1>4. /\ after[0] = c
      /\ \A i \in 1 .. Len(b) : after[i] = EvalToken(after[i - 1], b, i, ends_line)
  BY <1>3
<1>. QED  BY <1>1, <1>4 DEF AreSteps

LEMMA EvalArithmeticLeads ==
  ASSUME NEW c, NEW V, Ready(c, V), NEW b, Len(b) \in Nat, NEW ends_line
  PROVE  Leads(c, eval_arithmetic(c, b, ends_line), V)
<1>1. PICK f : AreSteps(f, c, b, ends_line)
  BY EvalSteps
<1>. DEFINE T == {i \in 0 .. Len(b) : ~Leads(c, f[i], V)}
<1>2. T = {}
  <2>. SUFFICES ASSUME T # {} PROVE FALSE
    OBVIOUS
  <2>1. T \in SUBSET Nat
    OBVIOUS
  <2>2. PICK m \in T : \A y \in T : ~(y < m)
    <3>. HIDE DEF T
    <3>. QED  BY <2>1, LeastNatural
  <2>3. m # 0
    BY <1>1 DEF AreSteps, Leads, Ready
  <2>4. m \in 1 .. Len(b) /\ m - 1 \in 0 .. Len(b) /\ Leads(c, f[m - 1], V)
    BY <2>2, <2>3
  <2>5. Leads(f[m - 1], f[m], V)
    BY <1>1, <2>4, LeadsOn, EvalTokenLeads DEF AreSteps
  <2>. QED  BY <2>4, <2>5, LeadsOn
<1>. QED  BY <1>1, <1>2 DEF AreSteps

\* At the end of an expression its value is the one operand more.
LEMMA EvalArithmeticPiles ==
  ASSUME NEW c, NEW V, Ready(c, V), NEW b, WellBracketed(b), NEW ends_line,
         NEW base \in Nat, NEW kept, NEW X, Piles(c, base, 0, kept, X),
         Compiling(eval_arithmetic(c, b, ends_line))
  PROVE  Piles(eval_arithmetic(c, b, ends_line), base, 1, kept, X)
<1>1. Len(b) \in Nat
  BY LongerSequence DEF WellBracketed, Rises
<1>2. PICK f : AreSteps(f, c, b, ends_line)
  BY <1>1, EvalSteps
<1>3. PICK h \in [0 .. Len(b) -> Nat] :
        /\ h[0] = 0
        /\ h[Len(b)] = 1
        /\ \A i \in 1 .. Len(b) : Climbs(b[i], h[i - 1], h[i])
  BY DEF WellBracketed, Rises
<1>. DEFINE Right(i) == Ready(f[i], V) /\ (Compiling(f[i]) => Piles(f[i], base, h[i], kept, X))
            T == {i \in 0 .. Len(b) : ~Right(i)}
<1>4. T = {}
  <2>. SUFFICES ASSUME T # {} PROVE FALSE
    OBVIOUS
  <2>1. T \in SUBSET Nat
    OBVIOUS
  <2>2. PICK m \in T : \A y \in T : ~(y < m)
    <3>. HIDE DEF T
    <3>. QED  BY <2>1, LeastNatural
  <2>3. m # 0
    BY <1>2, <1>3 DEF AreSteps
  <2>4. m \in 1 .. Len(b) /\ m - 1 \in 0 .. Len(b) /\ Right(m - 1)
    BY <2>2, <2>3
  <2>5. f[m] = EvalToken(f[m - 1], b, m, ends_line)
    BY <1>2, <2>4 DEF AreSteps
  <2>6. Leads(f[m - 1], f[m], V)
    BY <2>4, <2>5, EvalTokenLeads
  <2>7. Ready(f[m], V)
    BY <2>6, LeadsOn
  <2>8. ASSUME Compiling(f[m]) PROVE Piles(f[m], base, h[m], kept, X)
    <3>1. Compiling(f[m - 1])
      BY <2>6, <2>8, CompiledBefore
    <3>2. Climbs(b[m], h[m - 1], h[m]) /\ h[m - 1] \in Nat /\ h[m] \in Nat
      BY <1>3, <2>4
    <3>3. Piles(f[m - 1], base, h[m - 1], kept, X) /\ Ready(f[m - 1], V)
      BY <2>4, <3>1
    <3>. QED  BY <2>5, <2>8, <3>2, <3>3, PilesToken
  <2>. QED  BY <2>2, <2>7, <2>8
<1>5. Right(Len(b))
  BY <1>1, <1>4
<1>. QED  BY <1>2, <1>3, <1>5 DEF AreSteps

LEMMA Concatenation ==
  ASSUME NEW s, NEW t, IsSequence(s), IsSequence(t)
  PROVE  /\ IsSequence(s \o t)
         /\ Len(s) \in Nat /\ Len(t) \in Nat /\ Len(s \o t) = Len(s) + Len(t)
         /\ \A i \in 1 .. Len(s) : (s \o t)[i] = s[i]
         /\ \A i \in Len(s) + 1 .. Len(s) + Len(t) : (s \o t)[i] = t[i - Len(s)]
<1>1. PICK S : s \in Seq(S)
  BY DEF IsSequence
<1>2. PICK T : t \in Seq(T)
  BY DEF IsSequence
<1>3. s \in Seq(S \cup T) /\ t \in Seq(S \cup T)
  BY <1>1, <1>2, SeqMonotonic
<1>4. Len(s) \in Nat /\ Len(t) \in Nat
  BY <1>1, <1>2
<1>. QED  BY <1>3, <1>4, ConcatProperties DEF IsSequence

(***************************************************************************)
(* The value of an expression                                              *)
(***************************************************************************)
\* v has the register r, and no other.
HasRegister(c, v, r) ==
  r \in Registers /\ \A e \in Entries(c) : e.symbol = <<v>> => e.address = r

\* t stands in b behind place p, and f says what is compiled after each token.
Follows(f, b, p, t, ends_line) ==
  \A k \in 1 .. Len(t) :
    b[p + k] = t[k] /\ f[p + k] = EvalToken(f[p + k - 1], b, p + k, ends_line)

\* A variable comes once, a constant after + or -.
Proper(t) ==
  \A i \in 1 .. Len(t) :
    IsOperand(t[i]) =>
      IF t[i] \in DOMAIN NumberOf
        THEN ReadableConstant(t, i)
        ELSE IsVariable(t[i]) /\ \A j \in 1 .. Len(t) : t[j] = t[i] => j = i

\* The registers of its variables.
Own(t, reg) == {reg[t[i]] : i \in {i \in 1 .. Len(t) : IsVariable(t[i])}}

\* The variables hold their values, and only the first operand's register may
\* be free.
Holding(c, t, reg) ==
  \A i \in 1 .. Len(t) :
    IsVariable(t[i]) =>
      /\ HasRegister(c, t[i], reg[t[i]])
      /\ c.holds[reg[t[i]]] = <<t[i]>>
      /\ reg[t[i]] \in c.free_reg_arr => \A j \in 1 .. i - 1 : ~IsOperand(t[j])

\* What is busy in c and belongs to no variable of t is left alone.
Untouched(c, d, t, reg) ==
  \A r \in Registers \ (c.free_reg_arr \cup Own(t, reg)) :
    r \notin d.free_reg_arr /\ d.holds[r] = c.holds[r]

\* The operand o has the value t.
ResultOf(o, c, d, t, reg) ==
  /\ ValueOf(d, o) = t
  /\ Len(t) # 1 \/ t[1] \notin DOMAIN NumberOf => o.is_reg
  /\ o.is_reg => o.n \in c.free_reg_arr \cup Own(t, reg)

Computed(c, d, t, reg) ==
  /\ \E o : d.operands = Append(c.operands, o) /\ ResultOf(o, c, d, t, reg)
  /\ Untouched(c, d, t, reg)

\* Wherever t is compiled while its variables hold their values.
Computes(t) ==
  \A f, b, reg, V, ends_line : \A p \in Nat :
    /\ Follows(f, b, p, t, ends_line) /\ Ready(f[p], V) /\ Holding(f[p], t, reg)
    /\ Compiling(f[p + Len(t)])
    => Computed(f[p], f[p + Len(t)], t, reg)

LEMMA OwnPlace ==
  ASSUME NEW t, NEW reg
  PROVE  /\ \A i \in 1 .. Len(t) : IsVariable(t[i]) => reg[t[i]] \in Own(t, reg)
         /\ \A r \in Own(t, reg) : \E i \in 1 .. Len(t) : IsVariable(t[i]) /\ r = reg[t[i]]
BY DEF Own

LEMMA OperandKinds ==
  ASSUME NEW token
  PROVE  /\ IsVariable(token) => IsOperand(token) /\ token \notin DOMAIN NumberOf
         /\ IsOperand(token) <=> token \notin OPERATORS \cup {"(", ")"}
BY DEF IsVariable, IsOperand

\* s stands in t behind place q.
IsPart(s, q, t) ==
  /\ q \in Nat /\ Len(s) \in Nat /\ Len(t) \in Nat /\ q + Len(s) <= Len(t)
  /\ \A k \in 1 .. Len(s) : t[q + k] = s[k]

LEMMA PartFacts ==
  ASSUME NEW s, NEW q, NEW t, IsPart(s, q, t)
  PROVE  /\ Proper(t) => Proper(s)
         /\ \A reg : Own(s, reg) \subseteq Own(t, reg)
         /\ \A c, reg : Holding(c, t, reg) => Holding(c, s, reg)
         /\ \A f, b, ends_line : \A p \in Nat :
              Follows(f, b, p, t, ends_line) => Follows(f, b, p + q, s, ends_line)
<1>1. /\ q \in Nat /\ \A k \in 1 .. Len(s) : q + k \in 1 .. Len(t) /\ t[q + k] = s[k]
      /\ Len(s) \in Nat /\ Len(t) \in Nat
  BY DEF IsPart
<1>2. ASSUME Proper(t) PROVE Proper(s)
  <2>. SUFFICES ASSUME NEW i \in 1 .. Len(s), IsOperand(s[i])
                PROVE  IF s[i] \in DOMAIN NumberOf
                         THEN ReadableConstant(s, i)
                         ELSE /\ IsVariable(s[i])
                              /\ \A j \in 1 .. Len(s) : s[j] = s[i] => j = i
    BY DEF Proper
  <2>1. q + i \in 1 .. Len(t) /\ t[q + i] = s[i] /\ i \in Nat
    BY <1>1
  <2>2. IF s[i] \in DOMAIN NumberOf
          THEN ReadableConstant(t, q + i)
          ELSE IsVariable(s[i]) /\ \A j \in 1 .. Len(t) : t[j] = s[i] => j = q + i
    BY <1>2, <2>1 DEF Proper
  <2>3. CASE s[i] \in DOMAIN NumberOf
    <3>1. CASE i = 1
      BY <2>3, <3>1 DEF ReadableConstant
    <3>2. CASE i # 1
      <4>1. i - 1 \in 1 .. Len(s) /\ q + (i - 1) = (q + i) - 1 /\ q + i # 1
        BY <1>1, <3>2
      <4>2. t[(q + i) - 1] = s[i - 1]
        BY <1>1, <4>1
      <4>. QED  BY <2>2, <2>3, <4>1, <4>2 DEF ReadableConstant
    <3>. QED  BY <3>1, <3>2
  <2>4. CASE s[i] \notin DOMAIN NumberOf
    <3>1. ASSUME NEW j \in 1 .. Len(s), s[j] = s[i] PROVE j = i
      <4>1. q + j \in 1 .. Len(t) /\ t[q + j] = s[i]
        BY <1>1, <3>1
      <4>2. q + j = q + i
        BY <2>2, <2>4, <4>1
      <4>. QED  BY <1>1, <2>1, <4>2
    <3>. QED  BY <2>2, <2>4, <3>1
  <2>. QED  BY <2>3, <2>4
<1>3. ASSUME NEW reg PROVE Own(s, reg) \subseteq Own(t, reg)
  <2>. SUFFICES ASSUME NEW r \in Own(s, reg) PROVE r \in Own(t, reg)
    OBVIOUS
  <2>1. PICK i \in 1 .. Len(s) : IsVariable(s[i]) /\ r = reg[s[i]]
    BY OwnPlace
  <2>2. q + i \in 1 .. Len(t) /\ t[q + i] = s[i]
    BY <1>1
  <2>. QED  BY <2>1, <2>2, OwnPlace
<1>4. ASSUME NEW c, NEW reg, Holding(c, t, reg) PROVE Holding(c, s, reg)
  <2>. SUFFICES ASSUME NEW i \in 1 .. Len(s), IsVariable(s[i])
                PROVE  /\ HasRegister(c, s[i], reg[s[i]])
                       /\ c.holds[reg[s[i]]] = <<s[i]>>
                       /\ reg[s[i]] \in c.free_reg_arr =>
                            \A j \in 1 .. i - 1 : ~IsOperand(s[j])
    BY DEF Holding
  <2>1. q + i \in 1 .. Len(t) /\ t[q + i] = s[i]
    BY <1>1
  <2>2. /\ HasRegister(c, s[i], reg[s[i]])
        /\ c.holds[reg[s[i]]] = <<s[i]>>
        /\ reg[s[i]] \in c.free_reg_arr => \A j \in 1 .. (q + i) - 1 : ~IsOperand(t[j])
    BY <1>4, <2>1 DEF Holding
  <2>3. \A j \in 1 .. i - 1 : q + j \in 1 .. (q + i) - 1 /\ t[q + j] = s[j]
    BY <1>1
  <2>. QED  BY <2>2, <2>3
<1>5. ASSUME NEW f, NEW b, NEW ends_line, NEW p \in Nat, Follows(f, b, p, t, ends_line)
      PROVE  Follows(f, b, p + q, s, ends_line)
  <2>. SUFFICES ASSUME NEW k \in 1 .. Len(s)
                PROVE  /\ b[p + q + k] = s[k]
                       /\ f[p + q + k] = EvalToken(f[p + q + k - 1], b, p + q + k, ends_line)
    BY DEF Follows
  <2>1. q + k \in 1 .. Len(t) /\ t[q + k] = s[k]
    BY <1>1
  <2>2. p + (q + k) = p + q + k /\ p + (q + k) - 1 = p + q + k - 1
    BY <1>1
  <2>3. /\ b[p + (q + k)] = t[q + k]
        /\ f[p + (q + k)] = EvalToken(f[p + (q + k) - 1], b, p + (q + k), ends_line)
    BY <1>5, <2>1 DEF Follows
  <2>. QED  BY <2>1, <2>2, <2>3
<1>. QED  BY <1>2, <1>3, <1>4, <1>5

\* Between two states that leave its registers alone.
LEMMA HoldingOn ==
  ASSUME NEW c, NEW d, NEW t, NEW reg, Holding(c, t, reg), Entries(d) \subseteq Entries(c),
         \A i \in 1 .. Len(t) :
           IsVariable(t[i]) =>
             /\ reg[t[i]] \in d.free_reg_arr => reg[t[i]] \in c.free_reg_arr
             /\ d.holds[reg[t[i]]] = c.holds[reg[t[i]]]
  PROVE  Holding(d, t, reg)
BY DEF Holding, HasRegister

LEMMA FollowsLeads ==
  ASSUME NEW f, NEW b, NEW p \in Nat, NEW t, Len(t) \in Nat, NEW ends_line, NEW V,
         Follows(f, b, p, t, ends_line), Ready(f[p], V)
  PROVE  Leads(f[p], f[p + Len(t)], V)
<1>. DEFINE T == {i \in 0 .. Len(t) : ~Leads(f[p], f[p + i], V)}
<1>1. T = {}
  <2>. SUFFICES ASSUME T # {} PROVE FALSE
    OBVIOUS
  <2>1. T \in SUBSET Nat
    OBVIOUS
  <2>2. PICK m \in T : \A y \in T : ~(y < m)
    <3>. HIDE DEF T
    <3>. QED  BY <2>1, LeastNatural
  <2>3. m # 0
    <3>1. p + 0 = p
      OBVIOUS
    <3>. QED  BY <3>1 DEF Leads, Ready
  <2>4. m \in 1 .. Len(t) /\ m - 1 \in 0 .. Len(t) /\ Leads(f[p], f[p + (m - 1)], V)
    BY <2>2, <2>3
  <2>5. f[p + m] = EvalToken(f[p + (m - 1)], b, p + m, ends_line)
    <3>1. p + m - 1 = p + (m - 1)
      BY <2>4
    <3>. QED  BY <2>4, <3>1 DEF Follows
  <2>6. Leads(f[p + (m - 1)], f[p + m], V)
    BY <2>4, <2>5, LeadsOn, EvalTokenLeads
  <2>. QED  BY <2>2, <2>4, <2>6, LeadsOn
<1>. QED  BY <1>1

\* What a leaf leaves on the stack.
LEMMA LeafComputes ==
  ASSUME NEW token, IsOperand(token), Proper(<<token>>)
  PROVE  Computes(<<token>>)
<1>. DEFINE t == <<token>>
<1>1. Len(t) = 1 /\ t[1] = token
  OBVIOUS
<1>2. token \notin DOMAIN NumberOf => IsVariable(token)
  BY <1>1 DEF Proper
<1>. HIDE DEF t
<1>. SUFFICES ASSUME NEW f, NEW b, NEW reg, NEW V, NEW ends_line, NEW p \in Nat,
                     Follows(f, b, p, t, ends_line), Ready(f[p], V), Holding(f[p], t, reg),
                     Compiling(f[p + 1])
              PROVE  Computed(f[p], f[p + 1], t, reg)
  BY <1>1 DEF Computes, t
<1>. DEFINE c == f[p]
            d == f[p + 1]
            x == ends_line /\ Len(b) = 1
<1>3. b[p + 1] = token /\ d = EvalToken(c, b, p + 1, ends_line)
  <2>1. 1 \in 1 .. Len(t) /\ p + 1 - 1 = p
    BY <1>1
  <2>. QED  BY <1>1, <2>1 DEF Follows
<1>. HIDE DEF c, d
<1>4. Ready(c, V) /\ Holding(c, t, reg)
  BY DEF c
<1>5. Compiling(d)
  BY DEF d
<1>6. Leads(c, d, V)
  BY <1>3, <1>4, EvalTokenLeads
<1>7. Computed(c, d, t, reg)
  <2>1. Compiling(c)
    BY <1>6, <1>5, CompiledBefore
  <2>2. d = EvalLeaf(c, token, x)
    BY <1>3, <2>1, TokenCases, OperandKinds
  <2>. HIDE DEF x
  <2>3. CASE token \in DOMAIN NumberOf
    <3>. DEFINE o == Constant(token)
    <3>1. d = PushOperand(c, o)
      BY <1>4, <1>5, <2>2, <2>3, FailWorks DEF EvalLeaf
    <3>2. o.is_reg = FALSE /\ o.token = token
      BY DEF Constant
    <3>. HIDE DEF o
    <3>3. /\ d.operands = Append(c.operands, o) /\ d.free_reg_arr = c.free_reg_arr
          /\ d.holds = c.holds
      BY <1>4, <3>1 DEF PushOperand, Ready, CallOK, Fields
    <3>4. ResultOf(o, c, d, t, reg)
      BY <1>1, <2>3, <3>2 DEF ResultOf, ValueOf, t
    <3>. QED  BY <3>3, <3>4 DEF Computed, Untouched
  <2>4. CASE token \notin DOMAIN NumberOf
    <3>. DEFINE a == Address(c, token)
                e == Lookup(c, <<token>>)
                o == Reg(a)
    <3>1. IsVariable(token) /\ IsTable(c.var_reg_table)
      BY <1>2, <1>4, <2>4 DEF Ready, CallOK
    <3>2. d = EvalVariable(c, token)
      BY <2>2, <2>4, <3>1 DEF EvalLeaf, IsVariable
    <3>3. a # ABSENT /\ d = PushOperand(e, o)
      BY <1>4, <1>5, <3>2, FailWorks DEF EvalVariable
    <3>4. PICK y \in Entries(c) : y.symbol = <<token>> /\ y.address = a
      BY <3>1, <3>3, AddressFacts
    <3>5. o.is_reg = TRUE /\ o.n = a
      BY DEF Reg
    <3>. HIDE DEF o, a
    <3>6. 1 \in 1 .. Len(t) /\ IsVariable(t[1])
      BY <1>1, <3>1
    <3>7. a = reg[token] /\ c.holds[a] = t
      BY <1>1, <1>4, <3>4, <3>6 DEF Holding, HasRegister, t
    <3>8. /\ d.operands = Append(c.operands, o) /\ d.free_reg_arr = c.free_reg_arr
          /\ d.holds = c.holds
      BY <1>4, <3>3 DEF PushOperand, Lookup, Ready, CallOK, Fields
    <3>9. a \in Own(t, reg)
      BY <1>1, <3>6, <3>7, OwnPlace
    <3>10. ResultOf(o, c, d, t, reg)
      BY <3>5, <3>7, <3>8, <3>9 DEF ResultOf, ValueOf
    <3>. QED  BY <3>8, <3>10 DEF Computed, Untouched
  <2>. QED  BY <2>3, <2>4
<1>. QED  BY <1>7 DEF c, d

\* An operation, bracketed.
Operation(left, o, right) == <<"(">> \o left \o <<o>> \o right \o <<")">>

LEMMA TopThree ==
  ASSUME NEW s, IsSequence(s), NEW x, NEW y, NEW z
  PROVE  LET t == Append(Append(Append(s, x), y), z)
         IN  /\ IsSequence(t) /\ Len(s) \in Nat /\ Len(t) = Len(s) + 3
             /\ t[Len(s) + 1] = x /\ t[Len(s) + 2] = y /\ t[Len(s) + 3] = z
             /\ SubSeq(t, 1, Len(s)) = s
<1>. DEFINE m == Len(s)
            t1 == Append(s, x)
            t2 == Append(t1, y)
            t3 == Append(t2, z)
            u == SubSeq(t3, 1, m)
<1>1. /\ IsSequence(t1) /\ m \in Nat /\ Len(t1) = m + 1 /\ t1[m + 1] = x
      /\ \A i \in 1 .. m : t1[i] = s[i]
  BY LongerSequence
<1>. HIDE DEF t1, m
<1>2. /\ IsSequence(t2) /\ Len(t2) = m + 2 /\ t2[m + 2] = y
      /\ \A i \in 1 .. m + 1 : t2[i] = t1[i]
  <2>1. /\ IsSequence(t2) /\ Len(t2) = Len(t1) + 1 /\ t2[Len(t1) + 1] = y
        /\ \A i \in 1 .. Len(t1) : t2[i] = t1[i]
    BY <1>1, LongerSequence
  <2>2. Len(t1) + 1 = m + 2
    BY <1>1
  <2>. QED  BY <1>1, <2>1, <2>2
<1>. HIDE DEF t2
<1>3. /\ IsSequence(t3) /\ Len(t3) = m + 3 /\ t3[m + 3] = z
      /\ \A i \in 1 .. m + 2 : t3[i] = t2[i]
  <2>1. /\ IsSequence(t3) /\ Len(t3) = Len(t2) + 1 /\ t3[Len(t2) + 1] = z
        /\ \A i \in 1 .. Len(t2) : t3[i] = t2[i]
    BY <1>2, LongerSequence
  <2>2. Len(t2) + 1 = m + 3
    BY <1>1, <1>2
  <2>. QED  BY <1>2, <2>1, <2>2
<1>. HIDE DEF t3
<1>4. t3[m + 1] = x /\ t3[m + 2] = y /\ \A i \in 1 .. m : t3[i] = s[i]
  BY <1>1, <1>2, <1>3
<1>5. IsSequence(u) /\ Len(u) = m /\ \A i \in 1 .. m : u[i] = t3[i]
  <2>1. m \in Int /\ m <= Len(t3) /\ m \in Nat
    BY <1>1, <1>3
  <2>. QED  BY <1>3, <2>1, ShorterSequence
<1>. HIDE DEF u
<1>6. u = s
  <2>1. PICK S : s \in Seq(S)
    BY DEF IsSequence
  <2>2. PICK T : u \in Seq(T)
    BY <1>5 DEF IsSequence
  <2>3. s \in Seq(S \cup T) /\ u \in Seq(S \cup T)
    BY <2>1, <2>2, SeqMonotonic
  <2>4. Len(u) = Len(s) /\ \A i \in 1 .. Len(s) : u[i] = s[i]
    BY <1>4, <1>5 DEF m
  <2>. QED  BY <2>3, <2>4, SeqEqual
<1>. QED  BY <1>1, <1>3, <1>4, <1>6 DEF m, u, t1, t2, t3

\* Two values that the assembler can read, with an operator between them.
OnTop(c, s, left, o, right) ==
  /\ IsSequence(s)
  /\ c.operands = Append(Append(Append(s, left), o), right)
  /\ left.is_reg
  /\ o.token = "*" => right.is_reg
  /\ ValueOf(c, left) # JUNK
  /\ ValueOf(c, right) # JUNK

\* They become one.
LEMMA CombineComputes ==
  ASSUME NEW c, NEW V, Ready(c, V), NEW s, NEW left, NEW o, NEW right,
         OnTop(c, s, left, o, right), Compiling(Combine(c))
  PROVE  \E r \in c.free_reg_arr :
           /\ r \in Registers
           /\ Combine(c).operands = Append(s, Reg(r))
           /\ Combine(c).free_reg_arr = c.free_reg_arr \cup {left.n}
           /\ Combine(c).holds[r] = Operation(ValueOf(c, left), o.token, ValueOf(c, right))
           /\ \A q \in Registers \ {r} : Combine(c).holds[q] = c.holds[q]
<1>. DEFINE n == Len(c.operands)
            r == first_free_reg(c)
            value == Compound(c, left, o.token, right)
            c1 == ScratchTaken(c, value)
            c2 == Release(c1, left.n)
            e == Release(c2, r)
            d == [e EXCEPT !.operands = Append(SubSeq(@, 1, n - 3), Reg(r))]
<1>1. /\ n = Len(s) + 3 /\ Len(s) \in Nat
      /\ c.operands[n - 2] = left /\ c.operands[n - 1] = o /\ c.operands[n] = right
      /\ SubSeq(c.operands, 1, n - 3) = s
  <2>1. /\ n = Len(s) + 3 /\ Len(s) \in Nat
        /\ c.operands[Len(s) + 1] = left /\ c.operands[Len(s) + 2] = o
        /\ c.operands[Len(s) + 3] = right /\ SubSeq(c.operands, 1, Len(s)) = s
    BY TopThree DEF OnTop
  <2>. HIDE DEF n
  <2>2. n - 2 = Len(s) + 1 /\ n - 1 = Len(s) + 2 /\ n - 3 = Len(s)
    BY <2>1
  <2>. QED  BY <2>1, <2>2
<1>2. Combine(c) = d
  BY <1>1, Zenon DEF Combine, FreeResult, FreeOperands
<1>3. value = Operation(ValueOf(c, left), o.token, ValueOf(c, right))
  BY DEF Compound, Operation, OnTop
<1>. HIDE DEF value, n
<1>4. ASSUME NEW x, CallOK(x), NEW q, Compiling(Release(x, q))
      PROVE  /\ Release(x, q).operands = x.operands
             /\ Release(x, q).free_reg_arr = x.free_reg_arr \cup {q}
             /\ Release(x, q).holds = x.holds
             /\ DOMAIN Release(x, q) = Fields
             /\ Compiling(x)
  <2>1. ~Compiling(Undefined(x))
    BY <1>4 DEF Undefined, Stop, Compiling, CallOK, Fields
  <2>. QED  BY <1>4, <2>1 DEF Release, CallOK, Fields, Compiling
<1>5. Leads(c, c1, V)
  BY ScratchKeeps
<1>6. CallOK(c1) /\ CallOK(c2) /\ CallOK(e)
  <2>1. Ready(c1, V)
    BY <1>5, LeadsOn
  <2>. HIDE DEF c1, r
  <2>2. Leads(c1, c2, V)
    BY <2>1, ReleaseKeeps
  <2>3. Ready(c2, V)
    BY <2>2, LeadsOn
  <2>. HIDE DEF c2
  <2>4. Leads(c2, e, V)
    BY <2>3, ReleaseKeeps
  <2>. QED  BY <2>1, <2>3, <2>4 DEF Ready, Leads
<1>. HIDE DEF r
<1>7. Compiling(e)
  <2>. HIDE DEF e
  <2>1. d.status = e.status
    BY <1>6 DEF CallOK, Fields
  <2>. QED  BY <1>2, <2>1 DEF Compiling
<1>8. /\ Compiling(c1)
      /\ e.operands = c1.operands /\ e.holds = c1.holds
      /\ e.free_reg_arr = (c1.free_reg_arr \cup {left.n}) \cup {r}
  <2>. HIDE DEF c1
  <2>1. /\ Compiling(c2) /\ e.operands = c2.operands /\ e.holds = c2.holds
        /\ e.free_reg_arr = c2.free_reg_arr \cup {r}
    <3>. HIDE DEF c2
    <3>. QED  BY <1>4, <1>6, <1>7
  <2>2. /\ Compiling(c1) /\ c2.operands = c1.operands /\ c2.holds = c1.holds
        /\ c2.free_reg_arr = c1.free_reg_arr \cup {left.n}
    BY <1>4, <1>6, <2>1
  <2>. QED  BY <2>1, <2>2
<1>9. r \in c.free_reg_arr /\ r \in Registers
  <2>1. ~Compiling(Take(Undefined(c), r))
    BY DEF Take, Undefined, Stop, Compiling, Ready, CallOK, Fields
  <2>2. c.free_reg_arr # {}
    BY <1>8, <2>1 DEF ScratchTaken, Scratch, r
  <2>. QED  BY <2>2, FirstFree DEF Ready, r
<1>10. /\ c1.operands = c.operands
       /\ c1.holds = [c.holds EXCEPT ![r] = value]
       /\ c1.free_reg_arr = c.free_reg_arr \ {r}
  <2>1. ~Compiling(Take(Undefined(c), r))
    BY DEF Take, Undefined, Stop, Compiling, Ready, CallOK, Fields
  <2>2. c1 = Take(Write(c, r, value), r)
    BY <1>8, <2>1 DEF ScratchTaken, Scratch, r
  <2>. HIDE DEF c1
  <2>. QED  BY <2>2 DEF Take, Write, Ready, CallOK, Fields
<1>11. /\ d.operands = Append(s, Reg(r)) /\ d.holds = e.holds
       /\ d.free_reg_arr = e.free_reg_arr
  <2>. HIDE DEF e
  <2>1. d.operands = Append(SubSeq(e.operands, 1, n - 3), Reg(r))
    BY <1>6 DEF CallOK, Fields
  <2>2. d.holds = e.holds /\ d.free_reg_arr = e.free_reg_arr
    BY <1>6 DEF CallOK, Fields
  <2>3. e.operands = c.operands
    BY <1>8, <1>10
  <2>. QED  BY <1>1, <2>1, <2>2, <2>3
<1>. HIDE DEF e, d
<1>12. d.free_reg_arr = c.free_reg_arr \cup {left.n}
  BY <1>8, <1>9, <1>10, <1>11
<1>13. d.holds = [c.holds EXCEPT ![r] = value]
  BY <1>8, <1>10, <1>11
<1>14. d.holds[r] = value /\ \A q \in Registers \ {r} : d.holds[q] = c.holds[q]
  BY <1>9, <1>13 DEF Ready, CallOK
<1>. QED  BY <1>2, <1>3, <1>9, <1>11, <1>12, <1>14

HasOperand(t) == \E i \in 1 .. Len(t) : IsOperand(t[i])

LEMMA OperationParts ==
  ASSUME NEW left, IsSequence(left), NEW right, IsSequence(right), NEW o
  PROVE  LET t == Operation(left, o, right)
             m == Len(left)
             n == Len(right)
         IN  /\ IsSequence(t) /\ m \in Nat /\ n \in Nat /\ Len(t) = m + n + 3
             /\ t[1] = "(" /\ t[m + 2] = o /\ t[m + n + 3] = ")"
             /\ IsPart(left, 1, t) /\ IsPart(right, m + 2, t)
<1>. DEFINE m == Len(left)
            n == Len(right)
            open == <<"(">>
            mid == <<o>>
            close == <<")">>
            t1 == open \o left
            t2 == t1 \o mid
            t3 == t2 \o right
            t == t3 \o close
<1>1. m \in Nat /\ n \in Nat
  BY LongerSequence
<1>2. /\ IsSequence(open) /\ Len(open) = 1 /\ open[1] = "("
      /\ IsSequence(mid) /\ Len(mid) = 1 /\ mid[1] = o
      /\ IsSequence(close) /\ Len(close) = 1 /\ close[1] = ")"
  <2>1. open \in Seq({"("}) /\ mid \in Seq({o}) /\ close \in Seq({")"})
    OBVIOUS
  <2>. QED  BY <2>1 DEF IsSequence
<1>. HIDE DEF open, mid, close
<1>3. /\ IsSequence(t1) /\ Len(t1) = m + 1 /\ t1[1] = "("
      /\ \A k \in 1 .. m : t1[k + 1] = left[k]
  <2>0. IsSequence(open) /\ IsSequence(left)
    BY <1>2
  <2>1. /\ IsSequence(t1) /\ Len(t1) = Len(open) + m
        /\ \A i \in 1 .. Len(open) : t1[i] = open[i]
        /\ \A i \in Len(open) + 1 .. Len(open) + m : t1[i] = left[i - Len(open)]
    BY <2>0, Concatenation
  <2>. HIDE DEF t1
  <2>2. \A k \in 1 .. m : k + 1 \in 1 + 1 .. 1 + m /\ (k + 1) - 1 = k
    BY <1>1
  <2>. QED  BY <1>1, <1>2, <2>1, <2>2
<1>. HIDE DEF t1
<1>4. /\ IsSequence(t2) /\ Len(t2) = m + 2 /\ t2[m + 2] = o
      /\ \A i \in 1 .. m + 1 : t2[i] = t1[i]
  <2>0. IsSequence(mid) /\ IsSequence(t1)
    BY <1>2, <1>3
  <2>1. /\ IsSequence(t2) /\ Len(t2) = Len(t1) + Len(mid)
        /\ \A i \in 1 .. Len(t1) : t2[i] = t1[i]
        /\ \A i \in Len(t1) + 1 .. Len(t1) + Len(mid) : t2[i] = mid[i - Len(t1)]
    BY <2>0, Concatenation
  <2>. HIDE DEF t2, m
  <2>2. (m + 2) - (m + 1) = 1 /\ m + 2 \in (m + 1) + 1 .. (m + 1) + 1 /\ (m + 1) + 1 = m + 2
    BY <1>1
  <2>. QED  BY <1>2, <1>3, <2>1, <2>2
<1>. HIDE DEF t2
<1>5. /\ IsSequence(t3) /\ Len(t3) = m + n + 2
      /\ \A i \in 1 .. m + 2 : t3[i] = t2[i]
      /\ \A k \in 1 .. n : t3[m + 2 + k] = right[k]
  <2>1. /\ IsSequence(t3) /\ Len(t3) = Len(t2) + n
        /\ \A i \in 1 .. Len(t2) : t3[i] = t2[i]
        /\ \A i \in Len(t2) + 1 .. Len(t2) + n : t3[i] = right[i - Len(t2)]
    BY <1>4, Concatenation
  <2>. HIDE DEF t3, m, n
  <2>2. \A k \in 1 .. n : m + 2 + k \in (m + 2) + 1 .. (m + 2) + n /\ (m + 2 + k) - (m + 2) = k
    BY <1>1
  <2>. QED  BY <1>1, <1>4, <2>1, <2>2
<1>. HIDE DEF t3
<1>6. /\ IsSequence(t) /\ Len(t) = m + n + 3 /\ t[m + n + 3] = ")"
      /\ \A i \in 1 .. m + n + 2 : t[i] = t3[i]
  <2>0. IsSequence(close) /\ IsSequence(t3)
    BY <1>2, <1>5
  <2>1. /\ IsSequence(t) /\ Len(t) = Len(t3) + Len(close)
        /\ \A i \in 1 .. Len(t3) : t[i] = t3[i]
        /\ \A i \in Len(t3) + 1 .. Len(t3) + Len(close) : t[i] = close[i - Len(t3)]
    BY <2>0, Concatenation
  <2>. HIDE DEF t, m, n
  <2>2. /\ (m + n + 3) - (m + n + 2) = 1
        /\ m + n + 3 \in (m + n + 2) + 1 .. (m + n + 2) + 1 /\ (m + n + 2) + 1 = m + n + 3
    BY <1>1
  <2>. QED  BY <1>2, <1>5, <2>1, <2>2
<1>7. t = Operation(left, o, right)
  BY DEF Operation, t, t3, t2, t1, open, mid, close
<1>. HIDE DEF t, m, n
<1>8. t[1] = "(" /\ t[m + 2] = o
  <2>1. /\ 1 \in 1 .. m + 1 /\ 1 \in 1 .. m + 2 /\ 1 \in 1 .. m + n + 2
        /\ m + 2 \in 1 .. m + 2 /\ m + 2 \in 1 .. m + n + 2
    BY <1>1
  <2>. QED  BY <1>3, <1>4, <1>5, <1>6, <2>1
<1>9. \A k \in 1 .. m : t[1 + k] = left[k]
  <2>1. \A k \in 1 .. m : /\ k + 1 \in 1 .. m + 1 /\ k + 1 \in 1 .. m + 2
                          /\ k + 1 \in 1 .. m + n + 2 /\ 1 + k = k + 1
    BY <1>1
  <2>. QED  BY <1>3, <1>4, <1>5, <1>6, <2>1
<1>10. \A k \in 1 .. n : t[m + 2 + k] = right[k]
  <2>1. \A k \in 1 .. n : m + 2 + k \in 1 .. m + n + 2
    BY <1>1
  <2>. QED  BY <1>5, <1>6, <2>1
<1>11. IsPart(left, 1, t) /\ IsPart(right, m + 2, t)
  <2>1. 1 + m <= m + n + 3 /\ (m + 2) + n <= m + n + 3 /\ m + 2 \in Nat /\ m + n + 3 \in Nat
    BY <1>1
  <2>. QED  BY <1>1, <1>6, <1>9, <1>10, <2>1 DEF IsPart, m, n
<1>. QED  BY <1>1, <1>6, <1>7, <1>8, <1>11 DEF m, n

LEMMA OperationComputes ==
  ASSUME NEW left, IsSequence(left), HasOperand(left), Proper(left) => Computes(left),
         NEW right, IsSequence(right), HasOperand(right), Proper(right) => Computes(right),
         NEW o \in OPERATORS, Proper(Operation(left, o, right))
  PROVE  Computes(Operation(left, o, right))
<1>. DEFINE t == Operation(left, o, right)
            m == Len(left)
            n == Len(right)
<1>1. /\ m \in Nat /\ n \in Nat /\ Len(t) = m + n + 3
      /\ t[1] = "(" /\ t[m + 2] = o /\ t[m + n + 3] = ")"
      /\ IsPart(left, 1, t) /\ IsPart(right, m + 2, t)
  BY OperationParts
<1>2. /\ \A k \in 1 .. m : t[1 + k] = left[k]
      /\ \A k \in 1 .. n : t[m + 2 + k] = right[k]
  BY <1>1 DEF IsPart
<1>3. Proper(t) /\ t = Operation(left, o, right)
  OBVIOUS
<1>. HIDE DEF t
<1>4. Computes(left) /\ Computes(right)
  BY <1>1, <1>3, PartFacts
<1>5. \A reg : Own(left, reg) \subseteq Own(t, reg) /\ Own(right, reg) \subseteq Own(t, reg)
  BY <1>1, PartFacts
<1>. HIDE DEF m, n
\* A constant is a right operand of + or -.
<1>6. m # 1 \/ left[1] \notin DOMAIN NumberOf
  <2>. SUFFICES ASSUME m = 1, left[1] \in DOMAIN NumberOf PROVE FALSE
    OBVIOUS
  <2>1. 1 \in 1 .. m /\ t[1 + 1] = left[1] /\ 1 + 1 \in 1 .. Len(t)
    BY <1>1, <1>2
  <2>2. IsOperand(left[1])
    <3>1. PICK i \in 1 .. m : IsOperand(left[i])
      BY DEF HasOperand, m
    <3>. QED  BY <3>1
  <2>3. ReadableConstant(t, 1 + 1)
    BY <1>3, <2>1, <2>2 DEF Proper
  <2>. QED  BY <1>1, <2>3 DEF ReadableConstant
<1>7. o = "*" => n # 1 \/ right[1] \notin DOMAIN NumberOf
  <2>. SUFFICES ASSUME o = "*", n = 1, right[1] \in DOMAIN NumberOf PROVE FALSE
    OBVIOUS
  <2>1. 1 \in 1 .. n /\ t[m + 2 + 1] = right[1] /\ m + 2 + 1 \in 1 .. Len(t)
    BY <1>1, <1>2
  <2>2. IsOperand(right[1])
    <3>1. PICK i \in 1 .. n : IsOperand(right[i])
      BY DEF HasOperand, n
    <3>. QED  BY <3>1
  <2>3. ReadableConstant(t, m + 2 + 1)
    BY <1>3, <2>1, <2>2 DEF Proper
  <2>4. m + 2 + 1 # 1 /\ m + 2 + 1 - 1 = m + 2
    BY <1>1
  <2>. QED  BY <1>1, <2>3, <2>4 DEF ReadableConstant
<1>8. t # JUNK /\ left # JUNK /\ right # JUNK
  <2>1. Len(JUNK) = 0
    BY DEF JUNK
  <2>2. m # 0 /\ n # 0 /\ Len(t) # 0
    BY <1>1 DEF HasOperand, m, n
  <2>. QED  BY <2>1, <2>2 DEF m, n
<1>. SUFFICES ASSUME NEW f, NEW b, NEW reg, NEW V, NEW ends_line, NEW p \in Nat,
                     Follows(f, b, p, t, ends_line), Ready(f[p], V), Holding(f[p], t, reg),
                     Compiling(f[p + (m + n + 3)])
              PROVE  Computed(f[p], f[p + (m + n + 3)], t, reg)
  BY <1>1, <1>3 DEF Computes
<1>. DEFINE c == f[p]
            c1 == f[p + 1]
            c2 == f[p + 1 + m]
            c3 == f[p + (m + 2)]
            c4 == f[p + (m + 2) + n]
            d == f[p + (m + n + 3)]
<1>9. /\ c1 = EvalToken(c, b, p + 1, ends_line) /\ b[p + 1] = "("
      /\ c3 = EvalToken(c2, b, p + (m + 2), ends_line) /\ b[p + (m + 2)] = o
      /\ d = EvalToken(c4, b, p + (m + n + 3), ends_line) /\ b[p + (m + n + 3)] = ")"
  <2>1. /\ 1 \in 1 .. Len(t) /\ m + 2 \in 1 .. Len(t) /\ m + n + 3 \in 1 .. Len(t)
        /\ p + 1 - 1 = p /\ p + (m + 2) - 1 = p + 1 + m
        /\ p + (m + n + 3) - 1 = p + (m + 2) + n
    BY <1>1
  <2>. QED  BY <1>1, <2>1 DEF Follows
<1>10. Follows(f, b, p + 1, left, ends_line) /\ Follows(f, b, p + (m + 2), right, ends_line)
  BY <1>1, PartFacts
<1>11. p + 1 \in Nat /\ p + (m + 2) \in Nat
  BY <1>1
<1>12. /\ Ready(c1, V) /\ Holding(c1, left, reg) /\ Compiling(c2)
            => Computed(c1, c2, left, reg)
       /\ Ready(c3, V) /\ Holding(c3, right, reg) /\ Compiling(c4)
            => Computed(c3, c4, right, reg)
  BY <1>4, <1>10, <1>11 DEF Computes, m, n
<1>13. /\ Ready(c1, V) => Leads(c1, c2, V)
       /\ Ready(c3, V) => Leads(c3, c4, V)
  BY <1>1, <1>10, <1>11, FollowsLeads DEF m, n
<1>14. Ready(c, V) /\ Holding(c, t, reg) /\ Compiling(d)
  OBVIOUS
<1>. HIDE DEF c, c1, c2, c3, c4, d
<1>15. Leads(c, c1, V) /\ Ready(c1, V)
  BY <1>9, <1>14, EvalTokenLeads, LeadsOn
<1>16. Leads(c1, c2, V) /\ Ready(c2, V)
  BY <1>13, <1>15, LeadsOn
<1>17. Leads(c2, c3, V) /\ Ready(c3, V)
  BY <1>9, <1>16, EvalTokenLeads, LeadsOn
<1>18. Leads(c3, c4, V) /\ Ready(c4, V)
  BY <1>13, <1>17, LeadsOn
<1>19. Leads(c4, d, V)
  BY <1>9, <1>18, EvalTokenLeads
<1>20. Compiling(c) /\ Compiling(c1) /\ Compiling(c2) /\ Compiling(c3) /\ Compiling(c4)
  BY <1>14, <1>15, <1>16, <1>17, <1>18, <1>19, CompiledBefore
\* The opening bracket.
<1>21. /\ c1.operands = c.operands /\ c1.free_reg_arr = c.free_reg_arr /\ c1.holds = c.holds
       /\ Entries(c1) \subseteq Entries(c)
  <2>1. c1 = Lookup(c, PartAt(b, p + 1))
    BY <1>9, <1>20, TokenCases
  <2>. QED  BY <1>14, <1>15, <2>1 DEF Lookup, Leads, Ready, CallOK, Fields
<1>22. Holding(c1, left, reg)
  <2>1. Holding(c1, t, reg)
    BY <1>14, <1>21, HoldingOn
  <2>. QED  BY <1>1, <2>1, PartFacts
<1>23. Computed(c1, c2, left, reg)
  BY <1>12, <1>15, <1>20, <1>22
<1>24. PICK l : c2.operands = Append(c1.operands, l) /\ ResultOf(l, c1, c2, left, reg)
  BY <1>23 DEF Computed
<1>25. Untouched(c1, c2, left, reg)
  BY <1>23 DEF Computed
<1>26. l.is_reg /\ l.n \in c.free_reg_arr \cup Own(left, reg) /\ c2.holds[l.n] = left
  BY <1>6, <1>21, <1>24 DEF ResultOf, ValueOf, m
\* The operator.
<1>. DEFINE oper == Operator(o)
<1>27. oper.token = o
  BY DEF Operator
<1>28. /\ c3.operands = Append(c2.operands, oper) /\ c3.holds = c2.holds
       /\ c3.free_reg_arr = c2.free_reg_arr \ {l.n}
  <2>1. c3 = PushOperand(KeepLeft(c2), oper)
    BY <1>9, <1>20, TokenCases
  <2>2. LastOperand(c2) = l
    <3>1. IsSequence(c1.operands)
      BY <1>15 DEF Ready, CallOK
    <3>. QED  BY <1>24, <3>1, LongerSequence DEF LastOperand, Last
  <2>. HIDE DEF oper
  <2>3. c3 = PushOperand(Take(c2, l.n), oper)
    BY <1>26, <2>1, <2>2 DEF KeepLeft
  <2>. QED  BY <1>16, <2>3 DEF PushOperand, Take, Ready, CallOK, Fields
<1>. HIDE DEF oper
<1>29. \A r \in Own(t, reg) : r \in Registers
  BY <1>14, OwnPlace DEF Holding, HasRegister
<1>30. c.free_reg_arr \subseteq Registers
  BY <1>14 DEF Ready, CallOK
\* The right side's registers are none of the left side's, and busy.
<1>31. ASSUME NEW i \in 1 .. n, IsVariable(right[i])
       PROVE  LET r == reg[right[i]]
              IN  /\ r \in Registers /\ c.holds[r] = <<right[i]>>
                  /\ r \notin c.free_reg_arr /\ r \notin Own(left, reg)
  <2>1. m + 2 + i \in 1 .. Len(t) /\ t[m + 2 + i] = right[i]
    BY <1>1, <1>2
  <2>2. /\ HasRegister(c, right[i], reg[right[i]])
        /\ c.holds[reg[right[i]]] = <<right[i]>>
        /\ reg[right[i]] \in c.free_reg_arr =>
             \A j \in 1 .. (m + 2 + i) - 1 : ~IsOperand(t[j])
    <3>. DEFINE k == m + 2 + i
    <3>. HIDE DEF k
    <3>1. k \in 1 .. Len(t) /\ t[k] = right[i] /\ IsVariable(t[k])
      BY <1>31, <2>1 DEF k
    <3>2. /\ HasRegister(c, t[k], reg[t[k]])
          /\ c.holds[reg[t[k]]] = <<t[k]>>
          /\ reg[t[k]] \in c.free_reg_arr => \A j \in 1 .. k - 1 : ~IsOperand(t[j])
      BY <1>14, <3>1 DEF Holding
    <3>4. reg[t[k]] = reg[right[i]] /\ <<t[k]>> = <<right[i]>>
      BY <3>1
    <3>5. /\ HasRegister(c, right[i], reg[right[i]])
          /\ c.holds[reg[right[i]]] = <<right[i]>>
          /\ reg[right[i]] \in c.free_reg_arr => \A j \in 1 .. k - 1 : ~IsOperand(t[j])
      BY <3>1, <3>2, <3>4
    <3>. QED  BY <3>5 DEF k
  <2>3. reg[right[i]] \notin c.free_reg_arr
    <3>1. PICK j \in 1 .. m : IsOperand(left[j])
      BY DEF HasOperand, m
    <3>2. 1 + j \in 1 .. (m + 2 + i) - 1 /\ t[1 + j] = left[j]
      BY <1>1, <1>2
    <3>. QED  BY <2>2, <3>1, <3>2
  <2>4. ASSUME reg[right[i]] \in Own(left, reg) PROVE FALSE
    <3>1. PICK j \in 1 .. m : IsVariable(left[j]) /\ reg[right[i]] = reg[left[j]]
      BY <2>4, OwnPlace DEF m
    <3>2. 1 + j \in 1 .. Len(t) /\ t[1 + j] = left[j]
      BY <1>1, <1>2
    <3>3. c.holds[reg[left[j]]] = <<left[j]>>
      BY <1>14, <3>1, <3>2 DEF Holding
    <3>4. left[j] = right[i]
      BY <2>2, <3>1, <3>3
    <3>5. 1 + j = m + 2 + i
      BY <1>3, <1>31, <2>1, <3>2, <3>4, OperandKinds DEF Proper
    <3>. QED  BY <1>1, <3>5
  <2>. QED  BY <2>2, <2>3, <2>4 DEF HasRegister
<1>32. Holding(c3, right, reg)
  <2>1. Holding(c, right, reg)
    BY <1>1, <1>14, PartFacts
  <2>2. Entries(c3) \subseteq Entries(c)
    BY <1>15, <1>16, <1>17 DEF Leads
  <2>3. ASSUME NEW i \in 1 .. n, IsVariable(right[i])
        PROVE  /\ reg[right[i]] \notin c3.free_reg_arr
               /\ c3.holds[reg[right[i]]] = c.holds[reg[right[i]]]
    BY <1>21, <1>25, <1>28, <1>31, <2>3 DEF Untouched
  <2>. QED  BY <2>1, <2>2, <2>3, HoldingOn DEF n
<1>33. Computed(c3, c4, right, reg)
  BY <1>12, <1>17, <1>20, <1>32
<1>34. PICK r : c4.operands = Append(c3.operands, r) /\ ResultOf(r, c3, c4, right, reg)
  BY <1>33 DEF Computed
<1>35. Untouched(c3, c4, right, reg)
  BY <1>33 DEF Computed
<1>36. (o = "*" => r.is_reg) /\ ValueOf(c4, r) = right
  BY <1>7, <1>34 DEF ResultOf, n
<1>37. l.n \in Registers /\ l.n \notin Own(right, reg)
  <2>1. l.n \in Registers
    BY <1>5, <1>26, <1>29, <1>30
  <2>2. ASSUME l.n \in Own(right, reg) PROVE FALSE
    <3>1. PICK i \in 1 .. n : IsVariable(right[i]) /\ l.n = reg[right[i]]
      BY <2>2, OwnPlace DEF n
    <3>. QED  BY <1>26, <1>31, <3>1
  <2>. QED  BY <2>1, <2>2
<1>38. ValueOf(c4, l) = left
  <2>1. c4.holds[l.n] = c3.holds[l.n]
    BY <1>28, <1>35, <1>37 DEF Untouched
  <2>. QED  BY <1>26, <1>28, <2>1 DEF ValueOf
\* The closing bracket.
<1>39. d = Combine(c4)
  BY <1>9, <1>20, TokenCases
<1>40. PICK x \in c4.free_reg_arr :
         /\ x \in Registers
         /\ d.operands = Append(c.operands, Reg(x))
         /\ d.free_reg_arr = c4.free_reg_arr \cup {l.n}
         /\ d.holds[x] = t /\ \A q \in Registers \ {x} : d.holds[q] = c4.holds[q]
  <2>1. c4.operands = Append(Append(Append(c.operands, l), oper), r)
    BY <1>21, <1>24, <1>28, <1>34
  <2>2. IsSequence(c.operands)
    BY <1>14 DEF Ready, CallOK
  <2>3. /\ l.is_reg /\ (oper.token = "*" => r.is_reg)
        /\ ValueOf(c4, l) # JUNK /\ ValueOf(c4, r) # JUNK
    BY <1>8, <1>26, <1>27, <1>36, <1>38
  <2>4. OnTop(c4, c.operands, l, oper, r) /\ Ready(c4, V) /\ Compiling(Combine(c4))
    BY <1>14, <1>18, <1>39, <2>1, <2>2, <2>3 DEF OnTop
  <2>5. \E x \in c4.free_reg_arr :
          /\ x \in Registers
          /\ Combine(c4).operands = Append(c.operands, Reg(x))
          /\ Combine(c4).free_reg_arr = c4.free_reg_arr \cup {l.n}
          /\ Combine(c4).holds[x] = Operation(ValueOf(c4, l), oper.token, ValueOf(c4, r))
          /\ \A q \in Registers \ {x} : Combine(c4).holds[q] = c4.holds[q]
    BY <2>4, CombineComputes
  <2>. QED  BY <1>3, <1>27, <1>36, <1>38, <1>39, <2>5
\* What was busy before.
<1>41. ASSUME NEW y \in Registers, y \notin c.free_reg_arr, y \notin Own(t, reg)
       PROVE  y \notin c4.free_reg_arr /\ c4.holds[y] = c.holds[y] /\ y # l.n
  <2>1. y \notin Own(left, reg) /\ y \notin Own(right, reg)
    BY <1>5, <1>41
  <2>2. y # l.n
    BY <1>26, <1>41, <2>1
  <2>3. y \notin c2.free_reg_arr /\ c2.holds[y] = c.holds[y]
    BY <1>21, <1>25, <1>41, <2>1 DEF Untouched
  <2>4. y \notin c3.free_reg_arr /\ c3.holds[y] = c.holds[y]
    BY <1>28, <2>3
  <2>. QED  BY <1>35, <2>1, <2>2, <2>4 DEF Untouched
<1>42. Untouched(c, d, t, reg)
  BY <1>40, <1>41 DEF Untouched
<1>43. ResultOf(Reg(x), c, d, t, reg)
  <2>1. Reg(x).is_reg = TRUE /\ Reg(x).n = x
    BY DEF Reg
  <2>2. x \in c.free_reg_arr \cup Own(t, reg)
    BY <1>40, <1>41
  <2>. QED  BY <1>40, <2>1, <2>2 DEF ResultOf, ValueOf
<1>44. Computed(c, d, t, reg)
  BY <1>40, <1>42, <1>43 DEF Computed
<1>. QED  BY <1>44 DEF c, d

(***************************************************************************)
(* What shunting_yard does not reject is bracketed well, and computed.      *)
(***************************************************************************)
LEMMA OneTokenRises ==
  ASSUME NEW token, NEW x \in Nat, NEW y \in Nat, Climbs(token, x, y)
  PROVE  Rises(<<token>>, x, y)
<1>. DEFINE h == [i \in 0 .. 1 |-> IF i = 0 THEN x ELSE y]
<1>1. <<token>> \in Seq({token}) /\ Len(<<token>>) = 1
  OBVIOUS
<1>2. h \in [0 .. 1 -> Nat] /\ h[0] = x /\ h[1] = y
  OBVIOUS
<1>3. \A i \in 1 .. 1 : Climbs(<<token>>[i], h[i - 1], h[i])
  BY <1>2
<1>. HIDE DEF h
<1>. QED  BY <1>1, <1>2, <1>3 DEF Rises, IsSequence

LEMMA RisesOn ==
  ASSUME NEW s, NEW t, NEW x, NEW y, NEW z, Rises(s, x, y), Rises(t, y, z)
  PROVE  Rises(s \o t, x, z)
<1>. DEFINE m == Len(s)
            n == Len(t)
            u == s \o t
<1>1. /\ IsSequence(u) /\ m \in Nat /\ n \in Nat /\ Len(u) = m + n
      /\ \A i \in 1 .. m : u[i] = s[i]
      /\ \A i \in m + 1 .. m + n : u[i] = t[i - m]
  BY Concatenation DEF Rises
<1>. HIDE DEF m, n, u
<1>2. PICK f \in [0 .. m -> Nat] :
        f[0] = x /\ f[m] = y /\ \A i \in 1 .. m : Climbs(s[i], f[i - 1], f[i])
  BY DEF Rises, m
<1>3. PICK g \in [0 .. n -> Nat] :
        g[0] = y /\ g[n] = z /\ \A i \in 1 .. n : Climbs(t[i], g[i - 1], g[i])
  BY DEF Rises, n
<1>. DEFINE h == [i \in 0 .. m + n |-> IF i <= m THEN f[i] ELSE g[i - m]]
<1>4. h \in [0 .. m + n -> Nat]
  BY <1>1
<1>5. \A i \in 0 .. m : h[i] = f[i]
  BY <1>1
<1>6. ASSUME NEW i \in m .. m + n PROVE h[i] = g[i - m]
  <2>1. CASE i = m
    <3>1. h[i] = f[m] /\ i - m = 0
      BY <1>1, <2>1
    <3>. QED  BY <1>2, <1>3, <3>1
  <2>2. CASE i # m
    BY <1>1, <2>2
  <2>. QED  BY <2>1, <2>2
<1>. HIDE DEF h
<1>7. h[0] = x /\ h[m + n] = z
  BY <1>1, <1>2, <1>3, <1>5, <1>6
<1>8. ASSUME NEW i \in 1 .. m + n PROVE Climbs(u[i], h[i - 1], h[i])
  <2>1. CASE i \in 1 .. m
    <3>1. u[i] = s[i] /\ h[i - 1] = f[i - 1] /\ h[i] = f[i]
      BY <1>1, <1>5, <2>1
    <3>. QED  BY <1>2, <2>1, <3>1
  <2>2. CASE i \in m + 1 .. m + n
    <3>0. i \in m .. m + n /\ i - 1 \in m .. m + n /\ (i - 1) - m = (i - m) - 1
      BY <1>1, <2>2
    <3>1. u[i] = t[i - m] /\ h[i - 1] = g[(i - m) - 1] /\ h[i] = g[i - m]
      BY <1>1, <1>6, <2>2, <3>0
    <3>2. i - m \in 1 .. n
      BY <1>1, <2>2
    <3>. QED  BY <1>3, <3>1, <3>2
  <2>. QED  BY <1>1, <2>1, <2>2
<1>. QED  BY <1>1, <1>4, <1>7, <1>8 DEF Rises, u

LEMMA RisesHigher ==
  ASSUME NEW b, Rises(b, 0, 1)
  PROVE  Rises(b, 2, 3)
<1>. DEFINE n == Len(b)
<1>1. IsSequence(b) /\ n \in Nat
  BY LongerSequence DEF Rises
<1>2. PICK f \in [0 .. n -> Nat] :
        f[0] = 0 /\ f[n] = 1 /\ \A i \in 1 .. n : Climbs(b[i], f[i - 1], f[i])
  BY DEF Rises
<1>. DEFINE h == [i \in 0 .. n |-> f[i] + 2]
<1>. HIDE DEF n
<1>3. h \in [0 .. n -> Nat] /\ h[0] = 2 /\ h[n] = 3
  BY <1>1, <1>2
<1>4. ASSUME NEW i \in 1 .. n PROVE Climbs(b[i], h[i - 1], h[i])
  <2>1. ASSUME NEW x \in Nat PROVE Even(x + 2) <=> Even(x)
    BY DEF Even
  <2>2. i - 1 \in 0 .. n /\ i \in 0 .. n
    BY <1>1
  <2>3. /\ f[i - 1] \in Nat /\ f[i] \in Nat
        /\ h[i - 1] = f[i - 1] + 2 /\ h[i] = f[i] + 2
    BY <2>2
  <2>4. Climbs(b[i], f[i - 1], f[i])
    BY <1>2
  <2>. HIDE DEF h
  <2>5. Even(h[i - 1]) <=> Even(f[i - 1])
    <3>1. Even(f[i - 1] + 2) <=> Even(f[i - 1])
      BY <2>1, <2>3
    <3>. QED  BY <2>3, <3>1
  <2>. QED  BY <2>3, <2>4, <2>5 DEF Climbs
<1>. HIDE DEF h
<1>. QED  BY <1>1, <1>3, <1>4 DEF Rises, n

LEMMA LeafIsBracketed ==
  ASSUME NEW token, token \notin OPERATORS \cup {"(", ")"}
  PROVE  WellBracketed(<<token>>)
<1>1. Climbs(token, 0, 1)
  BY DEF Climbs, Even
<1>. QED  BY <1>1, OneTokenRises DEF WellBracketed

LEMMA OperationIsBracketed ==
  ASSUME NEW left, NEW right, WellBracketed(left), WellBracketed(right), NEW o \in OPERATORS
  PROVE  WellBracketed(<<"(">> \o left \o <<o>> \o right \o <<")">>)
<1>1. /\ Climbs("(", 0, 0) /\ Climbs(")", 3, 1)
  BY DEF Climbs, Even, OPERATORS, precedence
<1>2. Climbs(o, 1, 2)
  BY DEF Climbs, Even, OPERATORS, precedence
<1>3. Rises(<<"(">>, 0, 0) /\ Rises(<<")">>, 3, 1) /\ Rises(<<o>>, 1, 2)
  BY <1>1, <1>2, OneTokenRises
<1>4. Rises(left, 0, 1) /\ Rises(right, 2, 3)
  BY RisesHigher DEF WellBracketed
<1>5. Rises(<<"(">> \o left, 0, 1)
  BY <1>3, <1>4, RisesOn
<1>6. Rises((<<"(">> \o left) \o <<o>>, 0, 2)
  BY <1>3, <1>5, RisesOn
<1>7. Rises(((<<"(">> \o left) \o <<o>>) \o right, 0, 3)
  BY <1>4, <1>6, RisesOn
<1>8. Rises((((<<"(">> \o left) \o <<o>>) \o right) \o <<")">>, 0, 1)
  BY <1>3, <1>7, RisesOn
<1>. QED  BY <1>8 DEF WellBracketed

\* An expression of which the code computes the value.
Sound(t) ==
  /\ WellBracketed(t)
  /\ HasOperand(t)
  /\ Proper(t) => Computes(t)

LEMMA LeafIsSound ==
  ASSUME NEW token, token \notin OPERATORS \cup {"(", ")"}
  PROVE  Sound(<<token>>)
<1>1. IsOperand(token)
  BY OperandKinds
<1>2. HasOperand(<<token>>)
  <2>1. 1 \in 1 .. Len(<<token>>) /\ <<token>>[1] = token
    OBVIOUS
  <2>. QED  BY <1>1, <2>1 DEF HasOperand
<1>. QED  BY <1>1, <1>2, LeafIsBracketed, LeafComputes DEF Sound

LEMMA OperationIsSound ==
  ASSUME NEW left, NEW right, Sound(left), Sound(right), NEW o \in OPERATORS
  PROVE  Sound(Operation(left, o, right))
<1>. DEFINE t == Operation(left, o, right)
<1>1. IsSequence(left) /\ IsSequence(right)
  BY DEF Sound, WellBracketed, Rises
<1>2. WellBracketed(t)
  BY OperationIsBracketed DEF Sound, Operation
<1>3. HasOperand(t)
  <2>1. PICK i \in 1 .. Len(left) : IsOperand(left[i])
    BY DEF Sound, HasOperand
  <2>2. IsPart(left, 1, t)
    BY <1>1, OperationParts
  <2>. HIDE DEF t
  <2>3. 1 + i \in 1 .. Len(t) /\ t[1 + i] = left[i]
    BY <2>2 DEF IsPart
  <2>. QED  BY <2>1, <2>3 DEF HasOperand
<1>4. ASSUME Proper(t) PROVE Computes(t)
  BY <1>1, <1>4, OperationComputes DEF Sound
<1>. QED  BY <1>2, <1>3, <1>4 DEF Sound

\* Operands are sound expressions, and everything else is an operator.
AreStacks(s) ==
  /\ DOMAIN s = {"operands", "operators", "ok"}
  /\ s.ok \in BOOLEAN
  /\ IsSequence(s.operands)
  /\ \A i \in 1 .. Len(s.operands) : Sound(s.operands[i])
  /\ IsSequence(s.operators)
  /\ \A i \in 1 .. Len(s.operators) : s.operators[i] \in OPERATORS \cup {"("}

LEMMA RejectKeepsStacks ==
  ASSUME NEW s, AreStacks(s)
  PROVE  AreStacks(Reject(s)) /\ ~Reject(s).ok
BY DEF AreStacks, Reject

LEMMA PushKeepsStacks ==
  ASSUME NEW s, AreStacks(s), NEW o \in OPERATORS \cup {"("}
  PROVE  AreStacks(Push(s, o))
<1>. DEFINE t == Push(s, o)
<1>1. /\ DOMAIN t = {"operands", "operators", "ok"} /\ t.ok = s.ok
      /\ t.operands = s.operands /\ t.operators = Append(s.operators, o)
  BY DEF Push, AreStacks
<1>2. /\ IsSequence(t.operators) /\ Len(t.operators) = Len(s.operators) + 1
      /\ Len(s.operators) \in Nat
      /\ \A i \in 1 .. Len(s.operators) : t.operators[i] = s.operators[i]
      /\ t.operators[Len(s.operators) + 1] = o
  BY <1>1, LongerSequence DEF AreStacks
<1>. HIDE DEF t
<1>3. \A i \in 1 .. Len(t.operators) : t.operators[i] \in OPERATORS \cup {"("}
  BY <1>2 DEF AreStacks
<1>. QED  BY <1>1, <1>2, <1>3 DEF AreStacks, t

LEMMA PopKeepsStacks ==
  ASSUME NEW s, AreStacks(s)
  PROVE  AreStacks([s EXCEPT !.operators = Front(@)])
<1>. DEFINE n == Len(s.operators)
            t == [s EXCEPT !.operators = Front(@)]
<1>1. /\ DOMAIN t = {"operands", "operators", "ok"} /\ t.ok = s.ok
      /\ t.operands = s.operands /\ t.operators = SubSeq(s.operators, 1, n - 1)
  BY DEF AreStacks, Front
<1>. HIDE DEF t
<1>2. n \in Nat /\ IsSequence(s.operators)
  BY LongerSequence DEF AreStacks
<1>3. n - 1 \in Int /\ n - 1 <= Len(s.operators)
  BY <1>2
<1>4. /\ IsSequence(t.operators)
      /\ n - 1 \in Nat => /\ Len(t.operators) = n - 1
                          /\ \A i \in 1 .. n - 1 : t.operators[i] = s.operators[i]
  BY <1>1, <1>2, <1>3, ShorterSequence
<1>5. n = 0 => t.operators = <<>>
  BY <1>1, SubSeqEmpty
<1>6. \A i \in 1 .. Len(t.operators) : t.operators[i] \in OPERATORS \cup {"("}
  <2>1. CASE n = 0
    BY <1>5, <2>1
  <2>2. CASE n # 0
    BY <1>2, <1>4, <2>2 DEF AreStacks
  <2>. QED  BY <2>1, <2>2
<1>. QED  BY <1>1, <1>4, <1>6 DEF AreStacks, t

\* Two operands and the operator between them become one.
LEMMA MergeKeepsStacks ==
  ASSUME NEW s, AreStacks(s),
         s.ok => /\ s.operators # <<>>
                 /\ s.operators[Len(s.operators)] \in OPERATORS
  PROVE  /\ AreStacks(Merge(s))
         /\ Merge(s).ok => /\ s.ok
                           /\ Len(Merge(s).operators) = Len(s.operators) - 1
                           /\ \A i \in 1 .. Len(s.operators) - 1 :
                                Merge(s).operators[i] = s.operators[i]
<1>. DEFINE n == Len(s.operands)
            k == Len(s.operators)
            t == Merge(s)
<1>1. CASE ~s.ok \/ n < 2
  BY <1>1, RejectKeepsStacks DEF Merge
<1>2. CASE s.ok /\ ~(n < 2)
  <2>. DEFINE o == Last(s.operators)
              merged == Operation(s.operands[n - 1], o, s.operands[n])
              rest == SubSeq(s.operands, 1, n - 2)
  <2>1. /\ DOMAIN t = {"operands", "operators", "ok"} /\ t.ok = s.ok
        /\ t.operands = Append(rest, merged) /\ t.operators = SubSeq(s.operators, 1, k - 1)
    BY <1>2 DEF Merge, AreStacks, Front, Operation
  <2>2. n \in Nat /\ k \in Nat /\ IsSequence(s.operands) /\ IsSequence(s.operators)
    BY LongerSequence DEF AreStacks
  <2>3. k # 0
    <3>1. PICK S : s.operators \in Seq(S)
      BY <2>2 DEF IsSequence
    <3>. QED  BY <1>2, <3>1, EmptySeq
  <2>4. n - 1 \in 1 .. n /\ n \in 1 .. n /\ n - 2 \in Nat /\ n - 2 <= n
    BY <1>2, <2>2
  <2>5. o \in OPERATORS
    BY <1>2 DEF Last
  <2>6. Sound(merged)
    <3>1. Sound(s.operands[n - 1]) /\ Sound(s.operands[n])
      BY <2>4 DEF AreStacks
    <3>. QED  BY <2>5, <3>1, OperationIsSound
  <2>7. /\ IsSequence(rest) /\ Len(rest) = n - 2
        /\ \A i \in 1 .. n - 2 : rest[i] = s.operands[i]
    BY <2>2, <2>4, ShorterSequence
  <2>. HIDE DEF merged, rest
  <2>8. /\ IsSequence(t.operands) /\ Len(t.operands) = n - 1
        /\ \A i \in 1 .. n - 2 : t.operands[i] = s.operands[i]
        /\ t.operands[n - 1] = merged
    <3>1. n - 2 + 1 = n - 1
      BY <2>2
    <3>2. \A i \in 1 .. n - 2 : Append(rest, merged)[i] = rest[i]
      BY <2>7, LongerSequence
    <3>3. /\ IsSequence(Append(rest, merged)) /\ Len(Append(rest, merged)) = n - 1
          /\ Append(rest, merged)[n - 1] = merged
      BY <2>7, <3>1, LongerSequence
    <3>. QED  BY <2>1, <2>7, <3>2, <3>3
  <2>9. k - 1 \in Nat /\ k - 1 <= k
    BY <2>2, <2>3
  <2>10. /\ IsSequence(t.operators) /\ Len(t.operators) = k - 1
         /\ \A i \in 1 .. k - 1 : t.operators[i] = s.operators[i]
    BY <2>1, <2>2, <2>9, ShorterSequence
  <2>. HIDE DEF t
  <2>11. \A i \in 1 .. Len(t.operands) : Sound(t.operands[i])
    <3>. SUFFICES ASSUME NEW i \in 1 .. n - 1 PROVE Sound(t.operands[i])
      BY <2>8
    <3>1. CASE i = n - 1
      BY <2>6, <2>8, <3>1
    <3>2. CASE i \in 1 .. n - 2
      BY <2>2, <2>8, <3>2 DEF AreStacks
    <3>. QED  BY <2>2, <3>1, <3>2
  <2>12. \A i \in 1 .. Len(t.operators) : t.operators[i] \in OPERATORS \cup {"("}
    BY <2>2, <2>10 DEF AreStacks
  <2>13. AreStacks(t)
    BY <2>1, <2>8, <2>10, <2>11, <2>12 DEF AreStacks
  <2>. QED  BY <1>2, <2>10, <2>13 DEF t
<1>. QED  BY <1>1, <1>2

IsMerging(f, n, s) == f = [k \in 0 .. n |-> IF k = 0 THEN s ELSE Merge(f[k - 1])]

LEMMA MergingsExist ==
  ASSUME NEW s, NEW n \in Nat
  PROVE  \E f : IsMerging(f, n, s)
<1>. DEFINE T == {m \in 0 .. n : ~ \E f : IsMerging(f, m, s)}
<1>. SUFFICES ASSUME T # {} PROVE FALSE
  OBVIOUS
<1>1. T \in SUBSET Nat
  OBVIOUS
<1>2. PICK m \in T : \A y \in T : ~(y < m)
  <2>. HIDE DEF T
  <2>. QED  BY <1>1, LeastNatural
<1>3. m # 0
  <2>1. IsMerging([k \in 0 .. 0 |-> s], 0, s)
    BY DEF IsMerging
  <2>. QED  BY <2>1
<1>4. m - 1 \in 0 .. n /\ m - 1 \notin T /\ m \in Nat
  BY <1>2, <1>3
<1>5. PICK f : IsMerging(f, m - 1, s)
  BY <1>4
<1>. DEFINE g == [k \in 0 .. m |-> IF k = m THEN Merge(f[m - 1]) ELSE f[k]]
<1>6. \A k \in 0 .. m : g[k] = IF k = 0 THEN s ELSE Merge(g[k - 1])
  BY <1>3, <1>4, <1>5 DEF IsMerging
<1>. HIDE DEF g
<1>7. g = [k \in 0 .. m |-> g[k]]
  BY DEF g
<1>8. IsMerging(g, m, s)
  BY <1>6, <1>7 DEF IsMerging
<1>. QED  BY <1>2, <1>8

\* As many merges as there are operators above an open bracket.
LEMMA MergeTimesKeepsStacks ==
  ASSUME NEW s, AreStacks(s), NEW times \in 0 .. Len(s.operators),
         \A i \in Len(s.operators) - times + 1 .. Len(s.operators) : s.operators[i] \in OPERATORS
  PROVE  AreStacks(MergeTimes(s, times))
<1>. DEFINE n == Len(s.operators)
            IsMerged(f) == f = [k \in 0 .. times |-> IF k = 0 THEN s ELSE Merge(f[k - 1])]
            merged == CHOOSE f : IsMerged(f)
            Right(t, k) == /\ AreStacks(t)
                           /\ t.ok => /\ Len(t.operators) = n - k
                                      /\ \A i \in 1 .. n - k : t.operators[i] = s.operators[i]
            T == {k \in 0 .. times : ~Right(merged[k], k)}
<1>1. MergeTimes(s, times) = merged[times]
  BY DEF MergeTimes
<1>2. n \in Nat /\ times \in Nat
  BY LongerSequence DEF AreStacks
<1>3. IsMerged(merged)
  <2>1. \E f : IsMerging(f, times, s)
    BY <1>2, MergingsExist
  <2>2. \E f : IsMerged(f)
    BY <2>1 DEF IsMerging
  <2>. QED  BY <2>2
<1>. HIDE DEF merged
<1>4. merged[0] = s /\ \A k \in 1 .. times : merged[k] = Merge(merged[k - 1])
  BY <1>2, <1>3
<1>5. T = {}
  <2>. SUFFICES ASSUME T # {} PROVE FALSE
    OBVIOUS
  <2>1. T \in SUBSET Nat
    OBVIOUS
  <2>2. PICK m \in T : \A y \in T : ~(y < m)
    <3>. HIDE DEF T
    <3>. QED  BY <2>1, LeastNatural
  <2>3. m # 0
    BY <1>2, <1>4
  <2>4. m \in 1 .. times /\ m - 1 \in 0 .. times /\ Right(merged[m - 1], m - 1)
    <3>1. m \in 1 .. times /\ m - 1 \in 0 .. times /\ m - 1 < m
      BY <2>3
    <3>. HIDE DEF Right
    <3>. QED  BY <2>2, <3>1
  <2>. DEFINE t == merged[m - 1]
              top == n - (m - 1)
  <2>5. merged[m] = Merge(t)
    BY <1>4, <2>4
  <2>. HIDE DEF t
  <2>6. AreStacks(t)
    BY <2>4 DEF t
  <2>7. t.ok => /\ Len(t.operators) = top
                /\ \A i \in 1 .. top : t.operators[i] = s.operators[i]
    BY <2>4 DEF t
  <2>8. top \in 1 .. n /\ top \in n - times + 1 .. n /\ top - 1 = n - m
    BY <1>2, <2>4
  <2>. HIDE DEF top, T
  <2>9. t.ok => t.operators # <<>> /\ t.operators[Len(t.operators)] \in OPERATORS
    <3>1. s.operators[top] \in OPERATORS
      BY <2>8
    <3>2. <<>> \in Seq({}) /\ Len(<<>>) = 0 /\ top # 0
      BY <2>8
    <3>3. top \in 1 .. top
      BY <2>8
    <3>. QED  BY <2>7, <3>1, <3>2, <3>3
  <2>10. /\ AreStacks(Merge(t))
         /\ Merge(t).ok => /\ t.ok
                           /\ Len(Merge(t).operators) = Len(t.operators) - 1
                           /\ \A i \in 1 .. Len(t.operators) - 1 :
                                Merge(t).operators[i] = t.operators[i]
    BY <2>6, <2>9, MergeKeepsStacks
  <2>11. \A i \in 1 .. n - m : i \in 1 .. top
    BY <2>8
  <2>12. Merge(t).ok => /\ Len(Merge(t).operators) = n - m
                        /\ \A i \in 1 .. n - m : Merge(t).operators[i] = s.operators[i]
    BY <2>7, <2>8, <2>10, <2>11
  <2>13. Right(merged[m], m)
    BY <2>5, <2>10, <2>12
  <2>. QED  BY <2>2, <2>13 DEF T
<1>6. Right(merged[times], times)
  BY <1>2, <1>5
<1>. QED  BY <1>1, <1>6

LEMMA GreatestOf ==
  ASSUME NEW n \in Nat, NEW T \in SUBSET (1 .. n), T # {}
  PROVE  Max(T) \in 1 .. n /\ Max(T) \in T /\ \A y \in T : y <= Max(T)
<1>. DEFINE U == {u \in 0 .. n : n - u \in T}
<1>1. U \in SUBSET Nat
  OBVIOUS
<1>2. \A y \in T : y \in 1 .. n /\ n - y \in U
  <2>. SUFFICES ASSUME NEW y \in T PROVE y \in 1 .. n /\ n - y \in U
    OBVIOUS
  <2>1. y \in 1 .. n
    OBVIOUS
  <2>2. n - y \in 0 .. n /\ n - (n - y) = y
    BY <2>1
  <2>. QED  BY <2>1, <2>2
<1>3. PICK x \in U : \A y \in U : ~(y < x)
  <2>1. U # {}
    BY <1>2
  <2>. HIDE DEF U
  <2>. QED  BY <1>1, <2>1, LeastNatural
<1>4. n - x \in T /\ \A y \in T : n - x >= y
  BY <1>2, <1>3
<1>5. Max(T) \in T /\ \A y \in T : Max(T) >= y
  BY <1>4 DEF Max
<1>6. Max(T) \in 1 .. n
  BY <1>5
<1>. QED  BY <1>2, <1>5, <1>6

LEMMA MergeOpenKeepsStacks ==
  ASSUME NEW s, AreStacks(s)
  PROVE  AreStacks(MergeOpen(s))
<1>. DEFINE n == Len(s.operators)
            I == {i \in 1 .. n : s.operators[i] = "("}
            bracket == IF I # {} THEN Max(I) ELSE 0
<1>1. MergeOpen(s) = MergeTimes(s, n - bracket)
  BY DEF MergeOpen, SelectLastInSeq
<1>2. n \in Nat
  BY LongerSequence DEF AreStacks
<1>3. bracket \in 0 .. n /\ \A i \in I : i <= bracket
  <2>1. I \in SUBSET (1 .. n)
    OBVIOUS
  <2>2. CASE I = {}
    BY <1>2, <2>2
  <2>3. CASE I # {}
    <3>. HIDE DEF I
    <3>1. Max(I) \in 1 .. n /\ \A i \in I : i <= Max(I)
      BY <1>2, <2>1, <2>3, GreatestOf
    <3>. QED  BY <2>3, <3>1
  <2>. QED  BY <2>2, <2>3
<1>. HIDE DEF bracket
<1>4. n - bracket \in 0 .. n /\ n - (n - bracket) + 1 = bracket + 1
  BY <1>2, <1>3
<1>5. \A i \in bracket + 1 .. n : i \in 1 .. n /\ i \notin I
  BY <1>2, <1>3
<1>6. \A i \in n - (n - bracket) + 1 .. n : s.operators[i] \in OPERATORS
  BY <1>4, <1>5 DEF AreStacks
<1>. QED  BY <1>1, <1>4, <1>6, MergeTimesKeepsStacks

LEMMA ReadTokenKeepsStacks ==
  ASSUME NEW s, AreStacks(s), NEW token
  PROVE  AreStacks(ReadToken(s, token))
<1>. DEFINE t == ReadToken(s, token)
<1>1. CASE ~s.ok
  BY <1>1 DEF ReadToken
<1>2. CASE s.ok /\ token = "("
  <2>1. t = Push(s, "(")
    BY <1>2 DEF ReadToken, OPERATORS, precedence
  <2>. QED  BY <2>1, PushKeepsStacks
<1>3. CASE s.ok /\ token = ")"
  <2>1. t = CloseBracket(s)
    BY <1>3 DEF ReadToken, OPERATORS, precedence
  <2>2. AreStacks([MergeOpen(s) EXCEPT !.operators = Front(@)])
    BY MergeOpenKeepsStacks, PopKeepsStacks
  <2>. QED  BY <2>1, <2>2, RejectKeepsStacks DEF CloseBracket
<1>4. CASE s.ok /\ token \in OPERATORS
  <2>1. t = ReadOperator(s, token)
    BY <1>4 DEF ReadToken, OPERATORS, precedence
  <2>. QED  BY <1>4, <2>1, MergeOpenKeepsStacks, PushKeepsStacks DEF ReadOperator
<1>5. CASE s.ok /\ token \notin OPERATORS \cup {"(", ")"}
  <2>1. t = [s EXCEPT !.operands = Append(@, <<token>>)]
    BY <1>5 DEF ReadToken
  <2>2. /\ DOMAIN t = {"operands", "operators", "ok"} /\ t.ok = s.ok
        /\ t.operators = s.operators /\ t.operands = Append(s.operands, <<token>>)
    BY <2>1 DEF AreStacks
  <2>3. Sound(<<token>>)
    BY <1>5, LeafIsSound
  <2>4. /\ IsSequence(t.operands) /\ Len(t.operands) = Len(s.operands) + 1
        /\ Len(s.operands) \in Nat
        /\ \A i \in 1 .. Len(s.operands) : t.operands[i] = s.operands[i]
        /\ t.operands[Len(s.operands) + 1] = <<token>>
    BY <2>2, LongerSequence DEF AreStacks
  <2>. HIDE DEF t
  <2>5. ASSUME NEW i \in 1 .. Len(t.operands) PROVE Sound(t.operands[i])
    <3>1. CASE i = Len(s.operands) + 1
      BY <2>3, <2>4, <3>1
    <3>2. CASE i \in 1 .. Len(s.operands)
      BY <2>4, <3>2 DEF AreStacks
    <3>. QED  BY <2>4, <3>1, <3>2
  <2>. QED  BY <2>2, <2>4, <2>5 DEF AreStacks, t
<1>. QED  BY <1>1, <1>2, <1>3, <1>4, <1>5

IsReading(f, n, tokens) ==
  f = [i \in 0 .. n |-> IF i = 0 THEN Stacks ELSE ReadToken(f[i - 1], tokens[i])]

LEMMA ReadingsExist ==
  ASSUME NEW tokens, NEW n \in Nat
  PROVE  \E f : IsReading(f, n, tokens)
<1>. DEFINE T == {m \in 0 .. n : ~ \E f : IsReading(f, m, tokens)}
<1>. SUFFICES ASSUME T # {} PROVE FALSE
  OBVIOUS
<1>1. T \in SUBSET Nat
  OBVIOUS
<1>2. PICK m \in T : \A y \in T : ~(y < m)
  <2>. HIDE DEF T
  <2>. QED  BY <1>1, LeastNatural
<1>3. m # 0
  <2>1. IsReading([i \in 0 .. 0 |-> Stacks], 0, tokens)
    BY DEF IsReading
  <2>. QED  BY <2>1
<1>4. m - 1 \in 0 .. n /\ m - 1 \notin T /\ m \in Nat
  BY <1>2, <1>3
<1>5. PICK f : IsReading(f, m - 1, tokens)
  BY <1>4
<1>. DEFINE g == [i \in 0 .. m |-> IF i = m THEN ReadToken(f[m - 1], tokens[m]) ELSE f[i]]
<1>6. \A k \in 0 .. m : g[k] = IF k = 0 THEN Stacks ELSE ReadToken(g[k - 1], tokens[k])
  BY <1>3, <1>4, <1>5 DEF IsReading
<1>. HIDE DEF g
<1>7. g = [i \in 0 .. m |-> g[i]]
  BY DEF g
<1>8. IsReading(g, m, tokens)
  BY <1>6, <1>7 DEF IsReading
<1>. QED  BY <1>2, <1>8

\* Whatever the tokens are, they are rejected or become a sound expression.
LEMMA BracketsSoundly ==
  ASSUME NEW tokens, Len(tokens) \in Nat
  PROVE  shunting_yard(tokens) = REJECTED \/ Sound(shunting_yard(tokens))
<1>. DEFINE n == Len(tokens)
            IsAfter(f) ==
              f = [i \in 0 .. n |-> IF i = 0 THEN Stacks ELSE ReadToken(f[i - 1], tokens[i])]
            after == CHOOSE f : IsAfter(f)
            T == {i \in 0 .. n : ~AreStacks(after[i])}
<1>1. shunting_yard(tokens) = Bracketed(EndOfTokens(after[n]))
  BY DEF shunting_yard
<1>2. IsAfter(after)
  <2>1. \E f : IsReading(f, n, tokens)
    BY ReadingsExist
  <2>2. \E f : IsAfter(f)
    BY <2>1 DEF IsReading
  <2>. QED  BY <2>2
<1>. HIDE DEF after
<1>3. after[0] = Stacks /\ \A i \in 1 .. n : after[i] = ReadToken(after[i - 1], tokens[i])
  BY <1>2
<1>4. AreStacks(Stacks)
  <2>1. <<>> \in Seq({}) /\ Len(<<>>) = 0
    OBVIOUS
  <2>. QED  BY <2>1 DEF Stacks, AreStacks, IsSequence
<1>5. T = {}
  <2>. SUFFICES ASSUME T # {} PROVE FALSE
    OBVIOUS
  <2>1. T \in SUBSET Nat
    OBVIOUS
  <2>2. PICK m \in T : \A y \in T : ~(y < m)
    <3>. HIDE DEF T
    <3>. QED  BY <2>1, LeastNatural
  <2>3. m # 0
    BY <1>3, <1>4
  <2>4. m \in 1 .. n /\ m - 1 \in 0 .. n /\ AreStacks(after[m - 1])
    BY <2>2, <2>3
  <2>5. AreStacks(after[m])
    BY <1>3, <2>4, ReadTokenKeepsStacks
  <2>. QED  BY <2>2, <2>5
<1>. DEFINE s == after[n]
            t == EndOfTokens(s)
<1>6. AreStacks(s)
  BY <1>5
<1>. HIDE DEF s
<1>7. AreStacks(t)
  <2>1. Len(s.operators) \in Nat
    BY <1>6, LongerSequence DEF AreStacks
  <2>2. CASE Contains(s.operators, "(")
    BY <1>6, <2>2, RejectKeepsStacks DEF EndOfTokens
  <2>3. CASE ~Contains(s.operators, "(")
    <3>1. \A i \in 1 .. Len(s.operators) : s.operators[i] \in OPERATORS
      BY <1>6, <2>3 DEF Contains, AreStacks
    <3>2. /\ Len(s.operators) \in 0 .. Len(s.operators)
          /\ Len(s.operators) - Len(s.operators) + 1 = 1
      BY <2>1
    <3>3. AreStacks(MergeTimes(s, Len(s.operators)))
      BY <1>6, <3>1, <3>2, MergeTimesKeepsStacks
    <3>. QED  BY <2>3, <3>3 DEF EndOfTokens
  <2>. QED  BY <2>2, <2>3
<1>. HIDE DEF t
<1>8. CASE t.ok /\ t.operands # <<>>
  <2>1. PICK S : t.operands \in Seq(S)
    BY <1>7 DEF AreStacks, IsSequence
  <2>2. 1 \in 1 .. Len(t.operands)
    BY <1>8, <2>1
  <2>. QED  BY <1>1, <1>7, <1>8, <2>2 DEF Bracketed, AreStacks, s, t
<1>9. CASE ~(t.ok /\ t.operands # <<>>)
  BY <1>1, <1>9 DEF Bracketed, s, t
<1>. QED  BY <1>8, <1>9

LEMMA BracketsWell ==
  ASSUME NEW tokens, Len(tokens) \in Nat
  PROVE  shunting_yard(tokens) = REJECTED \/ WellBracketed(shunting_yard(tokens))
BY BracketsSoundly DEF Sound

LEMMA EvalLeads ==
  ASSUME NEW c, NEW V, Ready(c, V), NEW tokens, Len(tokens) \in Nat, NEW ends_line
  PROVE  Leads(c, Eval(c, tokens, ends_line), V)
<1>. DEFINE b == shunting_yard(tokens)
<1>1. CASE ~Compiling(c)
  BY <1>1 DEF Eval, Leads, Ready
<1>2. CASE Compiling(c) /\ b = REJECTED
  BY <1>2, FailWorks DEF Eval, EvalBracketed, Works
<1>3. CASE Compiling(c) /\ b # REJECTED
  <2>1. WellBracketed(b)
    BY <1>3, BracketsWell
  <2>. HIDE DEF b
  <2>2. Len(b) \in Nat
    BY <2>1, LongerSequence DEF WellBracketed, Rises
  <2>3. Leads(c, eval_arithmetic(c, b, ends_line), V)
    BY <2>2, EvalArithmeticLeads
  <2>. QED  BY <1>3, <2>3 DEF Eval, EvalBracketed, b
<1>. QED  BY <1>1, <1>2, <1>3

LEMMA EvalPiles ==
  ASSUME NEW c, NEW V, Ready(c, V), NEW tokens, Len(tokens) \in Nat, NEW ends_line,
         NEW base \in Nat, NEW kept, NEW X, Piles(c, base, 0, kept, X),
         Compiling(Eval(c, tokens, ends_line))
  PROVE  Piles(Eval(c, tokens, ends_line), base, 1, kept, X)
<1>. DEFINE b == shunting_yard(tokens)
            d == Eval(c, tokens, ends_line)
<1>1. Compiling(c)
  BY EvalLeads, CompiledBefore
<1>2. b # REJECTED
  BY <1>1, FailWorks DEF Eval, EvalBracketed
<1>3. WellBracketed(b)
  BY <1>2, BracketsWell
<1>4. d = eval_arithmetic(c, b, ends_line)
  BY <1>1, <1>2 DEF Eval, EvalBracketed
<1>. HIDE DEF b
<1>. QED  BY <1>3, <1>4, EvalArithmeticPiles

(***************************************************************************)
(* The line's variable                                                     *)
(***************************************************************************)
OneEntryEach(c) == \A e, f \in Entries(c) : e.symbol = f.symbol => e = f

\* A name that is looked up is not lost.
LEMMA LookupFinds ==
  ASSUME NEW t, IsTable(t), NEW text, EntryOf(t, text) # 0
  PROVE  \E e \in EntriesOf(AfterLookup(t, text)) : e.symbol = text
<1>. DEFINE chain == ChainOf(t, text)
            i == EntryOf(t, text)
            rest == SubSeq(chain, i, Len(chain))
<1>1. /\ IsSequence(chain) /\ Len(chain) \in Nat
      /\ i \in 1 .. Len(chain) /\ chain[i].symbol = text
  BY ChainFacts, EntryFacts
<1>2. PICK S : chain \in Seq(S)
  BY <1>1 DEF IsSequence
<1>. HIDE DEF i
<1>3. chain # <<>>
  BY <1>1
<1>4. Hash(text) \in DOMAIN t
  BY <1>3 DEF ChainOf
<1>5. AfterLookup(t, text) = [t EXCEPT ![Hash(text)] = rest]
  BY <1>3 DEF AfterLookup, i
<1>. HIDE DEF chain
<1>6. \A k \in i .. Len(chain) : chain[k] \in S
  BY <1>1, <1>2
<1>7. /\ Len(rest) = Len(chain) - i + 1 /\ rest \in Seq(S)
      /\ \A k \in 1 .. Len(chain) - i + 1 : rest[k] = chain[i + k - 1]
  BY <1>1, <1>6, SubSeqProperties
<1>8. 1 \in 1 .. Len(chain) - i + 1 /\ i + 1 - 1 = i
  BY <1>1
<1>. HIDE DEF rest
<1>9. 1 \in DOMAIN rest /\ rest[1] = chain[i]
  BY <1>7, <1>8
<1>10. rest[1] \in EntriesOf(AfterLookup(t, text))
  BY <1>4, <1>5, <1>9, EntryPlace
<1>. QED  BY <1>1, <1>9, <1>10

LEMMA InsertFinds ==
  ASSUME NEW t, IsTable(t), NEW v, NEW r
  PROVE  \E e \in EntriesOf(AfterInsert(t, <<v>>, r)) : e.symbol = <<v>>
<1>. DEFINE chain == ChainOf(t, <<v>>)
            e == [symbol |-> <<v>>, address |-> r]
            u == AfterInsert(t, <<v>>, r)
<1>1. IsSequence(chain)
  BY ChainFacts
<1>2. /\ u[Hash(<<v>>)] = Append(chain, e) /\ Hash(<<v>>) \in DOMAIN u
  BY DEF AfterInsert
<1>. HIDE DEF chain, u, e
<1>3. Len(chain) + 1 \in DOMAIN Append(chain, e) /\ Append(chain, e)[Len(chain) + 1] = e
  <2>1. /\ IsSequence(Append(chain, e)) /\ Len(chain) \in Nat
        /\ Len(Append(chain, e)) = Len(chain) + 1
        /\ Append(chain, e)[Len(chain) + 1] = e
    BY <1>1, LongerSequence
  <2>2. PICK S : Append(chain, e) \in Seq(S)
    BY <2>1 DEF IsSequence
  <2>. QED  BY <2>1, <2>2
<1>4. e \in EntriesOf(u) /\ e.symbol = <<v>>
  BY <1>2, <1>3, EntryPlace DEF e
<1>. QED  BY <1>4 DEF u

LEMMA DeclareLeads ==
  ASSUME NEW c, NEW v, Ready(c, {}), OneEntryEach(c), Compiling(c)
  PROVE  LET d == Declare(c, v)
         IN  /\ Ready(d, {v})
             /\ OneEntryEach(d)
             /\ d.status \in {"compiling", "undefined"}
             /\ d.lines = c.lines
             /\ Compiling(d) =>
                  /\ HasRegister(d, v, Address(d, v))
                  /\ d.operands = c.operands
                  /\ Registers \ c.free_reg_arr \subseteq c.kept =>
                       Registers \ d.free_reg_arr \subseteq d.kept
<1>. DEFINE looked == Lookup(c, <<v>>)
            r == first_free_reg(c)
            d == Declare(c, v)
            t == c.var_reg_table
            new == [symbol |-> <<v>>, address |-> r]
<1>1. IsTable(t) /\ c.status = "compiling"
  BY DEF Ready, CallOK, Compiling
<1>2. Works(c, looked, {})
  BY LookupWorks
<1>3. /\ Ready(looked, {}) /\ Entries(looked) \subseteq Entries(c)
      /\ looked.lines = c.lines
      /\ looked.var_reg_table = AfterLookup(t, <<v>>) /\ looked.status = "compiling"
      /\ looked.free_reg_arr = c.free_reg_arr /\ looked.kept = c.kept
      /\ looked.exposed = c.exposed /\ looked.holds = c.holds
      /\ looked.operands = c.operands /\ looked.written = c.written
  <2>1. Ready(looked, {}) /\ Entries(looked) \subseteq Entries(c)
    BY <1>2, WorksOn DEF Works, Leads
  <2>. QED  BY <1>1, <2>1 DEF Lookup, Ready, CallOK, Fields
<1>. HIDE DEF looked
<1>4. ASSUME OneEntryEach(d), Ready(d, {v}), \E e \in Entries(d) : e.symbol = <<v>>
      PROVE  HasRegister(d, v, Address(d, v))
  <2>1. IsTable(d.var_reg_table)
    BY <1>4 DEF Ready, CallOK
  <2>2. Address(d, v) # ABSENT
    BY <1>4, <2>1, AddressFacts
  <2>3. PICK e \in Entries(d) : e.symbol = <<v>> /\ e.address = Address(d, v)
    BY <2>1, <2>2, AddressFacts
  <2>4. Address(d, v) \in Registers
    BY <2>1, <2>2, AddressFacts
  <2>. QED  BY <1>4, <2>3, <2>4 DEF OneEntryEach, HasRegister
<1>5. CASE Address(c, v) # ABSENT
  <2>1. d = looked
    BY <1>5 DEF Declare, looked
  <2>2. EntryOf(t, <<v>>) # 0
    BY <1>5 DEF Address
  <2>3. \E e \in Entries(looked) : e.symbol = <<v>>
    BY <1>1, <1>3, <2>2, LookupFinds DEF Entries, EntriesOf
  <2>4. OneEntryEach(looked) /\ Ready(looked, {v})
    BY <1>3 DEF OneEntryEach, Ready, KeepBut
  <2>. HIDE DEF d
  <2>5. HasRegister(d, v, Address(d, v))
    BY <1>4, <2>1, <2>3, <2>4
  <2>. QED  BY <1>3, <2>1, <2>4, <2>5 DEF d
<1>6. CASE Address(c, v) = ABSENT /\ r = -1
  <2>1. d = Undefined(c)
    BY <1>6 DEF Declare
  <2>2. /\ Leads(c, d, {}) /\ d.status = "undefined"
    BY <1>1, <2>1, FailWorks DEF Undefined, Stop, Ready, CallOK, Fields
  <2>. HIDE DEF d
  <2>3. Ready(d, {v}) /\ OneEntryEach(d) /\ d.lines = c.lines /\ ~Compiling(d)
    BY <2>2 DEF Leads, Ready, KeepBut, OneEntryEach, Compiling
  <2>. QED  BY <2>2, <2>3 DEF d
<1>7. CASE Address(c, v) = ABSENT /\ r # -1
  <2>. DEFINE u == AfterInsert(looked.var_reg_table, <<v>>, r)
  <2>1. r \in c.free_reg_arr /\ r \in Registers
    BY <1>7, FirstFree DEF Ready
  <2>. HIDE DEF r
  <2>2. d = [Take(looked, r) EXCEPT
               !.var_reg_table = AfterInsert(@, <<v>>, r),
               !.kept = @ \cup {r}, !.exposed = @ \ {v}]
    BY <1>7 DEF Declare, looked, r
  <2>3. /\ DOMAIN d = Fields /\ d.status = "compiling" /\ d.lines = c.lines
        /\ d.free_reg_arr = c.free_reg_arr \ {r} /\ d.var_reg_table = u
        /\ d.kept = c.kept \cup {r} /\ d.exposed = c.exposed \ {v}
        /\ d.holds = c.holds /\ d.operands = c.operands /\ d.written = c.written
    BY <1>3, <2>2 DEF Take, Ready, CallOK, Fields
  <2>. HIDE DEF d
  <2>4. IsTable(looked.var_reg_table) /\ EntriesOf(looked.var_reg_table) = Entries(looked)
    BY <1>3 DEF Ready, CallOK, Entries, EntriesOf
  <2>5. /\ IsTable(u) /\ EntriesOf(u) \subseteq EntriesOf(looked.var_reg_table) \cup {new}
        /\ \E e \in EntriesOf(u) : e.symbol = <<v>>
    <3>. HIDE DEF new, u
    <3>1. IsTable(u) /\ EntriesOf(u) \subseteq EntriesOf(looked.var_reg_table) \cup {new}
      BY <2>1, <2>4, InsertAdds DEF u, new
    <3>2. \E e \in EntriesOf(u) : e.symbol = <<v>>
      BY <2>4, InsertFinds DEF u
    <3>. QED  BY <3>1, <3>2
  <2>. HIDE DEF u
  <2>6. /\ Entries(d) \subseteq Entries(c) \cup {new}
        /\ \E e \in Entries(d) : e.symbol = <<v>>
    BY <1>3, <2>3, <2>4, <2>5 DEF Entries, EntriesOf
  <2>7. new.symbol = <<v>> /\ new.address = r /\ new.symbol[1] = v
    OBVIOUS
  <2>. HIDE DEF new
  <2>8. \A e \in Entries(c) : e.symbol # <<v>>
    BY <1>1, <1>7, AddressFacts
  <2>9. \A e \in Entries(c) : e.symbol[1] # v
    BY <1>1, <2>8, EntriesTyped DEF Entries, EntriesOf
  <2>10. OneEntryEach(d)
    BY <2>6, <2>7, <2>8 DEF OneEntryEach
  <2>11. KeepBut(d, {v})
    BY <2>3, <2>6, <2>7, <2>9 DEF KeepBut, Ready
  <2>12. CallOK(d)
    BY <1>3, <2>1, <2>3, <2>5 DEF CallOK, Ready
  <2>13. HasRegister(d, v, Address(d, v))
    BY <1>4, <2>6, <2>10, <2>11, <2>12 DEF Ready
  <2>14. Registers \ c.free_reg_arr \subseteq c.kept => Registers \ d.free_reg_arr \subseteq d.kept
    BY <2>3
  <2>. QED  BY <2>3, <2>10, <2>11, <2>12, <2>13, <2>14 DEF Ready, d
<1>. QED  BY <1>5, <1>6, <1>7

\* The variable's register has its value, and nobody else's.
LEMMA AssignKeeps ==
  ASSUME NEW c, NEW v, Ready(c, {v}), NEW r, Compiling(c) => HasRegister(c, v, r)
  PROVE  LET d == Assign(c, v, r)
         IN  /\ CallOK(d) /\ d.status = c.status /\ d.lines = c.lines
             /\ Entries(d) = Entries(c)
             /\ d.operands = c.operands /\ d.kept = c.kept /\ d.free_reg_arr = c.free_reg_arr
             /\ Compiling(d) => KeepBut(d, {})
<1>. DEFINE d == Assign(c, v, r)
            stale == [q \in Registers |-> IF c.holds[q] = <<v>> THEN JUNK ELSE c.holds[q]]
<1>1. CASE ~Compiling(c)
  BY <1>1 DEF Assign, Ready
<1>2. CASE Compiling(c)
  <2>1. r \in Registers /\ \A e \in Entries(c) : e.symbol = <<v>> => e.address = r
    BY <1>2 DEF HasRegister
  <2>2. /\ DOMAIN d = Fields /\ d.status = c.status /\ d.lines = c.lines
        /\ d.free_reg_arr = c.free_reg_arr /\ d.var_reg_table = c.var_reg_table
        /\ d.kept = c.kept /\ d.operands = c.operands
        /\ d.exposed = c.exposed \cup (VariablesIn(c, {r}) \ {v})
        /\ d.holds = [stale EXCEPT ![r] = <<v>>]
        /\ d.written = c.written \cup {r}
    BY <1>2 DEF Assign, Write, Ready, CallOK, Fields
  <2>. HIDE DEF d
  <2>3. Entries(d) = Entries(c)
    BY <2>2 DEF Entries
  <2>4. \A e \in Entries(c) : e.address \in Registers /\ e.symbol = <<e.symbol[1]>>
    BY EntriesTyped DEF Entries, EntriesOf, Ready, CallOK
  <2>5. DOMAIN d.holds = Registers /\ d.holds[r] = <<v>>
    BY <2>1, <2>2
  <2>6. \A q \in Registers : q # r => d.holds[q] = IF c.holds[q] = <<v>> THEN JUNK ELSE c.holds[q]
    BY <2>2
  <2>7. CallOK(d)
    BY <2>1, <2>2, <2>5 DEF Ready, CallOK
  <2>8. ASSUME NEW e \in Entries(c), e.symbol[1] \notin d.exposed
        PROVE  e.address \notin d.free_reg_arr /\ d.holds[e.address] = e.symbol
    <3>1. e.symbol[1] \notin c.exposed /\ (e.address = r => e.symbol[1] = v)
      <4>1. e.address = r => e.symbol[1] \in VariablesIn(c, {r})
        BY DEF VariablesIn
      <4>. QED  BY <2>2, <2>8, <4>1
    <3>2. e.address \notin d.free_reg_arr
      BY <2>2, <3>1 DEF Ready, KeepBut
    <3>3. CASE e.symbol[1] = v
      BY <2>1, <2>4, <2>5, <3>2, <3>3
    <3>4. CASE e.symbol[1] # v
      <4>1. c.holds[e.address] = e.symbol
        BY <3>1, <3>4 DEF Ready, KeepBut
      <4>2. e.symbol # <<v>> /\ e.address # r /\ e.address \in Registers
        BY <2>4, <3>1, <3>4
      <4>. QED  BY <2>6, <3>2, <4>1, <4>2
    <3>. QED  BY <3>3, <3>4
  <2>9. KeepBut(d, {})
    BY <2>3, <2>8 DEF KeepBut
  <2>. QED  BY <2>2, <2>3, <2>7, <2>9 DEF d
<1>. QED  BY <1>1, <1>2

(***************************************************************************)
(* Lines                                                                   *)
(***************************************************************************)
\* What is true of the call that compiles, between its lines.
BetweenLines(c) ==
  /\ CallOK(c)
  /\ OneEntryEach(c)
  /\ c.lines \in Seq(BasicLines)
  /\ c.operands = <<>>
  /\ c.status \in {"compiling", "done"} => KeepBut(c, {})
  /\ Compiling(c) => Registers \ c.free_reg_arr \subseteq c.kept

\* What is true of it at the end of a line, where its operands are forgotten.
LineIsCompiled(c) ==
  /\ CallOK(c)
  /\ OneEntryEach(c)
  /\ c.lines \in Seq(BasicLines) /\ c.lines # <<>>
  /\ c.status # "done"
  /\ Compiling(c) => KeepBut(c, {}) /\ Registers \ c.free_reg_arr \subseteq c.kept

LEMMA EndLineFacts ==
  ASSUME NEW c, CallOK(c), c.lines \in Seq(BasicLines), c.lines # <<>>
  PROVE  LET d == EndLine(c)
         IN  /\ CallOK(d) /\ d.status = c.status /\ d.lines \in Seq(BasicLines)
             /\ d.operands = <<>> /\ Entries(d) = Entries(c)
             /\ d.free_reg_arr = c.free_reg_arr /\ d.kept = c.kept /\ d.exposed = c.exposed
             /\ KeepBut(c, {}) => KeepBut(d, {})
<1>. DEFINE d == EndLine(c)
            ends == [r \in Registers |-> IF Len(c.holds[r]) = 1 THEN c.holds[r] ELSE JUNK]
<1>1. /\ DOMAIN d = Fields /\ d.status = c.status /\ d.lines = Tail(c.lines)
      /\ d.free_reg_arr = c.free_reg_arr /\ d.var_reg_table = c.var_reg_table
      /\ d.kept = c.kept /\ d.operands = <<>> /\ d.exposed = c.exposed
      /\ d.written = c.written /\ d.holds = ends
  BY DEF EndLine, CallOK, Fields
<1>. HIDE DEF d
<1>2. Entries(d) = Entries(c)
  BY <1>1 DEF Entries
<1>3. d.lines \in Seq(BasicLines)
  BY <1>1, HeadTailProperties
<1>4. <<>> \in Seq({})
  OBVIOUS
<1>5. CallOK(d)
  BY <1>1, <1>4 DEF CallOK, IsSequence
<1>6. \A e \in Entries(c) : e.address \in Registers /\ e.symbol = <<e.symbol[1]>>
  BY EntriesTyped DEF Entries, EntriesOf, CallOK
<1>7. ASSUME NEW e \in Entries(c), c.holds[e.address] = e.symbol
      PROVE  d.holds[e.address] = e.symbol
  <2>1. e.address \in Registers /\ e.symbol = <<e.symbol[1]>>
    BY <1>6
  <2>2. Len(e.symbol) = 1
    <3>1. \A x : Len(<<x>>) = 1
      OBVIOUS
    <3>. QED  BY <2>1, <3>1
  <2>3. ends[e.address] = e.symbol
    BY <1>7, <2>1, <2>2
  <2>. QED  BY <1>1, <2>3
<1>8. KeepBut(c, {}) => KeepBut(d, {})
  BY <1>1, <1>2, <1>7 DEF KeepBut
<1>. QED  BY <1>1, <1>2, <1>3, <1>5, <1>8 DEF d

LEMMA LineEnds ==
  ASSUME NEW c, LineIsCompiled(c)
  PROVE  BetweenLines(EndLine(c))
<1>. DEFINE d == EndLine(c)
<1>1. /\ CallOK(d) /\ d.status = c.status /\ d.lines \in Seq(BasicLines)
      /\ d.operands = <<>> /\ Entries(d) = Entries(c)
      /\ d.free_reg_arr = c.free_reg_arr /\ d.kept = c.kept
      /\ KeepBut(c, {}) => KeepBut(d, {})
  BY EndLineFacts DEF LineIsCompiled
<1>. HIDE DEF d
<1>2. BetweenLines(d)
  BY <1>1 DEF BetweenLines, LineIsCompiled, OneEntryEach, Compiling
<1>. QED  BY <1>2 DEF d

\* What a line starts from.
LineStarts(c) ==
  /\ BetweenLines(c)
  /\ Compiling(c)
  /\ c.lines # <<>>

LEMMA LineStartsReady ==
  ASSUME NEW c, LineStarts(c)
  PROVE  /\ Ready(c, {})
         /\ Piles(c, 0, 0, c.kept, c.kept)
         /\ LineIsCompiled(c)
         /\ OneEntryEach(c)
         /\ Registers \ c.free_reg_arr \subseteq c.kept
         /\ /\ Len(Head(c.lines).left) \in Nat
            /\ Len(Head(c.lines).right) \in Nat
            /\ Head(c.lines).command \in Seq(BasicLines)
<1>1. Ready(c, {}) /\ LineIsCompiled(c)
  BY DEF LineStarts, BetweenLines, Ready, Compiling, LineIsCompiled
<1>2. Registers \ c.free_reg_arr \subseteq c.kept /\ c.operands = <<>>
  BY DEF LineStarts, BetweenLines
<1>3. Len(<<>>) = 0
  OBVIOUS
<1>4. Piles(c, 0, 0, c.kept, c.kept)
  BY <1>2, <1>3 DEF Piles
<1>5. Head(c.lines) \in BasicLines
  BY HeadTailProperties DEF LineStarts, BetweenLines
<1>6. /\ Head(c.lines).left \in Seq(STRING) /\ Head(c.lines).right \in Seq(STRING)
      /\ Head(c.lines).command \in Seq(BasicLines)
  BY <1>5, ProgramsAssumption
<1>. QED  BY <1>1, <1>2, <1>4, <1>6 DEF LineStarts, BetweenLines

\* Where a line's code leads, if it takes no register for good.
LEMMA LineLeads ==
  ASSUME NEW c, LineStarts(c), NEW d, Leads(c, d, {}),
         Compiling(d) => Registers \ d.free_reg_arr \subseteq d.kept
  PROVE  LineIsCompiled(d)
BY DEF LineStarts, BetweenLines, LineIsCompiled, Leads, OneEntryEach, Compiling

LEMMA LineWorks ==
  ASSUME NEW c, LineStarts(c), NEW d, Works(c, d, {}) \/ Yields1(c, d, {})
  PROVE  LineIsCompiled(d)
<1>1. Registers \ c.free_reg_arr \subseteq c.kept
  BY LineStartsReady
<1>. QED  BY <1>1, LineLeads DEF Works, Yields1

\* An expression at the start of a line frees what it takes.
LEMMA LineEvaluates ==
  ASSUME NEW c, LineStarts(c), NEW tokens, Len(tokens) \in Nat, NEW ends_line
  PROVE  LET d == Eval(c, tokens, ends_line)
         IN  /\ Leads(c, d, {})
             /\ Compiling(d) => /\ Registers \ d.free_reg_arr \subseteq d.kept
                                /\ Len(d.operands) = 1
<1>. DEFINE d == Eval(c, tokens, ends_line)
<1>1. Ready(c, {}) /\ Piles(c, 0, 0, c.kept, c.kept)
  BY LineStartsReady
<1>2. Leads(c, d, {})
  BY <1>1, EvalLeads
<1>3. Compiling(d) => Piles(d, 0, 1, c.kept, c.kept)
  BY <1>1, EvalPiles
<1>. HIDE DEF d
<1>4. Pending(d, 0, 1) = {}
  BY DEF Pending
<1>5. Compiling(d) => Registers \ d.free_reg_arr \subseteq d.kept /\ Len(d.operands) = 1
  BY <1>3, <1>4 DEF Piles
<1>. QED  BY <1>2, <1>5 DEF d

LEMMA LineAlike ==
  ASSUME NEW c, LineIsCompiled(c), NEW d, Alike(c, d)
  PROVE  LineIsCompiled(d)
BY DEF LineIsCompiled, Alike, CallOK, OneEntryEach, KeepBut, Entries, Compiling

LEMMA LineScratch ==
  ASSUME NEW c, LineIsCompiled(c), NEW value
  PROVE  LineIsCompiled(Scratch(c, value))
<1>. DEFINE d == Scratch(c, value)
<1>1. CASE Compiling(c)
  <2>1. Works(c, d, {})
    BY <1>1, ScratchWorks DEF LineIsCompiled, Ready
  <2>. QED  BY <1>1, <2>1 DEF LineIsCompiled, Works, Leads, OneEntryEach, Compiling
<1>2. CASE ~Compiling(c)
  BY <1>2 DEF Scratch, Undefined, Stop
<1>. QED  BY <1>1, <1>2

\* A line that gives its variable a value.
LEMMA LineAssigns ==
  ASSUME NEW c, LineStarts(c), NEW v, NEW d, Leads(Declare(c, v), d, {v}),
         Compiling(d) => Registers \ d.free_reg_arr \subseteq d.kept
  PROVE  LineIsCompiled(Assign(d, v, Address(Declare(c, v), v)))
<1>. DEFINE declared == Declare(c, v)
            r == Address(declared, v)
            e == Assign(d, v, r)
<1>1. Ready(c, {}) /\ OneEntryEach(c) /\ Compiling(c)
  BY LineStartsReady DEF LineStarts
<1>2. /\ OneEntryEach(declared) /\ declared.lines = c.lines
      /\ declared.status \in {"compiling", "undefined"}
      /\ Compiling(declared) => HasRegister(declared, v, r)
  BY <1>1, DeclareLeads
<1>. HIDE DEF declared
<1>3. /\ Ready(d, {v}) /\ Entries(d) \subseteq Entries(declared)
      /\ d.lines = c.lines /\ d.status \in {declared.status, "failed", "undefined"}
  BY <1>2, LeadsOn DEF Leads, declared
<1>4. Compiling(d) => Compiling(declared)
  BY <1>3 DEF Compiling
<1>5. Compiling(d) => HasRegister(d, v, r)
  BY <1>2, <1>3, <1>4 DEF HasRegister
<1>. HIDE DEF r
<1>6. /\ CallOK(e) /\ e.status = d.status /\ e.lines = d.lines
      /\ Entries(e) = Entries(d) /\ e.kept = d.kept /\ e.free_reg_arr = d.free_reg_arr
      /\ Compiling(e) => KeepBut(e, {})
  BY <1>3, <1>5, AssignKeeps
<1>. HIDE DEF e
<1>7. OneEntryEach(e)
  BY <1>2, <1>3, <1>6 DEF OneEntryEach
<1>8. e.lines \in Seq(BasicLines) /\ e.lines # <<>> /\ e.status # "done"
  BY <1>2, <1>3, <1>6 DEF LineStarts, BetweenLines
<1>9. LineIsCompiled(e)
  BY <1>6, <1>7, <1>8 DEF LineIsCompiled, Compiling
<1>. QED  BY <1>9 DEF e, r, declared

LEMMA DeclaredStarts ==
  ASSUME NEW c, LineStarts(c), NEW v
  PROVE  LET d == Declare(c, v)
         IN  /\ Ready(d, {v})
             /\ Compiling(d) => /\ Registers \ d.free_reg_arr \subseteq d.kept
                                /\ Piles(d, 0, 0, d.kept, d.kept)
<1>. DEFINE d == Declare(c, v)
<1>1. /\ Ready(c, {}) /\ OneEntryEach(c) /\ Compiling(c) /\ c.operands = <<>>
      /\ Registers \ c.free_reg_arr \subseteq c.kept
  BY LineStartsReady DEF LineStarts, BetweenLines
<1>2. /\ Ready(d, {v})
      /\ Compiling(d) => /\ d.operands = <<>>
                         /\ Registers \ d.free_reg_arr \subseteq d.kept
  BY <1>1, DeclareLeads
<1>3. Len(<<>>) = 0
  OBVIOUS
<1>. HIDE DEF d
<1>4. Compiling(d) => Piles(d, 0, 0, d.kept, d.kept)
  BY <1>2, <1>3 DEF Piles
<1>. QED  BY <1>2, <1>4 DEF d

(***************************************************************************)
(* Conditions                                                              *)
(***************************************************************************)
\* The left side's register is free again after the right side.
LEMMA ComparedLeads ==
  ASSUME NEW c, LineStarts(c), NEW left, Len(left) \in Nat, NEW right, Len(right) \in Nat
  PROVE  LET start == Eval(c, left, FALSE)
             r     == LastOperand(start).n
             d     == IF ~Compiling(start) THEN start
                      ELSE IF r \notin Registers THEN Undefined(start)
                      ELSE Release(Eval(Take(start, r), right, FALSE), r)
         IN  /\ Leads(c, d, {})
             /\ Compiling(d) => Registers \ d.free_reg_arr \subseteq d.kept
<1>. DEFINE start == Eval(c, left, FALSE)
            r == LastOperand(start).n
            taken == Take(start, r)
            both == Eval(taken, right, FALSE)
            last == Release(both, r)
<1>1. /\ Leads(c, start, {})
      /\ Compiling(start) => /\ Registers \ start.free_reg_arr \subseteq start.kept
                             /\ Len(start.operands) = 1
  BY LineEvaluates
<1>2. Ready(start, {})
  BY <1>1, LeadsOn
<1>. HIDE DEF start, r
<1>3. /\ Leads(start, taken, {})
      /\ Has(taken, start.free_reg_arr \ {r}, start.kept, start.operands)
  BY <1>2, TakeKeeps, Effects DEF Ready
<1>. HIDE DEF taken
<1>4. Ready(taken, {}) /\ Leads(c, taken, {})
  BY <1>1, <1>3, LeadsOn
<1>5. Compiling(taken) => Piles(taken, 1, 0, start.kept, start.kept \cup {r})
  <2>1. Compiling(taken) => Compiling(start)
    BY <1>3, CompiledBefore
  <2>. QED  BY <1>1, <1>3, <2>1 DEF Has, Piles
<1>6. Leads(taken, both, {})
  BY <1>4, EvalLeads
<1>7. Compiling(both) => Piles(both, 1, 1, start.kept, start.kept \cup {r})
  <2>1. Compiling(both) => Compiling(taken)
    BY <1>6, CompiledBefore
  <2>. QED  BY <1>4, <1>5, <2>1, EvalPiles
<1>. HIDE DEF both
<1>8. Ready(both, {}) /\ Leads(c, both, {})
  BY <1>4, <1>6, LeadsOn
<1>9. /\ Leads(both, last, {})
      /\ Has(last, both.free_reg_arr \cup {r}, both.kept, both.operands)
  BY <1>8, ReleaseKeeps, Effects DEF Ready
<1>. HIDE DEF last
<1>10. Leads(c, last, {})
  BY <1>8, <1>9, LeadsOn
<1>11. Compiling(last) => Registers \ last.free_reg_arr \subseteq last.kept
  <2>1. Compiling(last) => Compiling(both)
    BY <1>9, CompiledBefore
  <2>2. Pending(both, 1, 1) = {}
    BY DEF Pending
  <2>. QED  BY <1>7, <1>9, <2>1, <2>2 DEF Has, Piles
<1>12. Leads(c, Undefined(start), {}) /\ ~Compiling(Undefined(start))
  BY <1>1, <1>2, FailWorks, LeadsOn
<1>. QED  BY <1>1, <1>10, <1>11, <1>12 DEF last, both, taken, r, start

\* Registers that belong to no variable.
Unclaimed(c, R) ==
  R \subseteq Registers /\ \A e \in Entries(c) : e.symbol[1] \notin c.exposed => e.address \notin R

LEMMA StringOperandLeads ==
  ASSUME NEW c, Ready(c, {}), Registers \ c.free_reg_arr \subseteq c.kept, NEW s
  PROVE  LET d == StringOperand(c, s)
         IN  /\ Leads(c, d, {})
             /\ Compiling(d) => /\ Registers \ d.free_reg_arr \subseteq d.kept
                                /\ \E o : d.operands = Append(c.operands, o)
<1>. DEFINE d == StringOperand(c, s)
            r == first_free_reg(c)
<1>1. CASE ~Compiling(c)
  BY <1>1 DEF StringOperand, Leads, Ready
<1>2. CASE Compiling(c) /\ s \in StringVariables
  <2>1. Yields1(c, d, {})
    BY <1>2, EvalVariableYields DEF StringOperand
  <2>. QED  BY <2>1 DEF Yields1
<1>3. CASE Compiling(c) /\ s \notin StringVariables /\ c.free_reg_arr = {}
  BY <1>3, FailWorks DEF StringOperand
<1>4. CASE Compiling(c) /\ s \notin StringVariables /\ c.free_reg_arr # {}
  <2>. DEFINE e == [Take(c, r) EXCEPT !.kept = @ \cup {r}]
  <2>1. r \in c.free_reg_arr /\ r \in Registers
    BY <1>4, FirstFree DEF Ready
  <2>. HIDE DEF r
  <2>2. d = PushOperand(e, Reg(r))
    BY <1>4 DEF StringOperand, r
  <2>3. /\ DOMAIN e = Fields /\ e.status = c.status /\ e.lines = c.lines
        /\ e.free_reg_arr = c.free_reg_arr \ {r} /\ e.var_reg_table = c.var_reg_table
        /\ e.kept = c.kept \cup {r} /\ e.operands = c.operands
        /\ e.exposed = c.exposed /\ e.holds = c.holds /\ e.written = c.written
    BY DEF Take, Ready, CallOK, Fields
  <2>. HIDE DEF e
  <2>4. Leads(c, e, {})
    BY <2>1, <2>3 DEF Leads, Ready, CallOK, KeepBut, Entries
  <2>5. Ready(e, {})
    BY <2>4, LeadsOn
  <2>6. Yields1(e, d, {})
    BY <2>2, <2>5, PushYields
  <2>7. Leads(c, d, {})
    BY <2>4, <2>6, LeadsOn DEF Yields1
  <2>. HIDE DEF d
  <2>8. Compiling(d) => /\ Registers \ d.free_reg_arr \subseteq d.kept
                        /\ \E o : d.operands = Append(c.operands, o)
    BY <2>3, <2>6 DEF Yields1
  <2>. QED  BY <2>7, <2>8 DEF d
<1>. QED  BY <1>1, <1>2, <1>3, <1>4

LEMMA TakeScratchLeads ==
  ASSUME NEW c, Ready(c, {})
  PROVE  LET d == TakeScratch(c)
             r == first_free_reg(c)
         IN  /\ Leads(c, d, {})
             /\ Compiling(d) =>
                  /\ d.operands = Append(c.operands, Reg(r))
                  /\ d.free_reg_arr = c.free_reg_arr \ {r} /\ d.kept = c.kept
                  /\ d.exposed = c.exposed
                  /\ Unclaimed(d, {r})
<1>. DEFINE r == first_free_reg(c)
            e == ScratchTaken(c, JUNK)
            d == PushOperand(e, Reg(r))
<1>1. Leads(c, e, {}) /\ Has(e, c.free_reg_arr \ {r}, c.kept, c.operands)
  BY ScratchKeeps, Effects DEF Ready
<1>2. Compiling(e) => r \in c.free_reg_arr /\ r \in Registers
  <2>1. c.free_reg_arr = {} => ~Compiling(e)
    <3>1. c.free_reg_arr = {} => Scratch(c, JUNK) = Undefined(c)
      BY DEF Scratch
    <3>2. DOMAIN Undefined(c) = Fields /\ ~Compiling(Undefined(c))
      BY FailWorks DEF Undefined, Stop, Ready, CallOK, Fields
    <3>3. ~Compiling(Take(Undefined(c), r))
      BY <3>2 DEF Take, Compiling, Fields
    <3>. QED  BY <3>1, <3>3 DEF ScratchTaken
  <2>. QED  BY <2>1, FirstFree DEF Ready
<1>3. e.exposed = c.exposed
  BY DEF ScratchTaken, Take, Scratch, Write, Undefined, Stop, Ready, CallOK, Fields
<1>. HIDE DEF e, r
<1>4. Ready(e, {})
  BY <1>1, LeadsOn
<1>5. Leads(e, d, {}) /\ Has(d, e.free_reg_arr, e.kept, Append(e.operands, Reg(r)))
  <2>1. Has(PushOperand(e, Reg(r)), e.free_reg_arr, e.kept, Append(e.operands, Reg(r)))
    BY <1>4, Effects DEF Ready
  <2>. QED  BY <1>4, <2>1, PushKeeps
<1>6. d.exposed = e.exposed
  BY DEF PushOperand
<1>. HIDE DEF d
<1>7. Leads(c, d, {})
  BY <1>1, <1>5, LeadsOn
<1>8. Compiling(d) => Compiling(e)
  BY <1>5, CompiledBefore
<1>9. Compiling(d) => Unclaimed(d, {r})
  <2>1. Entries(d) \subseteq Entries(c)
    BY <1>7 DEF Leads
  <2>. QED  BY <1>2, <1>3, <1>6, <1>8, <2>1 DEF Unclaimed, Ready, KeepBut
<1>10. Compiling(d) => /\ d.operands = Append(c.operands, Reg(r))
                       /\ d.free_reg_arr = c.free_reg_arr \ {r} /\ d.kept = c.kept
                       /\ d.exposed = c.exposed
  BY <1>1, <1>3, <1>5, <1>6, <1>8 DEF Has
<1>. QED  BY <1>7, <1>9, <1>10 DEF TakeScratch, d, e, r

\* The first places of a stack.
LEMMA PlacesOf ==
  ASSUME NEW s, IsSequence(s), NEW o, NEW t, t = Append(s, o)
  PROVE  /\ Len(s) = 0 => Len(t) = 1
         /\ Len(s) = 1 => Len(t) = 2
         /\ Len(s) = 2 => Len(t) = 3 /\ t[3] = o
         /\ Len(s) = 3 => Len(t) = 4 /\ t[4] = o /\ t[3] = s[3]
         /\ Len(s) = 4 => t[5] = o /\ t[3] = s[3] /\ t[4] = s[4]
<1>. DEFINE n == Len(s)
<1>1. /\ n \in Nat /\ Len(t) = n + 1
      /\ \A i \in 1 .. n : t[i] = s[i]
      /\ t[n + 1] = o
  BY LongerSequence
<1>. HIDE DEF n
<1>2. (n = 0 => Len(t) = 1) /\ (n = 1 => Len(t) = 2)
  BY <1>1
<1>3. n = 2 => Len(t) = 3 /\ t[3] = o
  <2>1. n = 2 => n + 1 = 3
    OBVIOUS
  <2>. QED  BY <1>1, <2>1
<1>4. n = 3 => Len(t) = 4 /\ t[4] = o /\ t[3] = s[3]
  <2>1. n = 3 => n + 1 = 4 /\ 3 \in 1 .. n
    OBVIOUS
  <2>. QED  BY <1>1, <2>1
<1>5. n = 4 => t[5] = o /\ t[3] = s[3] /\ t[4] = s[4]
  <2>1. n = 4 => n + 1 = 5 /\ 3 \in 1 .. n /\ 4 \in 1 .. n
    OBVIOUS
  <2>. QED  BY <1>1, <2>1
<1>. QED  BY <1>2, <1>3, <1>4, <1>5 DEF n

LEMMA UnclaimedStays ==
  ASSUME NEW c, NEW d, Entries(d) \subseteq Entries(c), d.exposed = c.exposed,
         NEW R, Unclaimed(c, R)
  PROVE  Unclaimed(d, R)
BY DEF Unclaimed

\* The three scratch registers of a comparison of strings are operands 3 to 5.
LEMMA StringsComparedLeads ==
  ASSUME LineStarts(compiler)
  PROVE  LET d == StringsCompared
             R == {d.operands[i].n : i \in 3 .. 5}
         IN  /\ Leads(compiler, d, {})
             /\ Compiling(d) => /\ Unclaimed(d, R)
                                /\ Registers \ d.free_reg_arr \subseteq d.kept \cup R
<1>. DEFINE c1 == StringOperand(compiler, line.left[1])
            c2 == StringOperand(c1, line.right[1])
            c3 == TakeScratch(c2)
            c4 == TakeScratch(c3)
            d == TakeScratch(c4)
            r3 == first_free_reg(c2)
            r4 == first_free_reg(c3)
            r5 == first_free_reg(c4)
            R == {d.operands[i].n : i \in 3 .. 5}
<1>1. /\ Ready(compiler, {}) /\ compiler.operands = <<>>
      /\ Registers \ compiler.free_reg_arr \subseteq compiler.kept
  BY LineStartsReady DEF LineStarts, BetweenLines
<1>2. CASE {line.left[1], line.right[1]} \cap StringVariables = {}
  BY <1>1, <1>2, FailWorks DEF StringsCompared, Works
<1>3. CASE ~({line.left[1], line.right[1]} \cap StringVariables = {})
  <2>1. StringsCompared = d
    BY <1>3 DEF StringsCompared
  <2>2. /\ Leads(compiler, c1, {})
        /\ Compiling(c1) => /\ Registers \ c1.free_reg_arr \subseteq c1.kept
                            /\ \E o : c1.operands = Append(compiler.operands, o)
    BY <1>1, StringOperandLeads
  <2>. HIDE DEF c1
  <2>3. Ready(c1, {})
    BY <2>2, LeadsOn
  <2>4. /\ Leads(c1, c2, {})
        /\ Compiling(c2) => /\ Compiling(c1)
                            /\ Registers \ c2.free_reg_arr \subseteq c2.kept
                            /\ \E o : c2.operands = Append(c1.operands, o)
    <3>1. CASE Compiling(c1)
      <4>1. /\ Leads(c1, c2, {})
            /\ Compiling(c2) => /\ Registers \ c2.free_reg_arr \subseteq c2.kept
                                /\ \E o : c2.operands = Append(c1.operands, o)
        BY <2>2, <2>3, <3>1, StringOperandLeads
      <4>. QED  BY <3>1, <4>1
    <3>2. CASE ~Compiling(c1)
      BY <2>3, <3>2 DEF StringOperand, Leads, Ready
    <3>. QED  BY <3>1, <3>2
  <2>. HIDE DEF c2
  <2>5. Ready(c2, {}) /\ Leads(compiler, c2, {})
    BY <2>2, <2>4, LeadsOn
  <2>6. Compiling(c2) => Len(c2.operands) = 2
    <3>1. IsSequence(c1.operands) /\ IsSequence(compiler.operands)
      BY <1>1, <2>3 DEF Ready, CallOK
    <3>2. Len(compiler.operands) = 0
      BY <1>1
    <3>3. Compiling(c2) => Len(c1.operands) = 1
      BY <2>2, <2>4, <3>1, <3>2, PlacesOf
    <3>. QED  BY <2>4, <3>1, <3>3, PlacesOf
  <2>7. /\ Leads(c2, c3, {})
        /\ Compiling(c3) => /\ c3.operands = Append(c2.operands, Reg(r3))
                            /\ c3.free_reg_arr = c2.free_reg_arr \ {r3} /\ c3.kept = c2.kept
                            /\ c3.exposed = c2.exposed
                            /\ Unclaimed(c3, {r3})
    BY <2>5, TakeScratchLeads
  <2>. HIDE DEF c3, r3
  <2>8. Ready(c3, {}) /\ Leads(compiler, c3, {})
    BY <2>5, <2>7, LeadsOn
  <2>9. /\ Leads(c3, c4, {})
        /\ Compiling(c4) => /\ c4.operands = Append(c3.operands, Reg(r4))
                            /\ c4.free_reg_arr = c3.free_reg_arr \ {r4} /\ c4.kept = c3.kept
                            /\ c4.exposed = c3.exposed
                            /\ Unclaimed(c4, {r4})
    BY <2>8, TakeScratchLeads
  <2>. HIDE DEF c4, r4
  <2>10. Ready(c4, {}) /\ Leads(compiler, c4, {})
    BY <2>8, <2>9, LeadsOn
  <2>11. /\ Leads(c4, d, {})
         /\ Compiling(d) => /\ d.operands = Append(c4.operands, Reg(r5))
                            /\ d.free_reg_arr = c4.free_reg_arr \ {r5} /\ d.kept = c4.kept
                            /\ d.exposed = c4.exposed
                            /\ Unclaimed(d, {r5})
    BY <2>10, TakeScratchLeads
  <2>. HIDE DEF d, r5
  <2>12. Leads(compiler, d, {})
    BY <2>10, <2>11, LeadsOn
  <2>13. ASSUME Compiling(d)
         PROVE  /\ Unclaimed(d, R)
                /\ Registers \ d.free_reg_arr \subseteq d.kept \cup R
    <3>1. Compiling(c4) /\ Compiling(c3) /\ Compiling(c2)
      BY <2>7, <2>9, <2>11, <2>13, CompiledBefore
    <3>2. IsSequence(c3.operands) /\ IsSequence(c4.operands) /\ IsSequence(c2.operands)
      BY <2>5, <2>8, <2>10 DEF Ready, CallOK
    <3>3. Len(c2.operands) = 2
      BY <2>6, <3>1
    <3>4. Len(c3.operands) = 3 /\ c3.operands[3] = Reg(r3)
      BY <2>7, <3>1, <3>2, <3>3, PlacesOf
    <3>5. Len(c4.operands) = 4 /\ c4.operands[3] = Reg(r3) /\ c4.operands[4] = Reg(r4)
      BY <2>9, <3>1, <3>2, <3>4, PlacesOf
    <3>6. /\ d.operands[3] = Reg(r3) /\ d.operands[4] = Reg(r4)
          /\ d.operands[5] = Reg(r5)
      <4>1. d.operands = Append(c4.operands, Reg(r5))
        BY <2>11, <2>13
      <4>2. /\ d.operands[5] = Reg(r5) /\ d.operands[3] = c4.operands[3]
            /\ d.operands[4] = c4.operands[4]
        <5>. DEFINE s == c4.operands
                    t == d.operands
                    o == Reg(r5)
        <5>1. IsSequence(s) /\ Len(s) = 4 /\ t = Append(s, o)
          BY <3>2, <3>5, <4>1
        <5>. HIDE DEF s, t, o
        <5>2. t[5] = o /\ t[3] = s[3] /\ t[4] = s[4]
          BY <5>1, PlacesOf
        <5>. QED  BY <5>2 DEF s, t, o
      <4>. QED  BY <3>5, <4>2
    <3>7. \A r : Reg(r).n = r
      BY DEF Reg
    <3>8. R = {r3, r4, r5}
      <4>1. 3 .. 5 = {3, 4, 5}
        OBVIOUS
      <4>2. d.operands[3].n = r3 /\ d.operands[4].n = r4 /\ d.operands[5].n = r5
        BY <3>6, <3>7
      <4>. QED  BY <4>1, <4>2
    <3>. HIDE DEF R
    <3>9. Entries(d) \subseteq Entries(c4) /\ Entries(c4) \subseteq Entries(c3)
      BY <2>9, <2>11 DEF Leads
    <3>10. Unclaimed(d, {r3}) /\ Unclaimed(d, {r4}) /\ Unclaimed(d, {r5})
      <4>1. Unclaimed(c4, {r3})
        BY <2>7, <2>9, <3>1, <3>9, UnclaimedStays
      <4>. QED  BY <2>9, <2>11, <2>13, <3>1, <3>9, <4>1, UnclaimedStays
    <3>11. Unclaimed(d, R)
      BY <3>8, <3>10 DEF Unclaimed
    <3>12. Registers \ d.free_reg_arr \subseteq d.kept \cup R
      BY <2>4, <2>7, <2>9, <2>11, <2>13, <3>1, <3>8
    <3>. QED  BY <3>11, <3>12
  <2>. QED  BY <2>1, <2>12, <2>13
<1>. QED  BY <1>2, <1>3

(***************************************************************************)
(* The invariant                                                           *)
(***************************************************************************)
\* What is true of a call that waits for its IF's command.
Waiting(w) ==
  /\ CallOK(w.call)
  /\ OneEntryEach(w.call)
  /\ w.call.lines \in Seq(BasicLines)
  /\ w.call.operands = <<>>
  /\ w.call.status = "compiling"
  /\ KeepBut(w.call, {})
  /\ Unclaimed(w.call, w.ending.scratch)
  /\ Registers \ w.call.free_reg_arr \subseteq w.call.kept \cup w.ending.scratch

IInv ==
  /\ BetweenLines(compiler)
  /\ IsSequence(callers)
  /\ \A i \in 1 .. Len(callers) : Waiting(callers[i])
  /\ compiler.status = "done" => callers = <<>>

LEMMA InitIInv == Init => IInv
<1>. SUFFICES ASSUME Init PROVE IInv
  OBVIOUS
<1>1. PICK program \in Programs : compiler = Call(program, Outermost)
  BY DEF Init
<1>2. program \in Seq(BasicLines)
  BY ProgramsAssumption
<1>3. /\ compiler.lines = program /\ compiler.operands = <<>>
      /\ compiler.var_reg_table = <<>> /\ compiler.free_reg_arr = Registers
  BY <1>1 DEF Call
<1>4. CallOK(compiler)
  BY <1>1, CallTyped
<1>5. Entries(compiler) = {}
  BY <1>3 DEF Entries
<1>6. BetweenLines(compiler)
  BY <1>2, <1>3, <1>4, <1>5 DEF BetweenLines, OneEntryEach, KeepBut
<1>7. callers = <<>> /\ <<>> \in Seq({}) /\ Len(<<>>) = 0
  BY DEF Init
<1>. QED  BY <1>6, <1>7 DEF IInv, IsSequence

LEMMA LineReads ==
  ASSUME IInv, NEW kind, Reading(kind)
  PROVE  LineStarts(compiler) /\ line = Head(compiler.lines)
BY DEF IInv, Reading, LineStarts, line

LEMMA GoesOn ==
  ASSUME IInv, NEW d, LineIsCompiled(d), compiler' = EndLine(d), callers' = callers
  PROVE  IInv'
<1>1. BetweenLines(EndLine(d))
  BY LineEnds
<1>2. EndLine(d).status # "done"
  BY EndLineFacts DEF LineIsCompiled
<1>. QED  BY <1>1, <1>2 DEF IInv

LEMMA LetNumberKeeps ==
  ASSUME IInv, LetNumber
  PROVE  IInv'
<1>. DEFINE v == line.variable
            declared == Declare(compiler, v)
            c == Eval(declared, line.left, TRUE)
<1>1. LineStarts(compiler) /\ line = Head(compiler.lines)
  BY LineReads DEF LetNumber
<1>2. compiler' = EndLine(Assign(c, v, Address(declared, v))) /\ callers' = callers
  BY DEF LetNumber, Declared, Target
<1>3. Len(line.left) \in Nat
  BY <1>1, LineStartsReady
<1>4. /\ Ready(declared, {v})
      /\ Compiling(declared) => Piles(declared, 0, 0, declared.kept, declared.kept)
  BY <1>1, DeclaredStarts
<1>5. Leads(declared, c, {v})
  BY <1>3, <1>4, EvalLeads
<1>6. Compiling(c) => Registers \ c.free_reg_arr \subseteq c.kept
  <2>1. Compiling(c) => Compiling(declared)
    BY <1>5, CompiledBefore
  <2>2. Compiling(c) => Piles(c, 0, 1, declared.kept, declared.kept)
    BY <1>3, <1>4, <2>1, EvalPiles
  <2>. HIDE DEF c
  <2>3. Pending(c, 0, 1) = {}
    BY DEF Pending
  <2>. QED  BY <2>2, <2>3 DEF Piles
<1>. HIDE DEF c, v
<1>7. LineIsCompiled(Assign(c, v, Address(declared, v)))
  BY <1>1, <1>5, <1>6, LineAssigns
<1>. QED  BY <1>2, <1>7, GoesOn

LEMMA LetStringKeeps ==
  ASSUME IInv, LetString
  PROVE  IInv'
<1>. DEFINE v == line.variable
            declared == Declare(compiler, v)
            c == store_string_literal_in_memory(declared, line.left[1])
<1>1. LineStarts(compiler)
  BY LineReads DEF LetString
<1>2. compiler' = EndLine(Assign(c, v, Address(declared, v))) /\ callers' = callers
  BY DEF LetString, Declared, Target
<1>3. /\ Ready(declared, {v})
      /\ Compiling(declared) => Registers \ declared.free_reg_arr \subseteq declared.kept
  BY <1>1, DeclaredStarts
<1>4. Works(declared, c, {v})
  BY <1>3, StringWorks
<1>. HIDE DEF c
<1>5. Leads(declared, c, {v}) /\ (Compiling(c) => Compiling(declared))
  BY <1>4, CompiledBefore DEF Works
<1>6. Compiling(c) => Registers \ c.free_reg_arr \subseteq c.kept
  BY <1>3, <1>4, <1>5 DEF Works
<1>. HIDE DEF v
<1>7. LineIsCompiled(Assign(c, v, Address(declared, v)))
  BY <1>1, <1>5, <1>6, LineAssigns
<1>. QED  BY <1>2, <1>7, GoesOn

\* The variable of an INPUT.
LEMMA InputIsCompiled ==
  ASSUME LineStarts(compiler)
  PROVE  LineIsCompiled(Assign(Declared, line.variable, Target))
<1>. DEFINE v == line.variable
            declared == Declare(compiler, v)
<1>1. /\ Ready(declared, {v})
      /\ Compiling(declared) => Registers \ declared.free_reg_arr \subseteq declared.kept
  BY DeclaredStarts
<1>. HIDE DEF v
<1>2. Leads(declared, declared, {v})
  BY <1>1 DEF Leads, Ready
<1>3. LineIsCompiled(Assign(declared, v, Address(declared, v)))
  BY <1>1, <1>2, LineAssigns
<1>. QED  BY <1>3 DEF Declared, Target, v

LEMMA InputKeeps ==
  ASSUME IInv, InputNumber \/ InputString
  PROVE  IInv'
<1>. DEFINE c == Assign(Declared, line.variable, Target)
<1>1. LineStarts(compiler)
  BY LineReads DEF InputNumber, InputString
<1>2. LineIsCompiled(c)
  BY <1>1, InputIsCompiled
<1>3. CASE InputNumber
  <2>1. compiler' = EndLine(c) /\ callers' = callers
    BY <1>3 DEF InputNumber
  <2>. HIDE DEF c
  <2>. QED  BY <1>2, <2>1, GoesOn
<1>4. CASE InputString
  <2>. DEFINE e == Scratch(c, JUNK)
              f == [e EXCEPT !.inp_branch_num = @ + 1, !.repeats = @ \/ callers # <<>>]
  <2>1. PICK code : compiler' = EndLine(Emit(f, code)) /\ callers' = callers
    BY <1>4 DEF InputString
  <2>. HIDE DEF c
  <2>2. LineIsCompiled(e)
    BY <1>2, LineScratch
  <2>. HIDE DEF e
  <2>3. LineIsCompiled(f)
    <3>1. Alike(e, f)
      BY <2>2 DEF Alike, LineIsCompiled, CallOK, Fields
    <3>. QED  BY <2>2, <3>1, LineAlike
  <2>. HIDE DEF f
  <2>4. LineIsCompiled(Emit(f, code))
    <3>1. Alike(f, Emit(f, code))
      BY <2>3 DEF Alike, Emit, LineIsCompiled, CallOK, Fields
    <3>. QED  BY <2>3, <3>1, LineAlike
  <2>. QED  BY <2>1, <2>4, GoesOn
<1>. QED  BY <1>3, <1>4

LEMMA PrintNumberKeeps ==
  ASSUME IInv, PrintNumber
  PROVE  IInv'
<1>. DEFINE c == Eval(compiler, line.left, FALSE)
            d == IF Compiling(c) /\ ~LastOperand(c).is_reg THEN Scratch(c, JUNK) ELSE c
<1>1. LineStarts(compiler) /\ line = Head(compiler.lines)
  BY LineReads DEF PrintNumber
<1>2. compiler' = EndLine(d) /\ callers' = callers
  BY DEF PrintNumber
<1>3. Len(line.left) \in Nat
  BY <1>1, LineStartsReady
<1>4. LineIsCompiled(c)
  BY <1>1, <1>3, LineEvaluates, LineLeads
<1>. HIDE DEF c
<1>5. LineIsCompiled(d)
  BY <1>4, LineScratch
<1>. HIDE DEF d
<1>. QED  BY <1>2, <1>5, GoesOn

LEMMA PrintStringKeeps ==
  ASSUME IInv, PrintString
  PROVE  IInv'
<1>. DEFINE d == IF line.left[1] \in StringVariables
                   THEN EvalVariable(compiler, line.left[1])
                   ELSE store_string_literal_in_memory(compiler, line.left[1])
<1>1. LineStarts(compiler) /\ Ready(compiler, {})
  BY LineReads, LineStartsReady DEF PrintString
<1>2. compiler' = EndLine(d) /\ callers' = callers
  BY DEF PrintString
<1>3. Works(compiler, d, {}) \/ Yields1(compiler, d, {})
  BY <1>1, EvalVariableYields, StringWorks
<1>. HIDE DEF d
<1>4. LineIsCompiled(d)
  BY <1>1, <1>3, LineWorks
<1>. QED  BY <1>2, <1>4, GoesOn

LEMMA ReturnOrCopyKeeps ==
  ASSUME IInv, Return \/ CopyLine
  PROVE  IInv'
<1>1. LineStarts(compiler)
  BY LineReads DEF Return, CopyLine
<1>2. LineIsCompiled(compiler) /\ LineIsCompiled(Scratch(compiler, JUNK))
  BY <1>1, LineStartsReady, LineScratch
<1>. QED  BY <1>2, GoesOn DEF Return, CopyLine

(***************************************************************************)
(* IF                                                                      *)
(***************************************************************************)
\* The command starts as a program does, and its caller waits for it.
LEMMA CommandStarts ==
  ASSUME IInv, LineStarts(compiler), NEW c, NEW ending,
         CallOK(c), OneEntryEach(c), KeepBut(c, {}), c.lines = compiler.lines,
         c.status = "compiling", Unclaimed(c, ending.scratch),
         Registers \ c.free_reg_arr \subseteq c.kept \cup ending.scratch,
         CompileCommand(c, ending)
  PROVE  IInv'
<1>. DEFINE d == EndLine(c)
            w == [call |-> d, ending |-> ending]
<1>1. c.lines \in Seq(BasicLines) /\ c.lines # <<>>
  BY DEF LineStarts, BetweenLines
<1>2. /\ CallOK(d) /\ d.status = c.status /\ d.lines \in Seq(BasicLines)
      /\ d.operands = <<>> /\ Entries(d) = Entries(c)
      /\ d.free_reg_arr = c.free_reg_arr /\ d.kept = c.kept /\ d.exposed = c.exposed
      /\ KeepBut(c, {}) => KeepBut(d, {})
  BY <1>1, EndLineFacts
<1>. HIDE DEF d
<1>3. Unclaimed(d, ending.scratch)
  BY <1>2, UnclaimedStays
<1>4. w.call = d /\ w.ending = ending
  OBVIOUS
<1>5. callers' = Append(callers, w) /\ compiler' = Call(line.command, c)
  BY DEF CompileCommand, d
<1>. HIDE DEF w
<1>6. Waiting(w)
  BY <1>2, <1>3, <1>4 DEF Waiting, OneEntryEach
<1>7. IsSequence(callers) /\ \A i \in 1 .. Len(callers) : Waiting(callers[i])
  BY DEF IInv
<1>. DEFINE longer == Append(callers, w)
            called == Call(line.command, c)
<1>8. /\ IsSequence(longer)
      /\ Len(callers) \in Nat /\ Len(longer) = Len(callers) + 1
      /\ \A i \in 1 .. Len(callers) : longer[i] = callers[i]
      /\ longer[Len(callers) + 1] = w
  BY <1>7, LongerSequence
<1>. HIDE DEF longer
<1>9. \A i \in 1 .. Len(longer) : Waiting(longer[i])
  BY <1>6, <1>7, <1>8
<1>10. line.command \in Seq(BasicLines)
  BY LineStartsReady DEF line
<1>11. /\ called.lines = line.command /\ called.operands = <<>>
       /\ called.var_reg_table = <<>> /\ called.free_reg_arr = Registers
       /\ called.status = "compiling"
  BY DEF Call
<1>12. CallOK(called)
  BY CallTyped
<1>. HIDE DEF called
<1>13. Entries(called) = {}
  BY <1>11 DEF Entries
<1>14. BetweenLines(called)
  BY <1>10, <1>11, <1>12, <1>13 DEF BetweenLines, OneEntryEach, KeepBut
<1>15. callers' = longer /\ compiler' = called
  BY <1>5 DEF longer, called
<1>. QED  BY <1>8, <1>9, <1>11, <1>14, <1>15 DEF IInv

LEMMA IfNumbersKeeps ==
  ASSUME IInv, IfNumbers
  PROVE  IInv'
<1>. DEFINE c == Compared
            d == [c EXCEPT !.repeats = @ \/ callers # <<>>]
<1>1. LineStarts(compiler) /\ line = Head(compiler.lines)
  BY LineReads DEF IfNumbers
<1>2. Len(line.left) \in Nat /\ Len(line.right) \in Nat
  BY <1>1, LineStartsReady
<1>3. /\ Leads(compiler, c, {})
      /\ Compiling(c) => Registers \ c.free_reg_arr \subseteq c.kept
  BY <1>1, <1>2, ComparedLeads DEF Compared, CompareLeft, CompareTo
<1>4. LineIsCompiled(c)
  BY <1>1, <1>3, LineLeads
<1>5. CASE StopInCondition(c)
  BY <1>4, <1>5, GoesOn DEF StopInCondition
<1>6. PICK code : \/ StopInCondition(c)
                  \/ Compiling(c) /\ CompileCommand(Emit(d, code), Ending(2, 0, {}))
  BY DEF IfNumbers
<1>7. CASE Compiling(c) /\ CompileCommand(Emit(d, code), Ending(2, 0, {}))
  <2>. DEFINE e == Emit(d, code)
  <2>1. Alike(c, e)
    BY <1>4 DEF Alike, Emit, LineIsCompiled, CallOK, Fields
  <2>. HIDE DEF e, d, c
  <2>2. LineIsCompiled(e) /\ Compiling(e)
    BY <1>4, <1>7, <2>1, LineAlike DEF Alike, Compiling
  <2>3. e.lines = compiler.lines
    BY <1>3, <2>1 DEF Leads, Alike
  <2>4. Ending(2, 0, {}).scratch = {}
    BY DEF Ending
  <2>5. Unclaimed(e, {})
    BY DEF Unclaimed
  <2>6. CompileCommand(e, Ending(2, 0, {}))
    BY <1>7 DEF e
  <2>. QED  BY <1>1, <2>2, <2>3, <2>4, <2>5, <2>6, CommandStarts DEF LineIsCompiled, Compiling
<1>. QED  BY <1>5, <1>6, <1>7

LEMMA IfStringsKeeps ==
  ASSUME IInv, IfStrings
  PROVE  IInv'
<1>. DEFINE c == StringsCompared
            d == [c EXCEPT !.repeats = @ \/ InString]
            R == {c.operands[i].n : i \in 3 .. 5}
<1>1. LineStarts(compiler)
  BY LineReads DEF IfStrings
<1>2. /\ Leads(compiler, c, {})
      /\ Compiling(c) => /\ Unclaimed(c, R)
                         /\ Registers \ c.free_reg_arr \subseteq c.kept \cup R
  BY <1>1, StringsComparedLeads
<1>3. Ready(c, {}) /\ OneEntryEach(c) /\ c.lines = compiler.lines /\ c.status # "done"
  BY <1>1, <1>2, LeadsOn DEF Leads, LineStarts, BetweenLines, OneEntryEach, Compiling
<1>4. CASE StopInCondition(c)
  <2>1. LineIsCompiled(c)
    BY <1>1, <1>2, <1>4, LineLeads DEF StopInCondition
  <2>. QED  BY <1>4, <2>1, GoesOn DEF StopInCondition
<1>5. PICK code : \/ StopInCondition(c)
                  \/ Compiling(c) /\ CompileCommand(Emit(d, code), Ending(0, 1, R))
  BY DEF IfStrings
<1>6. CASE Compiling(c) /\ CompileCommand(Emit(d, code), Ending(0, 1, R))
  <2>. DEFINE e == Emit(d, code)
  <2>1. Alike(c, e)
    BY <1>3 DEF Alike, Emit, Ready, CallOK, Fields
  <2>2. CompileCommand(e, Ending(0, 1, R))
    BY <1>6
  <2>. HIDE DEF e, d, c, R
  <2>3. Leads(c, e, {})
    BY <1>3, <2>1, AlikeKeeps
  <2>4. /\ CallOK(e) /\ KeepBut(e, {}) /\ OneEntryEach(e) /\ e.lines = compiler.lines
        /\ e.status = "compiling"
    BY <1>3, <1>6, <2>1, <2>3 DEF Leads, OneEntryEach, Alike, Compiling
  <2>5. Entries(e) \subseteq Entries(c) /\ e.exposed = c.exposed
    BY <2>1, <2>3 DEF Alike, Leads
  <2>6. Unclaimed(e, R)
    BY <1>2, <1>6, <2>5, UnclaimedStays
  <2>7. Registers \ e.free_reg_arr \subseteq e.kept \cup R
    BY <1>2, <1>6, <2>1 DEF Alike
  <2>8. Ending(0, 1, R).scratch = R
    BY DEF Ending
  <2>. QED  BY <1>1, <2>2, <2>4, <2>6, <2>7, <2>8, CommandStarts
<1>. QED  BY <1>4, <1>5, <1>6

\* What the command has written is stale in its caller.
LEMMA EndIfKeeps ==
  ASSUME IInv, EndIf
  PROVE  IInv'
<1>. DEFINE n == Len(callers)
            caller == Last(callers).call
            ending == Last(callers).ending
            scratch == ending.scratch
            c == Resumed(caller, compiler)
            e == Emit(c, <<EndLabel(c, ending)>>)
            d == [e EXCEPT
                   !.branch_num = NextBranch(@, ending.branches),
                   !.string_eq_branch_num = @ + ending.strings,
                   !.free_reg_arr = @ \cup scratch,
                   !.holds = [r \in Registers |-> IF r \in compiler.written THEN JUNK ELSE @[r]],
                   !.written = @ \cup compiler.written,
                   !.exposed = @ \cup VariablesIn(caller, compiler.written)]
<1>1. compiler' = d /\ callers' = Front(callers) /\ callers # <<>>
  BY DEF EndIf
<1>2. IsSequence(callers) /\ \A i \in 1 .. n : Waiting(callers[i])
  BY DEF IInv
<1>3. n \in Nat /\ n # 0
  <2>1. PICK S : callers \in Seq(S)
    BY <1>2 DEF IsSequence
  <2>. QED  BY <1>1, <2>1, EmptySeq
<1>4. Last(callers) = callers[n] /\ Front(callers) = SubSeq(callers, 1, n - 1)
  BY DEF Last, Front
<1>5. Waiting(Last(callers))
  BY <1>2, <1>3, <1>4
<1>6. compiler.written \subseteq Registers
  BY DEF IInv, BetweenLines, CallOK
<1>7. /\ CallOK(caller) /\ OneEntryEach(caller) /\ caller.lines \in Seq(BasicLines)
      /\ caller.operands = <<>> /\ caller.status = "compiling" /\ KeepBut(caller, {})
      /\ Unclaimed(caller, scratch)
      /\ Registers \ caller.free_reg_arr \subseteq caller.kept \cup scratch
  BY <1>5 DEF Waiting
<1>. HIDE DEF caller, ending, n
<1>8. /\ DOMAIN d = Fields
      /\ d.lines = caller.lines /\ d.operands = caller.operands /\ d.status = caller.status
      /\ d.free_reg_arr = caller.free_reg_arr \cup scratch
      /\ d.var_reg_table = caller.var_reg_table /\ d.kept = caller.kept
      /\ d.written = caller.written \cup compiler.written
      /\ d.exposed = caller.exposed \cup VariablesIn(caller, compiler.written)
      /\ d.holds = [r \in Registers |->
                      IF r \in compiler.written THEN JUNK ELSE caller.holds[r]]
  <2>1. /\ DOMAIN c = Fields
        /\ c.lines = caller.lines /\ c.operands = caller.operands /\ c.status = caller.status
        /\ c.free_reg_arr = caller.free_reg_arr /\ c.var_reg_table = caller.var_reg_table
        /\ c.kept = caller.kept /\ c.written = caller.written /\ c.exposed = caller.exposed
        /\ c.holds = caller.holds
    BY <1>7 DEF Resumed, CallOK, Fields
  <2>. HIDE DEF c
  <2>2. /\ DOMAIN e = Fields
        /\ e.lines = c.lines /\ e.operands = c.operands /\ e.status = c.status
        /\ e.free_reg_arr = c.free_reg_arr /\ e.var_reg_table = c.var_reg_table
        /\ e.kept = c.kept /\ e.written = c.written /\ e.exposed = c.exposed
        /\ e.holds = c.holds
    BY <2>1 DEF Emit, Fields
  <2>. HIDE DEF e
  <2>. QED  BY <2>1, <2>2 DEF Fields
<1>. HIDE DEF d, scratch
<1>9. Entries(d) = Entries(caller)
  BY <1>8 DEF Entries
<1>10. CallOK(d)
  BY <1>6, <1>7, <1>8 DEF CallOK, Unclaimed
<1>11. \A a \in Entries(caller) : a.address \in Registers
  BY <1>7, EntriesTyped DEF Entries, EntriesOf, CallOK
<1>12. KeepBut(d, {})
  <2>. SUFFICES ASSUME NEW a \in Entries(caller), a.symbol[1] \notin d.exposed
                PROVE  a.address \notin d.free_reg_arr /\ d.holds[a.address] = a.symbol
    BY <1>9 DEF KeepBut
  <2>1. /\ a.symbol[1] \notin caller.exposed
        /\ a.symbol[1] \notin VariablesIn(caller, compiler.written)
    BY <1>8
  <2>2. a.address \notin caller.free_reg_arr /\ caller.holds[a.address] = a.symbol
    BY <1>7, <2>1 DEF KeepBut
  <2>3. a.address \notin scratch
    BY <1>7, <2>1 DEF Unclaimed
  <2>4. a.address \notin compiler.written
    BY <2>1 DEF VariablesIn
  <2>. QED  BY <1>8, <1>11, <2>2, <2>3, <2>4
<1>13. BetweenLines(d)
  BY <1>7, <1>8, <1>9, <1>10, <1>12 DEF BetweenLines, OneEntryEach
<1>. DEFINE front == SubSeq(callers, 1, n - 1)
<1>14. n - 1 \in Int /\ n - 1 <= Len(callers) /\ n - 1 \in Nat
  BY <1>3 DEF n
<1>15. IsSequence(front) /\ Len(front) = n - 1 /\ \A i \in 1 .. n - 1 : front[i] = callers[i]
  BY <1>2, <1>14, ShorterSequence
<1>. HIDE DEF front
<1>16. \A i \in 1 .. Len(front) : Waiting(front[i])
  BY <1>2, <1>3, <1>15
<1>17. callers' = front /\ compiler' = d
  BY <1>1, <1>4 DEF front
<1>18. d.status # "done"
  BY <1>7, <1>8
<1>. QED  BY <1>13, <1>15, <1>16, <1>17, <1>18 DEF IInv

LEMMA FinishKeeps ==
  ASSUME IInv, Finish
  PROVE  IInv'
<1>. DEFINE d == [compiler EXCEPT !.status = "done"]
<1>1. /\ compiler' = d /\ callers' = callers /\ callers = <<>>
      /\ Compiling(compiler) /\ BetweenLines(compiler)
  BY DEF Finish, IInv
<1>2. /\ DOMAIN d = Fields /\ d.status = "done"
      /\ d.lines = compiler.lines /\ d.operands = compiler.operands
      /\ d.free_reg_arr = compiler.free_reg_arr /\ d.var_reg_table = compiler.var_reg_table
      /\ d.kept = compiler.kept /\ d.written = compiler.written
      /\ d.exposed = compiler.exposed /\ d.holds = compiler.holds
  BY <1>1 DEF BetweenLines, CallOK, Fields
<1>. HIDE DEF d
<1>3. Entries(d) = Entries(compiler)
  BY <1>2 DEF Entries
<1>4. BetweenLines(d)
  BY <1>1, <1>2, <1>3 DEF BetweenLines, CallOK, OneEntryEach, KeepBut, Compiling
<1>. QED  BY <1>1, <1>4 DEF IInv

LEMMA NextKeeps ==
  ASSUME IInv, [Next]_vars
  PROVE  IInv'
<1>1. CASE UNCHANGED vars
  BY <1>1 DEF vars, IInv
<1>2. CASE Next
  BY <1>2, LetNumberKeeps, LetStringKeeps, PrintNumberKeeps, PrintStringKeeps, InputKeeps,
     ReturnOrCopyKeeps, IfNumbersKeeps, IfStringsKeeps, EndIfKeeps, FinishKeeps DEF Next
<1>. QED  BY <1>1, <1>2

LEMMA Invariance == Spec => []IInv
BY InitIInv, NextKeeps, PTL DEF Spec

LEMMA IInvTypeOK ==
  ASSUME IInv
  PROVE  TypeOK
<1>1. CallOK(compiler)
  BY DEF IInv, BetweenLines
<1>2. \A e \in Entries(compiler) : e.address \in Registers
  BY <1>1, EntriesTyped DEF Entries, EntriesOf, CallOK
<1>3. \A i \in DOMAIN callers : callers[i].ending.scratch \subseteq Registers
  <2>1. PICK S : callers \in Seq(S)
    BY DEF IInv, IsSequence
  <2>2. DOMAIN callers = 1 .. Len(callers)
    BY <2>1
  <2>. QED  BY <2>2 DEF IInv, Waiting, Unclaimed
<1>. QED  BY <1>1, <1>2, <1>3 DEF TypeOK, CallOK

\* The entry that a lookup finds is the variable's.
LEMMA IInvVariables ==
  ASSUME IInv
  PROVE  VariablesKeepRegisters
<1>. SUFFICES ASSUME InMain, NEW v \in VariablesIn(compiler, Registers), v \notin compiler.exposed
              PROVE  /\ Address(compiler, v) \notin compiler.free_reg_arr
                     /\ compiler.holds[Address(compiler, v)] = <<v>>
  BY DEF VariablesKeepRegisters
<1>1. CallOK(compiler) /\ KeepBut(compiler, {})
  BY DEF IInv, BetweenLines, InMain
<1>2. PICK e \in Entries(compiler) : e.symbol[1] = v
  BY DEF VariablesIn
<1>3. e.symbol = <<v>>
  BY <1>1, <1>2, EntriesTyped DEF Entries, EntriesOf, CallOK
<1>4. PICK f \in Entries(compiler) : f.symbol = <<v>> /\ f.address = Address(compiler, v)
  BY <1>1, <1>3, AddressFacts DEF CallOK
<1>5. f.symbol[1] = v
  BY <1>4
<1>. QED  BY <1>1, <1>4, <1>5 DEF KeepBut

(***************************************************************************)
(* Labels and branches                                                     *)
(***************************************************************************)
\* The labels that a program has by now: m says what the numbers of its
\* outermost call are and whether an IF over numbers or strings is open in it.
Placed(c, m, f, n) ==
  \/ f = "LEN" /\ Even(n) /\ n < 2 * c.num_len
  \/ f = "RND" /\ n < 2 * c.num_rnd_branches
  \/ f = "INP" /\ n < 2 * m.inputs
  \/ f = "L" /\ n < m.branches
  \/ f = "L" /\ m.inIf /\ n = m.branches
  \/ f = "STREQ" /\ n % 4 # 1 /\ n < 4 * c.string_eq_branch_num
  \/ f = "STREQ" /\ m.inStr /\ n = 4 * c.string_eq_branch_num
  \/ f = "STREQ" /\ m.inStr /\ n = 4 * c.string_eq_branch_num + 2

\* Where its branches go.
Aimed(c, m, f, n) ==
  \/ f = "RND:"
  \/ f = "LEN" /\ n < 2 * c.num_len
  \/ f = "RND" /\ n < 2 * c.num_rnd_branches
  \/ f = "INP" /\ n < 2 * m.inputs
  \/ f = "L" /\ n < m.branches
  \/ f = "L" /\ m.inIf /\ n < m.branches + 2
  \/ f = "STREQ" /\ n < 4 * c.string_eq_branch_num
  \/ f = "STREQ" /\ m.inStr /\ n < 4 * c.string_eq_branch_num + 4

\* Every label is one that has been placed, once.
OnlyOnce(file) ==
  \A i, j \in DOMAIN file : file[i] = file[j] /\ file[i].op = "label" => i = j

FileOK(c, m, file) ==
  /\ IsSequence(file)
  /\ \A i \in DOMAIN file :
       \E f : \E n \in Nat :
         \/ file[i] = Label(f, n) /\ Placed(c, m, f, n)
         \/ file[i] = Bare(f, n)
         \/ file[i] = Branch(f, n) /\ Aimed(c, m, f, n)
  /\ \A f : \A n \in Nat : Placed(c, m, f, n) => \E i \in DOMAIN file : file[i] = Label(f, n)
  /\ OnlyOnce(file)

\* What is emitted when c and m become d and k.
Adds(c, m, d, k, code) ==
  /\ IsSequence(code)
  /\ \A i \in DOMAIN code :
       \E f : \E n \in Nat :
         \/ code[i] = Label(f, n) /\ Placed(d, k, f, n) /\ ~Placed(c, m, f, n)
         \/ code[i] = Bare(f, n)
         \/ code[i] = Branch(f, n) /\ Aimed(d, k, f, n)
  /\ \A f : \A n \in Nat :
       /\ Placed(c, m, f, n) => Placed(d, k, f, n)
       /\ Aimed(c, m, f, n) => Aimed(d, k, f, n)
       /\ Placed(d, k, f, n) => Placed(c, m, f, n) \/ \E i \in DOMAIN code : code[i] = Label(f, n)
  /\ OnlyOnce(code)

LEMMA LabelFacts ==
  ASSUME NEW f, NEW n
  PROVE  /\ Label(f, n).op = "label" /\ Label(f, n).family = f /\ Label(f, n).n = n
         /\ Branch(f, n).op = "branch" /\ Branch(f, n).family = f /\ Branch(f, n).n = n
         /\ Bare(f, n).op = "bare"
BY DEF Label, Branch, Bare

LEMMA FileGrows ==
  ASSUME NEW c, NEW m, NEW d, NEW k, NEW file, NEW code,
         FileOK(c, m, file), Adds(c, m, d, k, code)
  PROVE  FileOK(d, k, file \o code)
<1>. DEFINE longer == file \o code
<1>1. /\ IsSequence(longer)
      /\ Len(file) \in Nat /\ Len(code) \in Nat /\ Len(longer) = Len(file) + Len(code)
      /\ \A i \in 1 .. Len(file) : longer[i] = file[i]
      /\ \A i \in Len(file) + 1 .. Len(file) + Len(code) : longer[i] = code[i - Len(file)]
  BY Concatenation DEF FileOK, Adds
<1>. HIDE DEF longer
<1>2. /\ DOMAIN file = 1 .. Len(file) /\ DOMAIN code = 1 .. Len(code)
      /\ DOMAIN longer = 1 .. Len(longer)
  BY <1>1 DEF FileOK, Adds, IsSequence
<1>3. \A i \in DOMAIN longer :
        \/ i \in DOMAIN file /\ longer[i] = file[i]
        \/ i \notin DOMAIN file /\ i - Len(file) \in DOMAIN code /\ longer[i] = code[i - Len(file)]
  BY <1>1, <1>2
<1>4. ASSUME NEW i \in DOMAIN longer
      PROVE  \E f : \E n \in Nat :
               \/ longer[i] = Label(f, n) /\ Placed(d, k, f, n)
               \/ longer[i] = Bare(f, n)
               \/ longer[i] = Branch(f, n) /\ Aimed(d, k, f, n)
  <2>1. CASE i \in DOMAIN file /\ longer[i] = file[i]
    <3>1. PICK f : \E n \in Nat : \/ file[i] = Label(f, n) /\ Placed(c, m, f, n)
                                  \/ file[i] = Bare(f, n)
                                  \/ file[i] = Branch(f, n) /\ Aimed(c, m, f, n)
      BY <2>1 DEF FileOK
    <3>. QED  BY <2>1, <3>1 DEF Adds
  <2>2. CASE i - Len(file) \in DOMAIN code /\ longer[i] = code[i - Len(file)]
    <3>. DEFINE j == i - Len(file)
    <3>1. j \in DOMAIN code /\ longer[i] = code[j]
      BY <2>2
    <3>. HIDE DEF j
    <3>. QED  BY <3>1 DEF Adds
  <2>. QED  BY <1>3, <2>1, <2>2
<1>5. ASSUME NEW f, NEW n \in Nat, Placed(d, k, f, n)
      PROVE  \E i \in DOMAIN longer : longer[i] = Label(f, n)
  <2>1. CASE Placed(c, m, f, n)
    <3>1. PICK i \in DOMAIN file : file[i] = Label(f, n)
      BY <2>1 DEF FileOK
    <3>2. i \in DOMAIN longer /\ longer[i] = Label(f, n)
      BY <1>1, <1>2, <3>1
    <3>. QED  BY <3>2
  <2>2. CASE \E i \in DOMAIN code : code[i] = Label(f, n)
    <3>1. PICK i \in DOMAIN code : code[i] = Label(f, n)
      BY <2>2
    <3>2. i + Len(file) \in Len(file) + 1 .. Len(file) + Len(code) /\ i + Len(file) - Len(file) = i
      BY <1>1, <1>2, <3>1
    <3>3. i + Len(file) \in DOMAIN longer /\ longer[i + Len(file)] = Label(f, n)
      BY <1>1, <1>2, <3>1, <3>2
    <3>. QED  BY <3>3
  <2>. QED  BY <1>5, <2>1, <2>2 DEF Adds
<1>6. ASSUME NEW i \in DOMAIN file, NEW j \in DOMAIN code, file[i] = code[j]
      PROVE  file[i].op # "label"
  <2>. SUFFICES ASSUME file[i].op = "label" PROVE FALSE
    OBVIOUS
  <2>1. \E f : \E n \in Nat : file[i] = Label(f, n) /\ Placed(c, m, f, n)
    BY LabelFacts DEF FileOK
  <2>2. \E g : \E n \in Nat : code[j] = Label(g, n) /\ ~Placed(c, m, g, n)
    BY <1>6, LabelFacts DEF Adds
  <2>3. PICK f : \E n \in Nat : file[i] = Label(f, n) /\ Placed(c, m, f, n)
    BY <2>1
  <2>4. PICK n \in Nat : file[i] = Label(f, n) /\ Placed(c, m, f, n)
    BY <2>3
  <2>5. PICK g : \E l \in Nat : code[j] = Label(g, l) /\ ~Placed(c, m, g, l)
    BY <2>2
  <2>6. PICK l \in Nat : code[j] = Label(g, l) /\ ~Placed(c, m, g, l)
    BY <2>5
  <2>7. Label(f, n) = Label(g, l)
    BY <1>6, <2>4, <2>6
  <2>8. f = g
    BY <2>7 DEF Label
  <2>9. n = l
    BY <2>7 DEF Label
  <2>. QED  BY <2>4, <2>6, <2>8, <2>9
<1>7. OnlyOnce(longer)
  <2>. SUFFICES ASSUME NEW i \in DOMAIN longer, NEW j \in DOMAIN longer,
                       longer[i] = longer[j], longer[i].op = "label"
                PROVE  i = j
    BY DEF OnlyOnce
  <2>. DEFINE x == i - Len(file)
              y == j - Len(file)
  <2>1. x = y => i = j
    BY <1>1, <1>2
  <2>2. /\ \/ i \in DOMAIN file /\ longer[i] = file[i]
           \/ x \in DOMAIN code /\ longer[i] = code[x]
        /\ \/ j \in DOMAIN file /\ longer[j] = file[j]
           \/ y \in DOMAIN code /\ longer[j] = code[y]
    BY <1>3
  <2>. HIDE DEF x, y
  <2>3. OnlyOnce(file) /\ OnlyOnce(code)
    BY DEF FileOK, Adds
  <2>. QED  BY <1>6, <2>1, <2>2, <2>3, Zenon DEF OnlyOnce
<1>. QED  BY <1>1, <1>4, <1>5, <1>7 DEF FileOK, longer

NumbersOK(c, m) ==
  /\ c.num_len \in Nat /\ c.num_rnd_branches \in Nat /\ c.string_eq_branch_num \in Nat
  /\ m.branches \in Nat /\ m.inputs \in Nat
  /\ m.inIf \in BOOLEAN /\ m.inStr \in BOOLEAN

\* The numbers that c and d give to their labels, but for those of one family.
SameBut(c, d, family) ==
  /\ family # "LEN" => d.num_len = c.num_len
  /\ family # "RND" => d.num_rnd_branches = c.num_rnd_branches
  /\ family # "STREQ" => d.string_eq_branch_num = c.string_eq_branch_num

SameOuterBut(m, k, family) ==
  /\ family # "INP" => k.inputs = m.inputs
  /\ family # "L" => k.branches = m.branches /\ k.inIf = m.inIf
  /\ family # "STREQ" => k.inStr = m.inStr

LEMMA Sequences ==
  ASSUME NEW a, NEW b, NEW c, NEW d, NEW e, NEW f, NEW g, NEW h
  PROVE  /\ IsSequence(<<a>>) /\ IsSequence(<<a, b, c>>) /\ IsSequence(<<a, b, c, d>>)
         /\ IsSequence(<<a, b, c, d, e, f, g, h>>)
<1>. DEFINE S == {a, b, c, d, e, f, g, h}
<1>1. /\ <<a>> \in Seq(S) /\ <<a, b, c>> \in Seq(S) /\ <<a, b, c, d>> \in Seq(S)
      /\ <<a, b, c, d, e, f, g, h>> \in Seq(S)
  OBVIOUS
<1>. HIDE DEF S
<1>. QED  BY <1>1 DEF IsSequence

\* A counting loop.
LEMMA AddsLength ==
  ASSUME NEW c, NEW m, NEW d, NumbersOK(c, m), NumbersOK(d, m),
         SameBut(c, d, "LEN"), d.num_len = c.num_len + 1
  PROVE  LET n == 2 * c.num_len
         IN  Adds(c, m, d, m, <<Branch("LEN", n), Bare("LEN", n + 1), Label("LEN", n),
                                Branch("LEN", n + 1)>>)
<1>. DEFINE n == 2 * c.num_len
            code == <<Branch("LEN", n), Bare("LEN", n + 1), Label("LEN", n),
                      Branch("LEN", n + 1)>>
<1>0. IsSequence(code)
  BY Sequences, Zenon
<1>1. /\ DOMAIN code = 1 .. 4
      /\ code[1] = Branch("LEN", n)
      /\ code[2] = Bare("LEN", n + 1)
      /\ code[3] = Label("LEN", n)
      /\ code[4] = Branch("LEN", n + 1)
  OBVIOUS
<1>2. n \in Nat /\ n + 1 \in Nat
  BY DEF NumbersOK
<1>3. /\ Placed(d, m, "LEN", n) /\ ~Placed(c, m, "LEN", n)
  BY DEF Placed, NumbersOK, SameBut, Even
<1>4. /\ Aimed(d, m, "LEN", n)
      /\ Aimed(d, m, "LEN", n + 1)
  BY DEF Aimed, NumbersOK, SameBut, Even
<1>5. \A f : \A i \in Nat : /\ Placed(c, m, f, i) => Placed(d, m, f, i)
                            /\ Aimed(c, m, f, i) => Aimed(d, m, f, i)
  BY DEF Placed, Aimed, SameBut, NumbersOK
<1>6. \A f : \A i \in Nat : Placed(d, m, f, i) =>
        Placed(c, m, f, i) \/ (f = "LEN" /\ i = n)
  BY DEF Placed, SameBut, NumbersOK, Even
<1>. HIDE DEF code, n
<1>7. OnlyOnce(code)
  BY <1>1, <1>2, LabelFacts DEF OnlyOnce
<1>8. ASSUME NEW i \in DOMAIN code
      PROVE  \E f : \E l \in Nat :
               \/ code[i] = Label(f, l) /\ Placed(d, m, f, l) /\ ~Placed(c, m, f, l)
               \/ code[i] = Bare(f, l)
               \/ code[i] = Branch(f, l) /\ Aimed(d, m, f, l)
  <2>1. i \in {1, 2, 3, 4}
    BY <1>1
  <2>. QED  BY <1>1, <1>2, <1>3, <1>4, <2>1
<1>9. \A f : \A i \in Nat : Placed(d, m, f, i) =>
        Placed(c, m, f, i) \/ \E j \in DOMAIN code : code[j] = Label(f, i)
  BY <1>1, <1>6
<1>. QED  BY <1>0, <1>1, <1>5, <1>7, <1>8, <1>9 DEF Adds, code, n

\* A random number.
LEMMA AddsRnd ==
  ASSUME NEW c, NEW m, NEW d, NumbersOK(c, m), NumbersOK(d, m),
         SameBut(c, d, "RND"), d.num_rnd_branches = c.num_rnd_branches + 1
  PROVE  LET n == 2 * c.num_rnd_branches
         IN  Adds(c, m, d, m, <<Branch("RND:", n), Label("RND", n + 1), Label("RND", n),
                                Branch("RND", n + 1)>>)
<1>. DEFINE n == 2 * c.num_rnd_branches
            code == <<Branch("RND:", n), Label("RND", n + 1), Label("RND", n),
                      Branch("RND", n + 1)>>
<1>0. IsSequence(code)
  BY Sequences, Zenon
<1>1. /\ DOMAIN code = 1 .. 4
      /\ code[1] = Branch("RND:", n)
      /\ code[2] = Label("RND", n + 1)
      /\ code[3] = Label("RND", n)
      /\ code[4] = Branch("RND", n + 1)
  OBVIOUS
<1>2. n \in Nat /\ n + 1 \in Nat
  BY DEF NumbersOK
<1>3. /\ Placed(d, m, "RND", n + 1) /\ ~Placed(c, m, "RND", n + 1)
      /\ Placed(d, m, "RND", n) /\ ~Placed(c, m, "RND", n)
  BY DEF Placed, NumbersOK, SameBut, Even
<1>4. /\ Aimed(d, m, "RND:", n)
      /\ Aimed(d, m, "RND", n + 1)
  BY DEF Aimed, NumbersOK, SameBut, Even
<1>5. \A f : \A i \in Nat : /\ Placed(c, m, f, i) => Placed(d, m, f, i)
                            /\ Aimed(c, m, f, i) => Aimed(d, m, f, i)
  BY DEF Placed, Aimed, SameBut, NumbersOK
<1>6. \A f : \A i \in Nat : Placed(d, m, f, i) =>
        Placed(c, m, f, i) \/ (f = "RND" /\ i = n + 1) \/ (f = "RND" /\ i = n)
  BY DEF Placed, SameBut, NumbersOK, Even
<1>. HIDE DEF code, n
<1>7. OnlyOnce(code)
  BY <1>1, <1>2, LabelFacts DEF OnlyOnce
<1>8. ASSUME NEW i \in DOMAIN code
      PROVE  \E f : \E l \in Nat :
               \/ code[i] = Label(f, l) /\ Placed(d, m, f, l) /\ ~Placed(c, m, f, l)
               \/ code[i] = Bare(f, l)
               \/ code[i] = Branch(f, l) /\ Aimed(d, m, f, l)
  <2>1. i \in {1, 2, 3, 4}
    BY <1>1
  <2>. QED  BY <1>1, <1>2, <1>3, <1>4, <2>1
<1>9. \A f : \A i \in Nat : Placed(d, m, f, i) =>
        Placed(c, m, f, i) \/ \E j \in DOMAIN code : code[j] = Label(f, i)
  BY <1>1, <1>6
<1>. QED  BY <1>0, <1>1, <1>5, <1>7, <1>8, <1>9 DEF Adds, code, n

\* The search for the end of a string.
LEMMA AddsInput ==
  ASSUME NEW c, NEW m, NEW k, NEW d, NumbersOK(c, m), NumbersOK(d, k),
         SameBut(c, d, "none"), SameOuterBut(m, k, "INP"), k.inputs = m.inputs + 1
  PROVE  LET n == 2 * m.inputs
         IN  Adds(c, m, d, k, <<Branch("INP", n), Label("INP", n + 1), Label("INP", n),
                                Branch("INP", n + 1)>>)
<1>. DEFINE n == 2 * m.inputs
            code == <<Branch("INP", n), Label("INP", n + 1), Label("INP", n),
                      Branch("INP", n + 1)>>
<1>0. IsSequence(code)
  BY Sequences, Zenon
<1>1. /\ DOMAIN code = 1 .. 4
      /\ code[1] = Branch("INP", n)
      /\ code[2] = Label("INP", n + 1)
      /\ code[3] = Label("INP", n)
      /\ code[4] = Branch("INP", n + 1)
  OBVIOUS
<1>2. n \in Nat /\ n + 1 \in Nat
  BY DEF NumbersOK
<1>3. /\ Placed(d, k, "INP", n + 1) /\ ~Placed(c, m, "INP", n + 1)
      /\ Placed(d, k, "INP", n) /\ ~Placed(c, m, "INP", n)
  BY DEF Placed, NumbersOK, SameBut, SameOuterBut, Even
<1>4. /\ Aimed(d, k, "INP", n)
      /\ Aimed(d, k, "INP", n + 1)
  BY DEF Aimed, NumbersOK, SameBut, SameOuterBut, Even
<1>5. \A f : \A i \in Nat : /\ Placed(c, m, f, i) => Placed(d, k, f, i)
                            /\ Aimed(c, m, f, i) => Aimed(d, k, f, i)
  BY DEF Placed, Aimed, SameBut, SameOuterBut, NumbersOK
<1>6. \A f : \A i \in Nat : Placed(d, k, f, i) =>
        Placed(c, m, f, i) \/ (f = "INP" /\ i = n + 1) \/ (f = "INP" /\ i = n)
  BY DEF Placed, SameBut, SameOuterBut, NumbersOK, Even
<1>. HIDE DEF code, n
<1>7. OnlyOnce(code)
  BY <1>1, <1>2, LabelFacts DEF OnlyOnce
<1>8. ASSUME NEW i \in DOMAIN code
      PROVE  \E f : \E l \in Nat :
               \/ code[i] = Label(f, l) /\ Placed(d, k, f, l) /\ ~Placed(c, m, f, l)
               \/ code[i] = Bare(f, l)
               \/ code[i] = Branch(f, l) /\ Aimed(d, k, f, l)
  <2>1. i \in {1, 2, 3, 4}
    BY <1>1
  <2>. QED  BY <1>1, <1>2, <1>3, <1>4, <2>1
<1>9. \A f : \A i \in Nat : Placed(d, k, f, i) =>
        Placed(c, m, f, i) \/ \E j \in DOMAIN code : code[j] = Label(f, i)
  BY <1>1, <1>6
<1>. QED  BY <1>0, <1>1, <1>5, <1>7, <1>8, <1>9 DEF Adds, code, n

\* A comparison of numbers and the label behind the command.
LEMMA AddsIf ==
  ASSUME NEW c, NEW m, NEW k, NEW d, NumbersOK(c, m), NumbersOK(d, k),
         SameBut(c, d, "none"), SameOuterBut(m, k, "L"), k.branches = m.branches, ~m.inIf, k.inIf
  PROVE  LET n == m.branches
         IN  Adds(c, m, d, k, <<Branch("L", n), Branch("L", n + 1), Label("L", n)>>)
<1>. DEFINE n == m.branches
            code == <<Branch("L", n), Branch("L", n + 1), Label("L", n)>>
<1>0. IsSequence(code)
  BY Sequences, Zenon
<1>1. /\ DOMAIN code = 1 .. 3
      /\ code[1] = Branch("L", n)
      /\ code[2] = Branch("L", n + 1)
      /\ code[3] = Label("L", n)
  OBVIOUS
<1>2. n \in Nat /\ n + 1 \in Nat
  BY DEF NumbersOK
<1>3. /\ Placed(d, k, "L", n) /\ ~Placed(c, m, "L", n)
  BY DEF Placed, NumbersOK, SameBut, SameOuterBut, Even
<1>4. /\ Aimed(d, k, "L", n)
      /\ Aimed(d, k, "L", n + 1)
  BY DEF Aimed, NumbersOK, SameBut, SameOuterBut, Even
<1>5. \A f : \A i \in Nat : /\ Placed(c, m, f, i) => Placed(d, k, f, i)
                            /\ Aimed(c, m, f, i) => Aimed(d, k, f, i)
  BY DEF Placed, Aimed, SameBut, SameOuterBut, NumbersOK
<1>6. \A f : \A i \in Nat : Placed(d, k, f, i) =>
        Placed(c, m, f, i) \/ (f = "L" /\ i = n)
  BY DEF Placed, SameBut, SameOuterBut, NumbersOK, Even
<1>. HIDE DEF code, n
<1>7. OnlyOnce(code)
  BY <1>1, <1>2, LabelFacts DEF OnlyOnce
<1>8. ASSUME NEW i \in DOMAIN code
      PROVE  \E f : \E l \in Nat :
               \/ code[i] = Label(f, l) /\ Placed(d, k, f, l) /\ ~Placed(c, m, f, l)
               \/ code[i] = Bare(f, l)
               \/ code[i] = Branch(f, l) /\ Aimed(d, k, f, l)
  <2>1. i \in {1, 2, 3}
    BY <1>1
  <2>. QED  BY <1>1, <1>2, <1>3, <1>4, <2>1
<1>9. \A f : \A i \in Nat : Placed(d, k, f, i) =>
        Placed(c, m, f, i) \/ \E j \in DOMAIN code : code[j] = Label(f, i)
  BY <1>1, <1>6
<1>. QED  BY <1>0, <1>1, <1>5, <1>7, <1>8, <1>9 DEF Adds, code, n

LEMMA AddsEndIf ==
  ASSUME NEW c, NEW m, NEW k, NEW d, NumbersOK(c, m), NumbersOK(d, k),
         SameBut(c, d, "none"), SameOuterBut(m, k, "L"), k.branches = m.branches + 2,
         m.inIf, ~k.inIf
  PROVE  LET n == m.branches
         IN  Adds(c, m, d, k, <<Label("L", n + 1)>>)
<1>. DEFINE n == m.branches
            code == <<Label("L", n + 1)>>
<1>0. IsSequence(code)
  BY Sequences, Zenon
<1>1. /\ DOMAIN code = 1 .. 1
      /\ code[1] = Label("L", n + 1)
  OBVIOUS
<1>2. n + 1 \in Nat
  BY DEF NumbersOK
<1>3. /\ Placed(d, k, "L", n + 1) /\ ~Placed(c, m, "L", n + 1)
  BY DEF Placed, NumbersOK, SameBut, SameOuterBut, Even
<1>4. TRUE
  OBVIOUS
<1>5. \A f : \A i \in Nat : /\ Placed(c, m, f, i) => Placed(d, k, f, i)
                            /\ Aimed(c, m, f, i) => Aimed(d, k, f, i)
  BY DEF Placed, Aimed, SameBut, SameOuterBut, NumbersOK
<1>6. \A f : \A i \in Nat : Placed(d, k, f, i) =>
        Placed(c, m, f, i) \/ (f = "L" /\ i = n + 1)
  BY DEF Placed, SameBut, SameOuterBut, NumbersOK, Even
<1>. HIDE DEF code, n
<1>7. OnlyOnce(code)
  BY <1>1, <1>2, LabelFacts DEF OnlyOnce
<1>8. ASSUME NEW i \in DOMAIN code
      PROVE  \E f : \E l \in Nat :
               \/ code[i] = Label(f, l) /\ Placed(d, k, f, l) /\ ~Placed(c, m, f, l)
               \/ code[i] = Bare(f, l)
               \/ code[i] = Branch(f, l) /\ Aimed(d, k, f, l)
  <2>1. i \in {1}
    BY <1>1
  <2>. QED  BY <1>1, <1>2, <1>3, <1>4, <2>1
<1>9. \A f : \A i \in Nat : Placed(d, k, f, i) =>
        Placed(c, m, f, i) \/ \E j \in DOMAIN code : code[j] = Label(f, i)
  BY <1>1, <1>6
<1>. QED  BY <1>0, <1>1, <1>5, <1>7, <1>8, <1>9 DEF Adds, code, n

\* A comparison of strings and the label behind the command.
LEMMA AddsIfStrings ==
  ASSUME NEW c, NEW m, NEW k, NEW d, NumbersOK(c, m), NumbersOK(d, k),
         SameBut(c, d, "none"), SameOuterBut(m, k, "STREQ"), ~m.inStr, k.inStr
  PROVE  LET n == 4 * c.string_eq_branch_num
         IN  Adds(c, m, d, k, <<Branch("STREQ", n), Bare("STREQ", n + 1), Label("STREQ", n),
                                Branch("STREQ", n + 2), Branch("STREQ", n + 1),
                                Branch("STREQ", n + 3), Label("STREQ", n + 2),
                                Branch("STREQ", n + 3)>>)
<1>. DEFINE n == 4 * c.string_eq_branch_num
            code == <<Branch("STREQ", n), Bare("STREQ", n + 1), Label("STREQ", n),
                      Branch("STREQ", n + 2), Branch("STREQ", n + 1), Branch("STREQ", n + 3),
                      Label("STREQ", n + 2), Branch("STREQ", n + 3)>>
<1>0. IsSequence(code)
  BY Sequences, Zenon
<1>1. /\ DOMAIN code = 1 .. 8
      /\ code[1] = Branch("STREQ", n)
      /\ code[2] = Bare("STREQ", n + 1)
      /\ code[3] = Label("STREQ", n)
      /\ code[4] = Branch("STREQ", n + 2)
      /\ code[5] = Branch("STREQ", n + 1)
      /\ code[6] = Branch("STREQ", n + 3)
      /\ code[7] = Label("STREQ", n + 2)
      /\ code[8] = Branch("STREQ", n + 3)
  OBVIOUS
<1>2. n \in Nat /\ n + 1 \in Nat /\ n + 2 \in Nat /\ n + 3 \in Nat
  BY DEF NumbersOK
<1>3. /\ Placed(d, k, "STREQ", n) /\ ~Placed(c, m, "STREQ", n)
      /\ Placed(d, k, "STREQ", n + 2) /\ ~Placed(c, m, "STREQ", n + 2)
  BY DEF Placed, NumbersOK, SameBut, SameOuterBut, Even
<1>4. /\ Aimed(d, k, "STREQ", n)
      /\ Aimed(d, k, "STREQ", n + 2)
      /\ Aimed(d, k, "STREQ", n + 1)
      /\ Aimed(d, k, "STREQ", n + 3)
      /\ Aimed(d, k, "STREQ", n + 3)
  BY DEF Aimed, NumbersOK, SameBut, SameOuterBut, Even
<1>5. \A f : \A i \in Nat : /\ Placed(c, m, f, i) => Placed(d, k, f, i)
                            /\ Aimed(c, m, f, i) => Aimed(d, k, f, i)
  BY DEF Placed, Aimed, SameBut, SameOuterBut, NumbersOK
<1>6. \A f : \A i \in Nat : Placed(d, k, f, i) =>
        Placed(c, m, f, i) \/ (f = "STREQ" /\ i = n) \/ (f = "STREQ" /\ i = n + 2)
  BY DEF Placed, SameBut, SameOuterBut, NumbersOK, Even
<1>. HIDE DEF code, n
<1>7. OnlyOnce(code)
  BY <1>1, <1>2, LabelFacts DEF OnlyOnce
<1>8. ASSUME NEW i \in DOMAIN code
      PROVE  \E f : \E l \in Nat :
               \/ code[i] = Label(f, l) /\ Placed(d, k, f, l) /\ ~Placed(c, m, f, l)
               \/ code[i] = Bare(f, l)
               \/ code[i] = Branch(f, l) /\ Aimed(d, k, f, l)
  <2>1. i \in {1, 2, 3, 4, 5, 6, 7, 8}
    BY <1>1
  <2>. QED  BY <1>1, <1>2, <1>3, <1>4, <2>1
<1>9. \A f : \A i \in Nat : Placed(d, k, f, i) =>
        Placed(c, m, f, i) \/ \E j \in DOMAIN code : code[j] = Label(f, i)
  BY <1>1, <1>6
<1>. QED  BY <1>0, <1>1, <1>5, <1>7, <1>8, <1>9 DEF Adds, code, n

LEMMA AddsEndIfStrings ==
  ASSUME NEW c, NEW m, NEW k, NEW d, NumbersOK(c, m), NumbersOK(d, k),
         SameBut(c, d, "STREQ"), SameOuterBut(m, k, "STREQ"), m.inStr, ~k.inStr,
         d.string_eq_branch_num = c.string_eq_branch_num + 1
  PROVE  LET n == 4 * c.string_eq_branch_num
         IN  Adds(c, m, d, k, <<Label("STREQ", n + 3)>>)
<1>. DEFINE n == 4 * c.string_eq_branch_num
            code == <<Label("STREQ", n + 3)>>
<1>0. IsSequence(code)
  BY Sequences, Zenon
<1>1. /\ DOMAIN code = 1 .. 1
      /\ code[1] = Label("STREQ", n + 3)
  OBVIOUS
<1>2. n + 3 \in Nat
  BY DEF NumbersOK
<1>3. /\ Placed(d, k, "STREQ", n + 3) /\ ~Placed(c, m, "STREQ", n + 3)
  BY DEF Placed, NumbersOK, SameBut, SameOuterBut, Even
<1>4. TRUE
  OBVIOUS
<1>5. \A f : \A i \in Nat : /\ Placed(c, m, f, i) => Placed(d, k, f, i)
                            /\ Aimed(c, m, f, i) => Aimed(d, k, f, i)
  BY DEF Placed, Aimed, SameBut, SameOuterBut, NumbersOK
<1>6. \A f : \A i \in Nat : Placed(d, k, f, i) =>
        Placed(c, m, f, i) \/ (f = "STREQ" /\ i = n + 3)
  <2>1. n = 4 * c.string_eq_branch_num /\ n \in Nat /\ (n + 1) % 4 = 1
    BY DEF NumbersOK
  <2>2. 4 * d.string_eq_branch_num = n + 4
    BY DEF NumbersOK
  <2>. HIDE DEF n
  <2>3. ASSUME NEW i \in Nat, Placed(d, k, "STREQ", i), i # n + 3
        PROVE  Placed(c, m, "STREQ", i)
    <3>1. i % 4 # 1 /\ i < n + 4
      BY <2>2, <2>3 DEF Placed, SameOuterBut
    <3>2. i < n \/ i = n \/ i = n + 2
      BY <2>1, <2>3, <3>1
    <3>. QED  BY <2>1, <3>1, <3>2 DEF Placed
  <2>4. ASSUME NEW f, f # "STREQ", NEW i \in Nat, Placed(d, k, f, i)
        PROVE  Placed(c, m, f, i)
    BY <2>4 DEF Placed, SameBut, SameOuterBut
  <2>. QED  BY <2>3, <2>4
<1>. HIDE DEF code, n
<1>7. OnlyOnce(code)
  BY <1>1, <1>2, LabelFacts DEF OnlyOnce
<1>8. ASSUME NEW i \in DOMAIN code
      PROVE  \E f : \E l \in Nat :
               \/ code[i] = Label(f, l) /\ Placed(d, k, f, l) /\ ~Placed(c, m, f, l)
               \/ code[i] = Bare(f, l)
               \/ code[i] = Branch(f, l) /\ Aimed(d, k, f, l)
  <2>1. i \in {1}
    BY <1>1
  <2>. QED  BY <1>1, <1>2, <1>3, <1>4, <2>1
<1>9. \A f : \A i \in Nat : Placed(d, k, f, i) =>
        Placed(c, m, f, i) \/ \E j \in DOMAIN code : code[j] = Label(f, i)
  BY <1>1, <1>6
<1>. QED  BY <1>0, <1>1, <1>5, <1>7, <1>8, <1>9 DEF Adds, code, n

\* The labels of the call c, as they should be.
Counts(c, m) == DOMAIN c = Fields /\ NumbersOK(c, m) /\ FileOK(c, m, c.assembly_file)

\* A part of a line keeps the labels right and opens no IF.
CountsOn(c, d) ==
  /\ DOMAIN d = Fields
  /\ d.branch_num = c.branch_num /\ d.inp_branch_num = c.inp_branch_num
  /\ d.string_eq_branch_num = c.string_eq_branch_num
  /\ d.repeats = c.repeats
  /\ \A m : Counts(c, m) => Counts(d, m)

Quiet(c, d) ==
  /\ DOMAIN d = Fields
  /\ d.branch_num = c.branch_num /\ d.inp_branch_num = c.inp_branch_num
  /\ d.string_eq_branch_num = c.string_eq_branch_num
  /\ d.repeats = c.repeats
  /\ d.num_len = c.num_len /\ d.num_rnd_branches = c.num_rnd_branches
  /\ d.assembly_file = c.assembly_file

LEMMA QuietCounts ==
  ASSUME NEW c, NEW d, Quiet(c, d)
  PROVE  CountsOn(c, d)
<1>1. \A m : NumbersOK(c, m) => NumbersOK(d, m)
  BY DEF Quiet, NumbersOK
<1>2. \A m, f, n : /\ Placed(c, m, f, n) <=> Placed(d, m, f, n)
                   /\ Aimed(c, m, f, n) <=> Aimed(d, m, f, n)
  BY DEF Quiet, Placed, Aimed
<1>3. \A m : FileOK(c, m, c.assembly_file) => FileOK(d, m, d.assembly_file)
  <2>. SUFFICES ASSUME NEW m, FileOK(c, m, c.assembly_file) PROVE FileOK(d, m, c.assembly_file)
    BY DEF Quiet
  <2>. QED  BY <1>2 DEF FileOK
<1>. QED  BY <1>1, <1>3 DEF Quiet, CountsOn, Counts

LEMMA CallStays ==
  ASSUME NEW c, NEW d, CountsOn(c, d) \/ Quiet(c, d)
  PROVE  DOMAIN d = Fields
BY DEF CountsOn, Quiet

LEMMA CountsThrough ==
  ASSUME NEW c, NEW d, NEW e, CountsOn(c, d), CountsOn(d, e)
  PROVE  CountsOn(c, e)
BY DEF CountsOn

LEMMA CountsMore ==
  ASSUME NEW c, NEW m, NEW d, NEW k, NEW code, Counts(c, m), DOMAIN d = Fields, NumbersOK(d, k),
         d.assembly_file = c.assembly_file \o code, Adds(c, m, d, k, code)
  PROVE  Counts(d, k)
BY FileGrows DEF Counts

LEMMA QuietSteps ==
  ASSUME NEW c, DOMAIN c = Fields, NEW x
  PROVE  /\ Quiet(c, c)
         /\ Quiet(c, PushOperand(c, x)) /\ Quiet(c, Lookup(c, x)) /\ Quiet(c, Take(c, x))
         /\ Quiet(c, Stop(c, x)) /\ Quiet(c, Fail(c)) /\ Quiet(c, Undefined(c))
         /\ Quiet(c, Release(c, x)) /\ Quiet(c, KeepLeft(c)) /\ Quiet(c, EndLine(c))
         /\ Quiet(c, Scratch(c, x)) /\ Quiet(c, ScratchTaken(c, x))
<1>1. Quiet(c, PushOperand(c, x)) /\ Quiet(c, Lookup(c, x)) /\ Quiet(c, EndLine(c))
  BY DEF Quiet, PushOperand, Lookup, EndLine, Fields
<1>2. \A y : Quiet(c, Take(c, y))
  BY DEF Quiet, Take, Fields
<1>3. \A y : Quiet(c, Stop(c, y))
  BY DEF Quiet, Stop, Fields
<1>4. Quiet(c, Fail(c)) /\ Quiet(c, Undefined(c))
  BY <1>3 DEF Fail, Undefined
<1>5. Quiet(c, Release(c, x))
  BY <1>4 DEF Quiet, Release, Fields
<1>6. Quiet(c, c)
  BY DEF Quiet
<1>7. Quiet(c, KeepLeft(c))
  BY <1>2, <1>6 DEF KeepLeft
<1>8. \A r : Quiet(c, Write(c, r, x))
  BY DEF Quiet, Write, Fields
<1>9. Quiet(c, Scratch(c, x))
  BY <1>4, <1>8 DEF Scratch
<1>10. Quiet(c, ScratchTaken(c, x))
  <2>. DEFINE d == Scratch(c, x)
              r == first_free_reg(c)
  <2>1. DOMAIN d = Fields
    BY <1>9 DEF Quiet
  <2>. HIDE DEF d, r
  <2>2. Quiet(d, Take(d, r))
    BY <2>1 DEF Quiet, Take, Fields
  <2>3. Quiet(c, Take(d, r))
    BY <1>9, <2>2 DEF Quiet, d
  <2>. QED  BY <2>3 DEF ScratchTaken, d, r
<1>. QED  BY <1>1, <1>2, <1>3, <1>4, <1>5, <1>6, <1>7, <1>9, <1>10

\* The same, as parts of a line.
LEMMA CountedSteps ==
  ASSUME NEW c, DOMAIN c = Fields, NEW x
  PROVE  /\ CountsOn(c, c)
         /\ CountsOn(c, PushOperand(c, x)) /\ CountsOn(c, Lookup(c, x)) /\ CountsOn(c, Take(c, x))
         /\ CountsOn(c, Fail(c)) /\ CountsOn(c, Undefined(c))
         /\ CountsOn(c, Release(c, x)) /\ CountsOn(c, KeepLeft(c)) /\ CountsOn(c, EndLine(c))
         /\ CountsOn(c, Scratch(c, x)) /\ CountsOn(c, ScratchTaken(c, x))
BY QuietSteps, QuietCounts

LEMMA CountFoundCounts ==
  ASSUME NEW c, DOMAIN c = Fields
  PROVE  CountsOn(c, CountFound(c))
<1>. DEFINE r == first_free_reg(c)
            n == 2 * c.num_len
            code == <<Branch("LEN", n), Bare("LEN", n + 1), Label("LEN", n), Branch("LEN", n + 1)>>
            c1 == ScratchTaken(c, JUNK)
            c2 == Scratch(c1, JUNK)
            c3 == [c2 EXCEPT !.num_len = @ + 1]
            c4 == Release(c3, r)
            c5 == Emit(c4, code)
            d == PushOperand(c5, Reg(r))
<1>1. d = CountFound(c)
  BY DEF CountFound, CountLength
<1>2. \A m : Counts(c, m) =>
        \A e : SameBut(c, e, "LEN") /\ NumbersOK(e, m) /\ e.num_len = c.num_len + 1
                 => Adds(c, m, e, m, code)
  BY AddsLength DEF Counts
<1>. HIDE DEF r, code, n
<1>3. Quiet(c, c1)
  BY QuietSteps
<1>. HIDE DEF c1
<1>4. Quiet(c1, c2)
  BY <1>3, CallStays, QuietSteps
<1>. HIDE DEF c2
<1>5. Quiet(c, c2)
  BY <1>3, <1>4 DEF Quiet
<1>6. /\ DOMAIN c3 = Fields
      /\ c3.branch_num = c.branch_num /\ c3.inp_branch_num = c.inp_branch_num
      /\ c3.string_eq_branch_num = c.string_eq_branch_num
      /\ c3.repeats = c.repeats
      /\ c3.num_len = c.num_len + 1 /\ c3.num_rnd_branches = c.num_rnd_branches
      /\ c3.assembly_file = c.assembly_file
  BY <1>5 DEF Quiet, Fields
<1>. HIDE DEF c3
<1>7. Quiet(c3, c4)
  BY <1>6, QuietSteps
<1>. HIDE DEF c4
<1>8. /\ DOMAIN c5 = Fields
      /\ c5.branch_num = c.branch_num /\ c5.inp_branch_num = c.inp_branch_num
      /\ c5.string_eq_branch_num = c.string_eq_branch_num
      /\ c5.repeats = c.repeats
      /\ c5.num_len = c.num_len + 1 /\ c5.num_rnd_branches = c.num_rnd_branches
      /\ c5.assembly_file = c.assembly_file \o code
  BY <1>6, <1>7 DEF Quiet, Emit, Fields
<1>. HIDE DEF c5
<1>9. ASSUME NEW m, Counts(c, m) PROVE Counts(c5, m)
  <2>1. NumbersOK(c5, m)
    BY <1>8, <1>9 DEF NumbersOK, Counts
  <2>2. SameBut(c, c5, "LEN")
    BY <1>8 DEF SameBut
  <2>3. Adds(c, m, c5, m, code)
    BY <1>2, <1>8, <1>9, <2>1, <2>2
  <2>. QED  BY <1>8, <1>9, <2>1, <2>3, CountsMore
<1>10. CountsOn(c, c5)
  BY <1>8, <1>9 DEF CountsOn
<1>11. CountsOn(c5, d)
  BY <1>8, CountedSteps
<1>. HIDE DEF d
<1>. QED  BY <1>1, <1>10, <1>11, CountsThrough

LEMMA EvalRndCounts ==
  ASSUME NEW c, DOMAIN c = Fields
  PROVE  CountsOn(c, EvalRnd(c))
<1>. DEFINE n == 2 * c.num_rnd_branches
            r == first_free_reg(c)
            code == <<Branch("RND:", n), Label("RND", n + 1), Label("RND", n),
                      Branch("RND", n + 1)>>
            c1 == Lookup(c, <<RND>>)
            c2 == Scratch(c1, JUNK)
            c3 == [c2 EXCEPT !.num_rnd_branches = @ + 1]
            c4 == Emit(c3, code)
            d == PushOperand(c4, Reg(r))
<1>1. d = EvalRnd(c)
  BY DEF EvalRnd
<1>2. \A m : Counts(c, m) =>
        \A e : SameBut(c, e, "RND") /\ NumbersOK(e, m)
                 /\ e.num_rnd_branches = c.num_rnd_branches + 1
                 => Adds(c, m, e, m, code)
  BY AddsRnd DEF Counts
<1>. HIDE DEF n, r, code
<1>3. Quiet(c, c1)
  BY QuietSteps
<1>. HIDE DEF c1
<1>4. Quiet(c1, c2)
  BY <1>3, CallStays, QuietSteps
<1>. HIDE DEF c2
<1>5. Quiet(c, c2)
  BY <1>3, <1>4 DEF Quiet
<1>6. /\ DOMAIN c4 = Fields
      /\ c4.branch_num = c.branch_num /\ c4.inp_branch_num = c.inp_branch_num
      /\ c4.string_eq_branch_num = c.string_eq_branch_num
      /\ c4.repeats = c.repeats
      /\ c4.num_len = c.num_len /\ c4.num_rnd_branches = c.num_rnd_branches + 1
      /\ c4.assembly_file = c.assembly_file \o code
  BY <1>5 DEF Quiet, Fields, Emit
<1>. HIDE DEF c4
<1>7. ASSUME NEW m, Counts(c, m) PROVE Counts(c4, m)
  <2>1. NumbersOK(c4, m)
    BY <1>6, <1>7 DEF NumbersOK, Counts
  <2>2. SameBut(c, c4, "RND")
    BY <1>6 DEF SameBut
  <2>3. Adds(c, m, c4, m, code)
    BY <1>2, <1>6, <1>7, <2>1, <2>2
  <2>. QED  BY <1>6, <1>7, <2>1, <2>3, CountsMore
<1>8. CountsOn(c, c4)
  BY <1>6, <1>7 DEF CountsOn
<1>9. CountsOn(c4, d)
  BY <1>6, CountedSteps
<1>. HIDE DEF d
<1>. QED  BY <1>1, <1>8, <1>9, CountsThrough

LEMMA StringCounts ==
  ASSUME NEW c, DOMAIN c = Fields, NEW s
  PROVE  CountsOn(c, store_string_literal_in_memory(c, s))
<1>. DEFINE r == first_free_reg(c)
            c1 == ScratchTaken(c, JUNK)
            c2 == Scratch(c1, JUNK)
            d == Release(c2, r)
<1>1. CountsOn(c, c1)
  BY CountedSteps
<1>. HIDE DEF c1
<1>2. CountsOn(c1, c2)
  BY <1>1, CallStays, CountedSteps
<1>. HIDE DEF c2
<1>3. CountsOn(c2, d)
  BY <1>2, CallStays, CountedSteps
<1>. HIDE DEF d
<1>4. CountsOn(c, d)
  BY <1>1, <1>2, <1>3, CountsThrough
<1>5. CountsOn(c, Fail(c))
  BY CountedSteps
<1>. QED  BY <1>4, <1>5 DEF store_string_literal_in_memory, d, c2, c1, r

LEMMA EvalVariableCounts ==
  ASSUME NEW c, DOMAIN c = Fields, NEW v
  PROVE  CountsOn(c, EvalVariable(c, v))
<1>. DEFINE d == Lookup(c, <<v>>)
            o == Reg(Address(c, v))
<1>1. CountsOn(c, d) /\ CountsOn(c, Fail(c))
  BY CountedSteps
<1>. HIDE DEF d
<1>2. CountsOn(d, PushOperand(d, o))
  BY <1>1, CallStays, CountedSteps
<1>3. CountsOn(c, PushOperand(d, o))
  BY <1>1, <1>2, CountsThrough
<1>. QED  BY <1>1, <1>3 DEF EvalVariable, d

LEMMA EvalLenCounts ==
  ASSUME NEW c, DOMAIN c = Fields, NEW token
  PROVE  CountsOn(c, EvalLen(c, token))
<1>. DEFINE s == ArgumentOf[token]
            c1 == Lookup(c, <<token>>)
            c2 == FindString(c1, s)
            d == CountFound(c2)
<1>1. CountsOn(c, c1)
  BY CountedSteps
<1>. HIDE DEF c1
<1>2. CountsOn(c1, c2)
  <2>1. DOMAIN c1 = Fields
    BY <1>1 DEF CountsOn
  <2>2. /\ CountsOn(c1, store_string_literal_in_memory(c1, s)) /\ CountsOn(c1, Fail(c1))
        /\ CountsOn(c1, Lookup(c1, <<s>>))
    BY <2>1, StringCounts, CountedSteps
  <2>. QED  BY <2>2 DEF FindString
<1>. HIDE DEF c2
<1>3. CountsOn(c2, d)
  BY <1>2, CallStays, CountFoundCounts
<1>. HIDE DEF d
<1>4. CountsOn(c, d)
  BY <1>1, <1>2, <1>3, CountsThrough
<1>. QED  BY <1>4 DEF EvalLen, d, c2, c1

LEMMA EvalLeafCounts ==
  ASSUME NEW c, DOMAIN c = Fields, NEW token, NEW ends_line
  PROVE  CountsOn(c, EvalLeaf(c, token, ends_line))
<1>1. CountsOn(c, Fail(c)) /\ CountsOn(c, PushOperand(c, Constant(token)))
  BY CountedSteps
<1>. QED  BY <1>1, EvalLenCounts, EvalRndCounts, EvalVariableCounts DEF EvalLeaf

LEMMA CombineCounts ==
  ASSUME NEW c, DOMAIN c = Fields
  PROVE  CountsOn(c, Combine(c))
<1>. DEFINE n == Len(c.operands)
            left == c.operands[n - 2]
            r == first_free_reg(c)
            value == Compound(c, left, c.operands[n - 1].token, c.operands[n])
            c1 == ScratchTaken(c, value)
            c2 == Release(c1, left.n)
            c3 == Release(c2, r)
            d == [c3 EXCEPT !.operands = Append(SubSeq(@, 1, n - 3), Reg(r))]
<1>1. Combine(c) = d
  BY DEF Combine, FreeResult, FreeOperands
<1>. HIDE DEF value, left, r, n
<1>2. CountsOn(c, c1)
  BY CountedSteps
<1>. HIDE DEF c1
<1>3. CountsOn(c1, c2)
  BY <1>2, CallStays, CountedSteps
<1>. HIDE DEF c2
<1>4. CountsOn(c2, c3)
  BY <1>3, CallStays, CountedSteps
<1>. HIDE DEF c3
<1>5. Quiet(c3, d)
  BY <1>4 DEF CountsOn, Quiet, Fields
<1>. HIDE DEF d
<1>. QED  BY <1>1, <1>2, <1>3, <1>4, <1>5, QuietCounts, CountsThrough

LEMMA EvalTokenCounts ==
  ASSUME NEW c, DOMAIN c = Fields, NEW b, NEW i, NEW ends_line
  PROVE  CountsOn(c, EvalToken(c, b, i, ends_line))
<1>. DEFINE d == EvalToken(c, b, i, ends_line)
<1>1. CASE ~Compiling(c)
  BY <1>1, CountedSteps DEF EvalToken
<1>2. CASE Compiling(c) /\ b[i] = "("
  BY <1>2, CountedSteps, TokenCases
<1>3. CASE Compiling(c) /\ b[i] = ")"
  BY <1>3, CombineCounts, TokenCases
<1>4. CASE Compiling(c) /\ b[i] \in OPERATORS
  <2>. DEFINE e == KeepLeft(c)
              o == Operator(b[i])
  <2>1. CountsOn(c, e)
    BY CountedSteps
  <2>. HIDE DEF e, o
  <2>2. CountsOn(e, PushOperand(e, o))
    BY <2>1, CallStays, CountedSteps
  <2>3. d = PushOperand(e, o)
    BY <1>4, TokenCases DEF e, o
  <2>. QED  BY <2>1, <2>2, <2>3, CountsThrough
<1>5. CASE Compiling(c) /\ b[i] \notin OPERATORS \cup {"(", ")"}
  BY <1>5, EvalLeafCounts, TokenCases
<1>. QED  BY <1>1, <1>2, <1>3, <1>4, <1>5

LEMMA EvalArithmeticCounts ==
  ASSUME NEW c, DOMAIN c = Fields, NEW b, Len(b) \in Nat, NEW ends_line
  PROVE  CountsOn(c, eval_arithmetic(c, b, ends_line))
<1>1. PICK f : AreSteps(f, c, b, ends_line)
  BY EvalSteps
<1>. DEFINE T == {i \in 0 .. Len(b) : ~CountsOn(c, f[i])}
<1>2. T = {}
  <2>. SUFFICES ASSUME T # {} PROVE FALSE
    OBVIOUS
  <2>1. T \in SUBSET Nat
    OBVIOUS
  <2>2. PICK m \in T : \A y \in T : ~(y < m)
    <3>. HIDE DEF T
    <3>. QED  BY <2>1, LeastNatural
  <2>3. m # 0
    BY <1>1, CountedSteps DEF AreSteps
  <2>4. m \in 1 .. Len(b) /\ m - 1 \in 0 .. Len(b) /\ CountsOn(c, f[m - 1])
    BY <2>2, <2>3
  <2>5. CountsOn(f[m - 1], f[m])
    BY <1>1, <2>4, EvalTokenCounts DEF AreSteps, CountsOn
  <2>. QED  BY <2>4, <2>5, CountsThrough
<1>. QED  BY <1>1, <1>2 DEF AreSteps

LEMMA EvalCounts ==
  ASSUME NEW c, DOMAIN c = Fields, NEW tokens, Len(tokens) \in Nat, NEW ends_line
  PROVE  CountsOn(c, Eval(c, tokens, ends_line))
<1>. DEFINE b == shunting_yard(tokens)
<1>1. CASE ~Compiling(c) \/ b = REJECTED
  BY <1>1, CountedSteps DEF Eval, EvalBracketed
<1>2. CASE Compiling(c) /\ b # REJECTED
  <2>1. WellBracketed(b)
    BY <1>2, BracketsWell
  <2>. HIDE DEF b
  <2>2. Len(b) \in Nat
    BY <2>1, LongerSequence DEF WellBracketed, Rises
  <2>3. CountsOn(c, eval_arithmetic(c, b, ends_line))
    BY <2>2, EvalArithmeticCounts
  <2>. QED  BY <1>2, <2>3 DEF Eval, EvalBracketed, b
<1>. QED  BY <1>1, <1>2

LEMMA DeclareCounts ==
  ASSUME NEW c, DOMAIN c = Fields, NEW v
  PROVE  CountsOn(c, Declare(c, v))
<1>. DEFINE looked == Lookup(c, <<v>>)
            r == first_free_reg(c)
            taken == Take(looked, r)
            d == [taken EXCEPT !.var_reg_table = AfterInsert(@, <<v>>, r),
                               !.kept = @ \cup {r}, !.exposed = @ \ {v}]
<1>1. Quiet(c, looked) /\ Quiet(c, Undefined(c))
  BY QuietSteps
<1>2. Quiet(looked, taken)
  <2>. HIDE DEF looked
  <2>. QED  BY <1>1, CallStays, QuietSteps
<1>3. Quiet(c, d)
  <2>. HIDE DEF taken, looked, r
  <2>1. Quiet(taken, d)
    BY <1>2 DEF Quiet, Fields
  <2>. HIDE DEF d
  <2>. QED  BY <1>1, <1>2, <2>1 DEF Quiet
<1>4. Declare(c, v) \in {looked, Undefined(c), d}
  BY DEF Declare
<1>. HIDE DEF looked, d
<1>5. Quiet(looked, Undefined(looked))
  BY <1>1, CallStays, QuietSteps
<1>. QED  BY <1>1, <1>3, <1>4, <1>5, QuietCounts

LEMMA AssignCounts ==
  ASSUME NEW c, DOMAIN c = Fields, NEW v, NEW r
  PROVE  CountsOn(c, Assign(c, v, r))
<1>1. Quiet(c, Assign(c, v, r))
  BY DEF Assign, Write, Quiet, Fields
<1>. QED  BY <1>1, QuietCounts

LEMMA ComparedCounts ==
  ASSUME NEW c, DOMAIN c = Fields, NEW left, Len(left) \in Nat, Len(line.right) \in Nat
  PROVE  CountsOn(c, CompareLeft(Eval(c, left, FALSE)))
<1>. DEFINE c1 == Eval(c, left, FALSE)
            n == LastOperand(c1).n
            c2 == Take(c1, n)
            c3 == Eval(c2, line.right, FALSE)
<1>1. CountsOn(c, c1)
  BY EvalCounts
<1>. HIDE DEF c1, n
<1>2. CountsOn(c1, c2) /\ CountsOn(c1, Undefined(c1))
  BY <1>1, CallStays, CountedSteps
<1>. HIDE DEF c2
<1>3. CountsOn(c2, c3)
  BY <1>2, CallStays, EvalCounts
<1>. HIDE DEF c3
<1>4. CountsOn(c3, Release(c3, n))
  BY <1>3, CallStays, CountedSteps
<1>5. CountsOn(c, Release(c3, n)) /\ CountsOn(c, Undefined(c1))
  BY <1>1, <1>2, <1>3, <1>4, CountsThrough
<1>6. CompareLeft(c1) \in {c1, Undefined(c1), Release(c3, n)}
  BY DEF CompareLeft, CompareTo, c3, c2, n
<1>. QED  BY <1>1, <1>5, <1>6 DEF c1

LEMMA StringsComparedCounts ==
  ASSUME DOMAIN compiler = Fields
  PROVE  CountsOn(compiler, StringsCompared)
<1>1. ASSUME NEW c, DOMAIN c = Fields, NEW s PROVE CountsOn(c, StringOperand(c, s))
  <2>. DEFINE r == first_free_reg(c)
              taken == Take(c, r)
              d == [taken EXCEPT !.kept = @ \cup {r}]
  <2>1. Quiet(c, taken)
    BY <1>1, QuietSteps
  <2>2. Quiet(c, d)
    <3>. HIDE DEF taken, r
    <3>. QED  BY <2>1 DEF Quiet, Fields
  <2>. HIDE DEF d, r
  <2>3. Quiet(d, PushOperand(d, Reg(r)))
    BY <2>2, CallStays, QuietSteps
  <2>4. CountsOn(c, PushOperand(d, Reg(r)))
    BY <2>2, <2>3, QuietCounts, CountsThrough
  <2>. QED  BY <1>1, <2>4, CountedSteps, EvalVariableCounts DEF StringOperand, d, taken, r
<1>2. ASSUME NEW c, DOMAIN c = Fields PROVE CountsOn(c, TakeScratch(c))
  <2>. DEFINE d == ScratchTaken(c, JUNK)
  <2>1. CountsOn(c, d)
    BY <1>2, CountedSteps
  <2>. HIDE DEF d
  <2>2. CountsOn(d, PushOperand(d, Reg(first_free_reg(c))))
    BY <2>1, CallStays, CountedSteps
  <2>. QED  BY <2>1, <2>2, CountsThrough DEF TakeScratch, d
<1>. DEFINE c1 == StringOperand(compiler, line.left[1])
            c2 == StringOperand(c1, line.right[1])
            c3 == TakeScratch(c2)
            c4 == TakeScratch(c3)
            c5 == TakeScratch(c4)
<1>3. StringsCompared \in {Fail(compiler), c5}
  BY DEF StringsCompared
<1>4. CountsOn(compiler, Fail(compiler))
  BY CountedSteps
<1>5. CountsOn(compiler, c1)
  BY <1>1
<1>. HIDE DEF c1
<1>6. CountsOn(compiler, c2)
  <2>1. CountsOn(c1, c2)
    BY <1>1, <1>5 DEF CountsOn
  <2>. QED  BY <1>5, <2>1, CountsThrough
<1>. HIDE DEF c2
<1>7. CountsOn(compiler, c3)
  <2>1. CountsOn(c2, c3)
    BY <1>2, <1>6 DEF CountsOn
  <2>. QED  BY <1>6, <2>1, CountsThrough
<1>. HIDE DEF c3
<1>8. CountsOn(compiler, c4)
  <2>1. CountsOn(c3, c4)
    BY <1>2, <1>7 DEF CountsOn
  <2>. QED  BY <1>7, <2>1, CountsThrough
<1>. HIDE DEF c4
<1>9. CountsOn(compiler, c5)
  <2>1. CountsOn(c4, c5)
    BY <1>2, <1>8 DEF CountsOn
  <2>. QED  BY <1>8, <2>1, CountsThrough
<1>. HIDE DEF c5
<1>. QED  BY <1>3, <1>4, <1>9

(***************************************************************************)
(* The numbers of the labels, through the lines                            *)
(***************************************************************************)
Context(branches, inputs, inIf, inStr) ==
  [branches |-> branches, inputs |-> inputs, inIf |-> inIf, inStr |-> inStr]

\* The outermost call when c compiles and cs wait for it.
Outer(c, cs) == IF cs = <<>> THEN c ELSE cs[1].call

ContextOf(c, cs) ==
  Context(Outer(c, cs).branch_num, Outer(c, cs).inp_branch_num,
          cs # <<>> /\ cs[1].ending.branches = 2,
          \E i \in DOMAIN cs : cs[i].ending.strings = 1)

ComparesNumbers(ending) == ending.branches = 2 /\ ending.strings = 0
ComparesStrings(ending) == ending.branches = 0 /\ ending.strings = 1

\* Without a repetition only a comparison of strings is in another IF.
NestedOnce(cs) ==
  /\ Len(cs) \in 0 .. 2
  /\ Len(cs) = 1 => ComparesNumbers(cs[1].ending) \/ ComparesStrings(cs[1].ending)
  /\ Len(cs) = 2 => ComparesNumbers(cs[1].ending) /\ ComparesStrings(cs[2].ending)

LabelsOK(c, cs) ==
  /\ c.repeats \in BOOLEAN
  /\ ~c.repeats => NestedOnce(cs) /\ Counts(c, ContextOf(c, cs))

\* The invariant that the labels need.
LInv == LabelsOK(compiler, callers)

LEMMA ContextFacts ==
  ASSUME NEW b, NEW i, NEW f, NEW s
  PROVE  /\ Context(b, i, f, s).branches = b /\ Context(b, i, f, s).inputs = i
         /\ Context(b, i, f, s).inIf = f /\ Context(b, i, f, s).inStr = s
BY DEF Context

LEMMA InitLInv == Init => LInv
<1>. SUFFICES ASSUME Init PROVE LInv
  OBVIOUS
<1>1. PICK program \in Programs : compiler = Call(program, Outermost)
  BY DEF Init
<1>2. callers = <<>> /\ DOMAIN <<>> = {} /\ Len(<<>>) = 0 /\ IsSequence(<<>>)
  <2>1. <<>> \in Seq({})
    OBVIOUS
  <2>. QED  BY <2>1 DEF Init, IsSequence
<1>3. /\ compiler.branch_num = 0 /\ compiler.inp_branch_num = 0 /\ compiler.num_len = 0
      /\ compiler.num_rnd_branches = 0 /\ compiler.string_eq_branch_num = 0
      /\ compiler.repeats = FALSE /\ compiler.assembly_file = <<>>
  BY <1>1 DEF Call, Outermost
<1>4. DOMAIN compiler = Fields
  BY <1>1, CallTyped DEF CallOK
<1>. DEFINE m == Context(0, 0, FALSE, FALSE)
<1>5. ContextOf(compiler, callers) = m
  BY <1>2, <1>3 DEF ContextOf, Outer
<1>6. /\ m.branches = 0 /\ m.inputs = 0
      /\ m.inIf \in BOOLEAN /\ m.inStr \in BOOLEAN /\ ~m.inIf /\ ~m.inStr
  BY DEF Context
<1>. HIDE DEF m
<1>7. NumbersOK(compiler, m)
  BY <1>3, <1>6 DEF NumbersOK
<1>8. ASSUME NEW f, NEW n \in Nat PROVE ~Placed(compiler, m, f, n)
  <2>1. /\ ~(n < 2 * compiler.num_len) /\ ~(n < 2 * compiler.num_rnd_branches)
        /\ ~(n < 2 * m.inputs) /\ ~(n < m.branches) /\ ~(n < 4 * compiler.string_eq_branch_num)
    BY <1>3, <1>6
  <2>. QED  BY <1>6, <2>1 DEF Placed
<1>9. FileOK(compiler, m, <<>>)
  BY <1>2, <1>8 DEF FileOK, OnlyOnce
<1>10. NestedOnce(callers)
  BY <1>2 DEF NestedOnce
<1>. QED  BY <1>3, <1>4, <1>5, <1>7, <1>9, <1>10 DEF LInv, LabelsOK, Counts

\* A line that is no IF.
LEMMA LineCounts ==
  ASSUME LInv, NEW d, CountsOn(compiler, d), compiler' = EndLine(d), callers' = callers
  PROVE  LInv'
<1>. DEFINE e == EndLine(d)
<1>1. CountsOn(d, e)
  BY CallStays, CountedSteps
<1>2. CountsOn(compiler, e)
  BY <1>1, CountsThrough
<1>. HIDE DEF e
<1>3. ContextOf(e, callers) = ContextOf(compiler, callers)
  BY <1>2 DEF ContextOf, Outer, CountsOn
<1>4. LabelsOK(e, callers)
  BY <1>2, <1>3 DEF LInv, LabelsOK, CountsOn
<1>. QED  BY <1>4 DEF LInv, e

\* What a call that compiles a line is, and its line.
LEMMA LineTyped ==
  ASSUME IInv, NEW kind, Reading(kind)
  PROVE  /\ DOMAIN compiler = Fields
         /\ Len(line.left) \in Nat /\ Len(line.right) \in Nat
         /\ CountsOn(compiler, Declared) /\ DOMAIN Declared = Fields
<1>1. LineStarts(compiler) /\ line = Head(compiler.lines)
  BY LineReads
<1>2. DOMAIN compiler = Fields
  BY <1>1 DEF LineStarts, BetweenLines, CallOK
<1>3. CountsOn(compiler, Declared)
  BY <1>2, DeclareCounts DEF Declared
<1>. QED  BY <1>1, <1>2, <1>3, CallStays, LineStartsReady

LEMMA SimpleLineCounts ==
  ASSUME IInv, LInv,
         LetNumber \/ LetString \/ PrintNumber \/ PrintString \/ InputNumber \/ Return \/ CopyLine
  PROVE  LInv'
<1>1. CASE LetNumber
  <2>. DEFINE c == Eval(Declared, line.left, TRUE)
  <2>1. /\ DOMAIN compiler = Fields /\ Len(line.left) \in Nat
        /\ CountsOn(compiler, Declared) /\ DOMAIN Declared = Fields
    BY <1>1, LineTyped DEF LetNumber
  <2>2. CountsOn(Declared, c)
    BY <2>1, EvalCounts
  <2>3. compiler' = EndLine(Assign(c, line.variable, Target)) /\ callers' = callers
    BY <1>1 DEF LetNumber
  <2>. HIDE DEF c
  <2>4. CountsOn(c, Assign(c, line.variable, Target))
    BY <2>2, CallStays, AssignCounts
  <2>5. CountsOn(compiler, Assign(c, line.variable, Target))
    BY <2>1, <2>2, <2>4, CountsThrough
  <2>. QED  BY <2>3, <2>5, LineCounts
<1>2. CASE LetString
  <2>. DEFINE c == store_string_literal_in_memory(Declared, line.left[1])
  <2>1. CountsOn(compiler, Declared) /\ DOMAIN Declared = Fields
    BY <1>2, LineTyped DEF LetString
  <2>2. CountsOn(Declared, c)
    BY <2>1, StringCounts
  <2>3. compiler' = EndLine(Assign(c, line.variable, Target)) /\ callers' = callers
    BY <1>2 DEF LetString
  <2>. HIDE DEF c
  <2>4. CountsOn(c, Assign(c, line.variable, Target))
    BY <2>2, CallStays, AssignCounts
  <2>5. CountsOn(compiler, Assign(c, line.variable, Target))
    BY <2>1, <2>2, <2>4, CountsThrough
  <2>. QED  BY <2>3, <2>5, LineCounts
<1>3. CASE PrintNumber
  <2>. DEFINE c == Eval(compiler, line.left, FALSE)
  <2>1. DOMAIN compiler = Fields /\ Len(line.left) \in Nat
    BY <1>3, LineTyped DEF PrintNumber
  <2>2. CountsOn(compiler, c)
    BY <2>1, EvalCounts
  <2>3. \E d \in {c, Scratch(c, JUNK)} : compiler' = EndLine(d) /\ callers' = callers
    BY <1>3 DEF PrintNumber
  <2>. HIDE DEF c
  <2>4. CountsOn(c, Scratch(c, JUNK))
    BY <2>2, CallStays, CountedSteps
  <2>5. CountsOn(compiler, Scratch(c, JUNK))
    BY <2>2, <2>4, CountsThrough
  <2>. QED  BY <2>2, <2>3, <2>5, LineCounts
<1>4. CASE PrintString
  <2>. DEFINE s == line.left[1]
  <2>1. DOMAIN compiler = Fields
    BY <1>4, LineTyped DEF PrintString
  <2>2. CountsOn(compiler, EvalVariable(compiler, s))
    BY <2>1, EvalVariableCounts
  <2>3. CountsOn(compiler, store_string_literal_in_memory(compiler, s))
    BY <2>1, StringCounts
  <2>4. \E d \in {EvalVariable(compiler, s), store_string_literal_in_memory(compiler, s)} :
          compiler' = EndLine(d) /\ callers' = callers
    BY <1>4 DEF PrintString
  <2>. QED  BY <2>2, <2>3, <2>4, LineCounts
<1>5. CASE InputNumber
  <2>. DEFINE d == Assign(Declared, line.variable, Target)
  <2>1. CountsOn(compiler, Declared) /\ DOMAIN Declared = Fields
    BY <1>5, LineTyped DEF InputNumber
  <2>2. CountsOn(Declared, d)
    BY <2>1, AssignCounts
  <2>3. compiler' = EndLine(d) /\ callers' = callers
    BY <1>5 DEF InputNumber
  <2>. HIDE DEF d
  <2>. QED  BY <2>1, <2>2, <2>3, LineCounts, CountsThrough
<1>6. CASE Return
  <2>1. CountsOn(compiler, Scratch(compiler, JUNK))
    BY <1>6, LineTyped, CountedSteps DEF Return
  <2>. QED  BY <1>6, <2>1, LineCounts DEF Return
<1>7. CASE CopyLine
  <2>1. CountsOn(compiler, compiler)
    BY <1>7, LineTyped, CountedSteps DEF CopyLine
  <2>. QED  BY <1>7, <2>1, LineCounts DEF CopyLine
<1>. QED  BY <1>1, <1>2, <1>3, <1>4, <1>5, <1>6, <1>7

LEMMA FinishCounts ==
  ASSUME IInv, LInv, Finish
  PROVE  LInv'
<1>. DEFINE d == [compiler EXCEPT !.status = "done"]
<1>1. DOMAIN compiler = Fields
  BY DEF IInv, BetweenLines, CallOK
<1>2. Quiet(compiler, d)
  BY <1>1 DEF Quiet, Fields
<1>3. compiler' = d /\ callers' = callers
  BY DEF Finish
<1>. HIDE DEF d
<1>4. CountsOn(compiler, d)
  BY <1>2, QuietCounts
<1>5. ContextOf(d, callers) = ContextOf(compiler, callers)
  BY <1>4 DEF ContextOf, Outer, CountsOn
<1>6. LabelsOK(d, callers)
  BY <1>4, <1>5 DEF LInv, LabelsOK, CountsOn
<1>. QED  BY <1>3, <1>6 DEF LInv

LEMMA InputStringCounts ==
  ASSUME IInv, LInv, InputString
  PROVE  LInv'
<1>. DEFINE n == 2 * compiler.inp_branch_num
            code == <<Branch("INP", n), Label("INP", n + 1), Label("INP", n), Branch("INP", n + 1)>>
            c1 == Assign(Declared, line.variable, Target)
            c2 == Scratch(c1, JUNK)
            c3 == [c2 EXCEPT !.inp_branch_num = @ + 1, !.repeats = @ \/ callers # <<>>]
            d == Emit(c3, code)
            e == EndLine(d)
<1>1. compiler' = e /\ callers' = callers
  BY DEF InputString
<1>2. CountsOn(compiler, Declared) /\ DOMAIN Declared = Fields
  BY LineTyped DEF InputString
<1>3. CountsOn(compiler, c1)
  BY <1>2, AssignCounts, CountsThrough
<1>. HIDE DEF c1
<1>4. CountsOn(compiler, c2)
  <2>1. CountsOn(c1, c2)
    BY <1>3, CallStays, CountedSteps
  <2>. QED  BY <1>3, <2>1, CountsThrough
<1>. HIDE DEF c2
<1>5. /\ DOMAIN c2 = Fields /\ c2.branch_num = compiler.branch_num
      /\ c2.inp_branch_num = compiler.inp_branch_num /\ c2.repeats = compiler.repeats
      /\ \A m : Counts(compiler, m) => Counts(c2, m)
  BY <1>4 DEF CountsOn
<1>6. compiler.repeats \in BOOLEAN
  BY DEF LInv, LabelsOK
<1>. HIDE DEF code
<1>7. /\ DOMAIN d = Fields /\ d.branch_num = c2.branch_num
      /\ d.inp_branch_num = c2.inp_branch_num + 1
      /\ d.string_eq_branch_num = c2.string_eq_branch_num
      /\ d.num_len = c2.num_len /\ d.num_rnd_branches = c2.num_rnd_branches
      /\ d.assembly_file = c2.assembly_file \o code
      /\ d.repeats = (c2.repeats \/ callers # <<>>)
  BY <1>5 DEF Emit, Fields
<1>. HIDE DEF d
<1>8. Quiet(d, e)
  BY <1>7, QuietSteps
<1>. HIDE DEF e
<1>9. e.repeats = (compiler.repeats \/ callers # <<>>)
  BY <1>5, <1>7, <1>8 DEF Quiet
<1>10. ASSUME ~e.repeats PROVE NestedOnce(callers) /\ Counts(e, ContextOf(e, callers))
  <2>. DEFINE m == Context(compiler.branch_num, compiler.inp_branch_num, FALSE, FALSE)
              k == Context(compiler.branch_num, compiler.inp_branch_num + 1, FALSE, FALSE)
  <2>1. callers = <<>> /\ ~compiler.repeats
    BY <1>6, <1>9, <1>10
  <2>2. DOMAIN callers = {}
    BY <2>1
  <2>3. ContextOf(compiler, callers) = m
    BY <2>1, <2>2 DEF ContextOf, Outer
  <2>4. ContextOf(e, callers) = k
    BY <1>5, <1>7, <1>8, <2>1, <2>2 DEF ContextOf, Outer, Quiet
  <2>5. NestedOnce(callers) /\ Counts(compiler, m)
    BY <2>1, <2>3 DEF LInv, LabelsOK
  <2>6. /\ m.branches = k.branches /\ m.inputs = compiler.inp_branch_num
        /\ k.inputs = m.inputs + 1 /\ m.inIf = k.inIf /\ m.inStr = k.inStr
    BY DEF Context
  <2>. HIDE DEF m, k
  <2>7. Counts(c2, m)
    BY <1>5, <2>5
  <2>8. NumbersOK(c2, m) /\ NumbersOK(d, k)
    BY <1>7, <2>6, <2>7 DEF Counts, NumbersOK
  <2>9. SameBut(c2, d, "none") /\ SameOuterBut(m, k, "INP")
    BY <1>7, <2>6 DEF SameBut, SameOuterBut
  <2>10. Adds(c2, m, d, k, code)
    BY <2>6, <2>8, <2>9, AddsInput DEF code
  <2>11. Counts(d, k)
    BY <1>7, <2>7, <2>8, <2>10, CountsMore
  <2>12. Counts(e, k)
    BY <1>8, <2>11, QuietCounts DEF CountsOn
  <2>. QED  BY <2>4, <2>5, <2>12
<1>11. e.repeats \in BOOLEAN
  BY <1>9
<1>. QED  BY <1>1, <1>10, <1>11 DEF LInv, LabelsOK

\* The command of an IF: the numbers go on, but for those of the input labels.
LEMMA CommandCounts ==
  ASSUME NEW lines, NEW c, NEW m, Counts(c, m)
  PROVE  Counts(Call(lines, c), m)
<1>. DEFINE d == Call(lines, c)
<1>1. DOMAIN d = Fields
  BY CallTyped DEF CallOK
<1>2. /\ d.num_len = c.num_len /\ d.num_rnd_branches = c.num_rnd_branches
      /\ d.string_eq_branch_num = c.string_eq_branch_num /\ d.assembly_file = c.assembly_file
  BY DEF Call
<1>. HIDE DEF d
<1>3. \A f, n : /\ Placed(c, m, f, n) <=> Placed(d, m, f, n)
                /\ Aimed(c, m, f, n) <=> Aimed(d, m, f, n)
  BY <1>2 DEF Placed, Aimed
<1>4. NumbersOK(d, m)
  BY <1>2 DEF Counts, NumbersOK
<1>5. FileOK(d, m, c.assembly_file)
  BY <1>3 DEF FileOK, Counts
<1>6. Counts(d, m)
  BY <1>1, <1>2, <1>4, <1>5 DEF Counts
<1>. QED  BY <1>6 DEF d

\* The stack of calls when an IF's command starts.
LEMMA CallersGrow ==
  ASSUME IInv, NEW w
  PROVE  LET cs == Append(callers, w)
         IN  /\ Len(callers) \in Nat /\ DOMAIN callers = 1 .. Len(callers)
             /\ Len(cs) = Len(callers) + 1 /\ DOMAIN cs = 1 .. Len(callers) + 1
             /\ \A i \in 1 .. Len(callers) : cs[i] = callers[i]
             /\ cs[Len(callers) + 1] = w
             /\ cs # <<>>
             /\ callers = <<>> <=> Len(callers) = 0
<1>. DEFINE cs == Append(callers, w)
<1>1. IsSequence(callers)
  BY DEF IInv
<1>2. PICK S : callers \in Seq(S)
  BY <1>1 DEF IsSequence
<1>3. /\ IsSequence(cs) /\ Len(callers) \in Nat /\ Len(cs) = Len(callers) + 1
      /\ \A i \in 1 .. Len(callers) : cs[i] = callers[i]
      /\ cs[Len(callers) + 1] = w
  BY <1>1, LongerSequence
<1>. HIDE DEF cs
<1>4. DOMAIN cs = 1 .. Len(cs) /\ DOMAIN callers = 1 .. Len(callers)
  BY <1>1, <1>3 DEF IsSequence
<1>5. cs # <<>>
  BY <1>3
<1>6. callers = <<>> <=> Len(callers) = 0
  BY <1>2, EmptySeq
<1>. QED  BY <1>3, <1>4, <1>5, <1>6 DEF cs

LEMMA IfNumbersCounts ==
  ASSUME IInv, LInv, IfNumbers
  PROVE  LInv'
<1>. DEFINE c == Compared
            n == c.branch_num
            code == <<Branch("L", n), Branch("L", n + 1), Label("L", n)>>
            c1 == [c EXCEPT !.repeats = @ \/ callers # <<>>]
            d == Emit(c1, code)
            waits == EndLine(d)
            w == [call |-> waits, ending |-> Ending(2, 0, {})]
            cs == Append(callers, w)
            called == Call(line.command, d)
<1>1. DOMAIN compiler = Fields /\ Len(line.left) \in Nat /\ Len(line.right) \in Nat
  BY LineTyped DEF IfNumbers
<1>2. CountsOn(compiler, c)
  BY <1>1, ComparedCounts DEF Compared
<1>3. StopInCondition(c) \/ CompileCommand(d, Ending(2, 0, {}))
  BY DEF IfNumbers
<1>4. CASE StopInCondition(c)
  BY <1>2, <1>4, LineCounts DEF StopInCondition
<1>5. CASE CompileCommand(d, Ending(2, 0, {}))
  <2>1. compiler' = called /\ callers' = cs
    BY <1>5 DEF CompileCommand
  <2>. HIDE DEF c
  <2>2. /\ DOMAIN c = Fields /\ c.branch_num = compiler.branch_num
        /\ c.inp_branch_num = compiler.inp_branch_num /\ c.repeats = compiler.repeats
        /\ \A m : Counts(compiler, m) => Counts(c, m)
    BY <1>2 DEF CountsOn
  <2>3. compiler.repeats \in BOOLEAN
    BY DEF LInv, LabelsOK
  <2>. HIDE DEF code
  <2>4. /\ DOMAIN d = Fields /\ d.branch_num = c.branch_num
        /\ d.inp_branch_num = c.inp_branch_num
        /\ d.string_eq_branch_num = c.string_eq_branch_num
        /\ d.num_len = c.num_len /\ d.num_rnd_branches = c.num_rnd_branches
        /\ d.assembly_file = c.assembly_file \o code
        /\ d.repeats = (c.repeats \/ callers # <<>>)
    BY <2>2 DEF Emit, Fields
  <2>. HIDE DEF d
  <2>5. Quiet(d, waits)
    BY <2>4, QuietSteps
  <2>6. called.repeats = d.repeats
    BY DEF Call
  <2>7. w.call = waits /\ w.ending.branches = 2 /\ w.ending.strings = 0
    BY DEF Ending
  <2>. HIDE DEF waits, w
  <2>8. /\ Len(callers) \in Nat /\ Len(cs) = Len(callers) + 1 /\ DOMAIN cs = 1 .. Len(callers) + 1
        /\ cs[Len(callers) + 1] = w /\ cs # <<>> /\ (callers = <<>> => Len(callers) = 0)
    BY CallersGrow
  <2>. HIDE DEF cs
  <2>9. ASSUME ~called.repeats PROVE NestedOnce(cs) /\ Counts(called, ContextOf(called, cs))
    <3>. DEFINE m == Context(compiler.branch_num, compiler.inp_branch_num, FALSE, FALSE)
                k == Context(compiler.branch_num, compiler.inp_branch_num, TRUE, FALSE)
    <3>1. callers = <<>> /\ ~compiler.repeats
      BY <2>2, <2>3, <2>4, <2>6, <2>9
    <3>2. Len(cs) = 1 /\ DOMAIN cs = {1} /\ cs[1] = w
      BY <2>8, <3>1
    <3>3. NestedOnce(cs)
      BY <2>7, <3>2 DEF NestedOnce, ComparesNumbers
    <3>4. DOMAIN callers = {}
      BY <3>1
    <3>5. ContextOf(compiler, callers) = m
      BY <3>1, <3>4 DEF ContextOf, Outer
    <3>6. ContextOf(called, cs) = k
      <4>1. /\ Outer(called, cs).branch_num = compiler.branch_num
            /\ Outer(called, cs).inp_branch_num = compiler.inp_branch_num
        BY <2>2, <2>4, <2>5, <2>7, <2>8, <3>2 DEF Outer, Quiet
      <4>2. cs # <<>> /\ cs[1].ending.branches = 2
        BY <2>7, <2>8, <3>2
      <4>3. ~ \E i \in DOMAIN cs : cs[i].ending.strings = 1
        BY <2>7, <3>2
      <4>. QED  BY <4>1, <4>2, <4>3 DEF ContextOf
    <3>7. Counts(compiler, m)
      BY <3>1, <3>5 DEF LInv, LabelsOK
    <3>8. /\ m.branches = n /\ k.branches = m.branches /\ k.inputs = m.inputs
          /\ ~m.inIf /\ k.inIf /\ k.inIf \in BOOLEAN /\ m.inStr = k.inStr
      BY <2>2 DEF Context
    <3>. HIDE DEF m, k
    <3>9. Counts(c, m)
      BY <2>2, <3>7
    <3>10. NumbersOK(c, m) /\ NumbersOK(d, k)
      BY <2>4, <3>8, <3>9 DEF Counts, NumbersOK
    <3>11. SameBut(c, d, "none") /\ SameOuterBut(m, k, "L")
      BY <2>4, <3>8 DEF SameBut, SameOuterBut
    <3>12. Adds(c, m, d, k, code)
      BY <3>8, <3>10, <3>11, AddsIf DEF code
    <3>13. Counts(d, k)
      BY <2>4, <3>9, <3>10, <3>12, CountsMore
    <3>. QED  BY <3>3, <3>6, <3>13, CommandCounts
  <2>10. called.repeats \in BOOLEAN
    BY <2>4, <2>6
  <2>. QED  BY <2>1, <2>9, <2>10 DEF LInv, LabelsOK
<1>. QED  BY <1>3, <1>4, <1>5

LEMMA IfStringsCounts ==
  ASSUME IInv, LInv, IfStrings
  PROVE  LInv'
<1>. DEFINE c == StringsCompared
            n == 4 * c.string_eq_branch_num
            code == <<Branch("STREQ", n), Bare("STREQ", n + 1), Label("STREQ", n),
                      Branch("STREQ", n + 2), Branch("STREQ", n + 1), Branch("STREQ", n + 3),
                      Label("STREQ", n + 2), Branch("STREQ", n + 3)>>
            c1 == [c EXCEPT !.repeats = @ \/ InString]
            d == Emit(c1, code)
            waits == EndLine(d)
            ending == Ending(0, 1, {c.operands[i].n : i \in 3 .. 5})
            w == [call |-> waits, ending |-> ending]
            cs == Append(callers, w)
            called == Call(line.command, d)
<1>1. DOMAIN compiler = Fields
  BY LineTyped DEF IfStrings
<1>2. CountsOn(compiler, c)
  BY <1>1, StringsComparedCounts
<1>3. StopInCondition(c) \/ CompileCommand(d, ending)
  BY DEF IfStrings
<1>4. CASE StopInCondition(c)
  BY <1>2, <1>4, LineCounts DEF StopInCondition
<1>5. CASE CompileCommand(d, ending)
  <2>1. compiler' = called /\ callers' = cs
    BY <1>5 DEF CompileCommand
  <2>2. ending.branches = 0 /\ ending.strings = 1
    BY DEF Ending
  <2>. HIDE DEF c, ending
  <2>3. /\ DOMAIN c = Fields /\ c.branch_num = compiler.branch_num
        /\ c.inp_branch_num = compiler.inp_branch_num /\ c.repeats = compiler.repeats
        /\ \A m : Counts(compiler, m) => Counts(c, m)
    BY <1>2 DEF CountsOn
  <2>4. compiler.repeats \in BOOLEAN /\ InString \in BOOLEAN
    BY DEF LInv, LabelsOK, InString
  <2>. HIDE DEF code
  <2>5. /\ DOMAIN d = Fields /\ d.branch_num = c.branch_num
        /\ d.inp_branch_num = c.inp_branch_num
        /\ d.string_eq_branch_num = c.string_eq_branch_num
        /\ d.num_len = c.num_len /\ d.num_rnd_branches = c.num_rnd_branches
        /\ d.assembly_file = c.assembly_file \o code
        /\ d.repeats = (c.repeats \/ InString)
    BY <2>3 DEF Emit, Fields
  <2>. HIDE DEF d
  <2>6. Quiet(d, waits)
    BY <2>5, QuietSteps
  <2>7. called.repeats = d.repeats
    BY DEF Call
  <2>8. w.call = waits /\ w.ending = ending
    OBVIOUS
  <2>. HIDE DEF waits, w
  <2>9. /\ Len(callers) \in Nat /\ DOMAIN callers = 1 .. Len(callers)
        /\ Len(cs) = Len(callers) + 1 /\ DOMAIN cs = 1 .. Len(callers) + 1
        /\ \A i \in 1 .. Len(callers) : cs[i] = callers[i]
        /\ cs[Len(callers) + 1] = w /\ cs # <<>> /\ (callers = <<>> <=> Len(callers) = 0)
    BY CallersGrow
  <2>. HIDE DEF cs
  <2>10. ASSUME ~called.repeats PROVE NestedOnce(cs) /\ Counts(called, ContextOf(called, cs))
    <3>. DEFINE main == Outer(compiler, callers)
                open == callers # <<>> /\ callers[1].ending.branches = 2
                m == Context(main.branch_num, main.inp_branch_num, open, FALSE)
                k == Context(main.branch_num, main.inp_branch_num, open, TRUE)
    <3>1. ~InString /\ ~compiler.repeats
      BY <2>3, <2>4, <2>5, <2>7, <2>10
    <3>2. NestedOnce(callers)
      BY <3>1 DEF LInv, LabelsOK
    <3>3. \A i \in DOMAIN callers : callers[i].ending.strings # 1
      BY <3>1 DEF InString
    <3>4. Len(callers) = 0 \/ (Len(callers) = 1 /\ ComparesNumbers(callers[1].ending))
      BY <2>9, <3>2, <3>3 DEF NestedOnce, ComparesStrings
    <3>5. NestedOnce(cs)
      BY <2>2, <2>8, <2>9, <3>4 DEF NestedOnce, ComparesStrings
    <3>6. ContextOf(compiler, callers) = m
      BY <3>3 DEF ContextOf
    <3>7. ContextOf(called, cs) = k
      <4>1. \E i \in DOMAIN cs : cs[i].ending.strings = 1
        BY <2>2, <2>8, <2>9
      <4>2. /\ Outer(called, cs).branch_num = main.branch_num
            /\ Outer(called, cs).inp_branch_num = main.inp_branch_num
        BY <2>3, <2>5, <2>6, <2>8, <2>9, <3>4 DEF Outer, Quiet
      <4>3. (cs # <<>> /\ cs[1].ending.branches = 2) <=> open
        BY <2>2, <2>8, <2>9, <3>4
      <4>. QED  BY <4>1, <4>2, <4>3 DEF ContextOf
    <3>8. Counts(compiler, m)
      BY <3>1, <3>6 DEF LInv, LabelsOK
    <3>9. /\ k.branches = m.branches /\ k.inputs = m.inputs /\ m.inIf = k.inIf
          /\ ~m.inStr /\ k.inStr /\ k.inStr \in BOOLEAN
      BY DEF Context
    <3>. HIDE DEF m, k
    <3>10. Counts(c, m)
      BY <2>3, <3>8
    <3>11. NumbersOK(c, m) /\ NumbersOK(d, k)
      BY <2>5, <3>9, <3>10 DEF Counts, NumbersOK
    <3>12. SameBut(c, d, "none") /\ SameOuterBut(m, k, "STREQ")
      BY <2>5, <3>9 DEF SameBut, SameOuterBut
    <3>13. Adds(c, m, d, k, code)
      BY <3>9, <3>11, <3>12, AddsIfStrings DEF code
    <3>14. Counts(d, k)
      BY <2>5, <3>10, <3>11, <3>13, CountsMore
    <3>. QED  BY <3>5, <3>7, <3>14, CommandCounts
  <2>11. called.repeats \in BOOLEAN
    BY <2>5, <2>7
  <2>. QED  BY <2>1, <2>10, <2>11 DEF LInv, LabelsOK
<1>. QED  BY <1>3, <1>4, <1>5

LEMMA EndIfCounts ==
  ASSUME IInv, LInv, EndIf
  PROVE  LInv'
<1>. DEFINE l == Len(callers)
            caller == Last(callers).call
            ending == Last(callers).ending
            c == Resumed(caller, compiler)
            code == <<EndLabel(c, ending)>>
            c1 == Emit(c, code)
            d == [c1 EXCEPT
                   !.branch_num = NextBranch(@, ending.branches),
                   !.string_eq_branch_num = @ + ending.strings,
                   !.free_reg_arr = @ \cup ending.scratch,
                   !.holds = [r \in Registers |-> IF r \in compiler.written THEN JUNK ELSE @[r]],
                   !.written = @ \cup compiler.written,
                   !.exposed = @ \cup VariablesIn(caller, compiler.written)]
            cs == Front(callers)
<1>1. compiler' = d /\ callers' = cs /\ callers # <<>>
  BY DEF EndIf
<1>2. /\ l \in Nat /\ DOMAIN callers = 1 .. l /\ l # 0
      /\ Last(callers) = callers[l] /\ cs = SubSeq(callers, 1, l - 1)
      /\ IsSequence(cs) /\ Len(cs) = l - 1 /\ DOMAIN cs = 1 .. l - 1
      /\ \A i \in 1 .. l - 1 : cs[i] = callers[i]
  <2>1. IsSequence(callers)
    BY DEF IInv
  <2>2. l \in Nat /\ DOMAIN callers = 1 .. l /\ (callers = <<>> <=> l = 0)
    BY CallersGrow
  <2>3. Last(callers) = callers[l] /\ cs = SubSeq(callers, 1, l - 1)
    BY DEF Last, Front
  <2>4. l - 1 \in Int /\ l - 1 <= Len(callers) /\ l - 1 \in Nat /\ l # 0
    BY <1>1, <2>2
  <2>5. IsSequence(cs) /\ Len(cs) = l - 1 /\ \A i \in 1 .. l - 1 : cs[i] = callers[i]
    BY <2>1, <2>3, <2>4, ShorterSequence
  <2>. HIDE DEF cs, l
  <2>6. DOMAIN cs = 1 .. Len(cs)
    BY <2>5 DEF IsSequence
  <2>. QED  BY <2>2, <2>3, <2>4, <2>5, <2>6 DEF l
<1>3. DOMAIN caller = Fields
  BY <1>2 DEF IInv, Waiting, CallOK
<1>. HIDE DEF caller, ending, cs, l
<1>4. /\ DOMAIN c = Fields
      /\ c.branch_num = caller.branch_num /\ c.inp_branch_num = caller.inp_branch_num
      /\ c.num_len = compiler.num_len /\ c.num_rnd_branches = compiler.num_rnd_branches
      /\ c.string_eq_branch_num = compiler.string_eq_branch_num
      /\ c.assembly_file = compiler.assembly_file /\ c.repeats = compiler.repeats
  BY <1>3 DEF Resumed, Fields
<1>. HIDE DEF c
<1>5. /\ DOMAIN d = Fields
      /\ d.branch_num = caller.branch_num + ending.branches
      /\ d.inp_branch_num = caller.inp_branch_num
      /\ d.num_len = compiler.num_len /\ d.num_rnd_branches = compiler.num_rnd_branches
      /\ d.string_eq_branch_num = compiler.string_eq_branch_num + ending.strings
      /\ d.assembly_file = compiler.assembly_file \o code /\ d.repeats = compiler.repeats
  <2>. HIDE DEF code
  <2>1. /\ DOMAIN c1 = Fields
        /\ c1.branch_num = c.branch_num /\ c1.inp_branch_num = c.inp_branch_num
        /\ c1.num_len = c.num_len /\ c1.num_rnd_branches = c.num_rnd_branches
        /\ c1.string_eq_branch_num = c.string_eq_branch_num
        /\ c1.assembly_file = c.assembly_file \o code /\ c1.repeats = c.repeats
    BY <1>4 DEF Emit, Fields
  <2>. HIDE DEF c1
  <2>. QED  BY <1>4, <2>1 DEF Fields, NextBranch
<1>6. code = <<IF ending.strings = 1 THEN Label("STREQ", 4 * compiler.string_eq_branch_num + 3)
                                     ELSE Label("L", caller.branch_num + 1)>>
  BY <1>4 DEF EndLabel
<1>. HIDE DEF d, code
<1>7. ASSUME ~compiler.repeats PROVE NestedOnce(cs) /\ Counts(d, ContextOf(d, cs))
  <2>. DEFINE m == ContextOf(compiler, callers)
  <2>1. NestedOnce(callers) /\ Counts(compiler, m)
    BY <1>7 DEF LInv, LabelsOK
  <2>2. /\ m.branches = callers[1].call.branch_num /\ m.inputs = callers[1].call.inp_branch_num
        /\ m.inIf = (callers[1].ending.branches = 2)
        /\ m.inStr = (\E i \in DOMAIN callers : callers[i].ending.strings = 1)
    BY <1>1 DEF ContextOf, Context, Outer
  <2>. HIDE DEF m
  <2>3. CASE l = 1 /\ ComparesNumbers(callers[1].ending)
    <3>. DEFINE b == caller.branch_num
                k == Context(b + 2, caller.inp_branch_num, FALSE, FALSE)
    <3>1. /\ caller = callers[1].call /\ ending = callers[1].ending
          /\ ending.branches = 2 /\ ending.strings = 0
      BY <1>2, <2>3 DEF caller, ending, ComparesNumbers
    <3>2. cs = <<>> /\ DOMAIN cs = {}
      BY <1>2, <2>3, EmptySeq DEF IsSequence
    <3>3. b \in Nat /\ m.branches = b /\ m.inputs = caller.inp_branch_num /\ m.inIf /\ ~m.inStr
      <4>1. b \in Nat /\ m.branches = b /\ m.inputs = caller.inp_branch_num
        BY <2>1, <2>2, <3>1 DEF Counts, NumbersOK
      <4>2. m.inIf
        BY <2>2, <3>1
      <4>3. ~ \E i \in DOMAIN callers : callers[i].ending.strings = 1
        BY <1>2, <2>3, <3>1
      <4>. QED  BY <2>2, <4>1, <4>2, <4>3
    <3>4. NestedOnce(cs)
      BY <1>2, <2>3 DEF NestedOnce
    <3>5. d.branch_num = b + 2 /\ d.string_eq_branch_num = compiler.string_eq_branch_num
      BY <1>5, <2>1, <3>1 DEF Counts, NumbersOK
    <3>6. ContextOf(d, cs) = k
      BY <1>5, <3>2, <3>5 DEF ContextOf, Outer
    <3>7. /\ k.branches = m.branches + 2 /\ k.inputs = m.inputs /\ k.inStr \in BOOLEAN
          /\ ~k.inStr /\ ~k.inIf /\ k.inIf \in BOOLEAN
      BY <3>3 DEF Context
    <3>. HIDE DEF k
    <3>8. NumbersOK(compiler, m) /\ NumbersOK(d, k)
      BY <1>5, <2>1, <3>5, <3>7 DEF Counts, NumbersOK
    <3>9. SameBut(compiler, d, "none") /\ SameOuterBut(m, k, "L")
      BY <1>5, <2>1, <3>3, <3>5, <3>7, <3>8 DEF SameBut, SameOuterBut, NumbersOK
    <3>10. code = <<Label("L", m.branches + 1)>>
      BY <1>6, <3>1, <3>3
    <3>11. Adds(compiler, m, d, k, code)
      BY <3>3, <3>7, <3>8, <3>9, <3>10, AddsEndIf
    <3>12. Counts(d, k)
      BY <1>5, <2>1, <3>8, <3>11, CountsMore
    <3>. QED  BY <3>4, <3>6, <3>12
  <2>4. CASE \/ l = 1 /\ ComparesStrings(callers[1].ending)
             \/ l = 2 /\ ComparesNumbers(callers[1].ending) /\ ComparesStrings(callers[2].ending)
    <3>. DEFINE first == callers[1].call
                open == callers[1].ending.branches = 2
                k == Context(first.branch_num, first.inp_branch_num, open, FALSE)
    <3>1. ending.branches = 0 /\ ending.strings = 1
      BY <1>2, <2>4 DEF ending, ComparesStrings
    <3>2. m.inStr
      BY <1>2, <2>2, <2>4 DEF ComparesStrings
    <3>3. NestedOnce(cs)
      BY <1>2, <2>4 DEF NestedOnce
    <3>4. d.string_eq_branch_num = compiler.string_eq_branch_num + 1
      BY <1>5, <3>1
    <3>5. ContextOf(d, cs) = k
      <4>1. CASE l = 1 /\ ComparesStrings(callers[1].ending)
        <5>1. cs = <<>> /\ DOMAIN cs = {} /\ caller = first
          BY <1>2, <4>1, EmptySeq DEF IsSequence, caller
        <5>2. ~open
          BY <4>1 DEF ComparesStrings
        <5>3. first.branch_num \in Nat
          BY <2>1, <2>2 DEF Counts, NumbersOK
        <5>4. d.branch_num = first.branch_num /\ d.inp_branch_num = first.inp_branch_num
          BY <1>5, <3>1, <5>1, <5>3
        <5>. QED  BY <5>1, <5>2, <5>4 DEF ContextOf, Outer
      <4>2. CASE l = 2 /\ ComparesNumbers(callers[1].ending)
        <5>1. cs # <<>> /\ DOMAIN cs = {1} /\ cs[1] = callers[1]
          BY <1>2, <4>2
        <5>2. open /\ callers[1].ending.strings # 1
          BY <4>2 DEF ComparesNumbers
        <5>. QED  BY <5>1, <5>2 DEF ContextOf, Outer
      <4>. QED  BY <2>4, <4>1, <4>2
    <3>6. /\ k.branches = m.branches /\ k.inputs = m.inputs /\ k.inIf = m.inIf
          /\ ~k.inStr /\ k.inStr \in BOOLEAN
      BY <2>2 DEF Context
    <3>. HIDE DEF k
    <3>7. NumbersOK(compiler, m) /\ NumbersOK(d, k)
      BY <1>5, <2>1, <3>4, <3>6 DEF Counts, NumbersOK
    <3>8. SameBut(compiler, d, "STREQ") /\ SameOuterBut(m, k, "STREQ")
      BY <1>5, <3>6 DEF SameBut, SameOuterBut
    <3>9. code = <<Label("STREQ", 4 * compiler.string_eq_branch_num + 3)>>
      BY <1>6, <3>1
    <3>10. Adds(compiler, m, d, k, code)
      BY <3>2, <3>4, <3>6, <3>7, <3>8, <3>9, AddsEndIfStrings
    <3>11. Counts(d, k)
      BY <1>5, <2>1, <3>7, <3>10, CountsMore
    <3>. QED  BY <3>3, <3>5, <3>11
  <2>. QED  BY <1>2, <2>1, <2>3, <2>4 DEF NestedOnce, l
<1>8. d.repeats \in BOOLEAN
  BY <1>5 DEF LInv, LabelsOK
<1>9. LabelsOK(d, cs)
  BY <1>5, <1>7, <1>8 DEF LabelsOK
<1>. QED  BY <1>1, <1>9 DEF LInv

LEMMA NextCounts ==
  ASSUME IInv, LInv, [Next]_vars
  PROVE  LInv'
<1>1. CASE UNCHANGED vars
  BY <1>1 DEF vars, LInv
<1>2. CASE Next
  BY <1>2, SimpleLineCounts, InputStringCounts, IfNumbersCounts, IfStringsCounts, EndIfCounts,
     FinishCounts DEF Next
<1>. QED  BY <1>1, <1>2

LEMMA LabelsInvariance == Spec => []LInv
<1>1. Init => LInv
  BY InitLInv
<1>2. IInv /\ LInv /\ [Next]_vars => LInv'
  BY NextCounts
<1>. QED  BY <1>1, <1>2, Invariance, PTL DEF Spec

\* In the finished assembly the labels are those of all the numbers given.
LEMMA LabelsFound ==
  ASSUME IInv, LInv
  PROVE  BranchesFindOneLabel
<1>. SUFFICES ASSUME compiler.status = "done", ~compiler.repeats,
                     NEW b \in ToSet(compiler.assembly_file), b.op = "branch"
              PROVE  Cardinality(LabelsFor(b)) = IF Misspelt(b) THEN 0 ELSE 1
  BY DEF BranchesFindOneLabel
<1>. DEFINE file == compiler.assembly_file
            m == ContextOf(compiler, callers)
<1>1. callers = <<>> /\ DOMAIN <<>> = {}
  BY DEF IInv
<1>2. Counts(compiler, m)
  BY DEF LInv, LabelsOK
<1>3. ~m.inIf /\ ~m.inStr
  BY <1>1 DEF ContextOf, Context
<1>. HIDE DEF m
<1>4. FileOK(compiler, m, file) /\ NumbersOK(compiler, m)
  BY <1>2 DEF Counts
<1>. HIDE DEF file
<1>5. PICK j \in DOMAIN file : b = file[j]
  BY DEF ToSet, file
<1>6. \E f : \E n \in Nat : b = Branch(f, n) /\ Aimed(compiler, m, f, n)
  BY <1>4, <1>5, LabelFacts DEF FileOK
<1>7. PICK f : \E n \in Nat : b = Branch(f, n) /\ Aimed(compiler, m, f, n)
  BY <1>6
<1>8. PICK n \in Nat : b = Branch(f, n) /\ Aimed(compiler, m, f, n)
  BY <1>7
<1>9. b.family = f /\ b.n = n
  BY <1>8, LabelFacts
<1>10. [b EXCEPT !.op = "label"] = Label(f, n)
  BY <1>8 DEF Branch, Label
<1>11. LabelsFor(b) = {i \in DOMAIN file : file[i] = Label(f, n)}
  BY <1>10 DEF LabelsFor, file
<1>12. CASE Misspelt(b)
  <2>1. ~Placed(compiler, m, f, n)
    BY <1>3, <1>9, <1>12 DEF Misspelt, Placed, Even
  <2>2. ASSUME NEW i \in DOMAIN file, file[i] = Label(f, n) PROVE FALSE
    <3>1. file[i].op = "label"
      BY <2>2, LabelFacts
    <3>2. PICK g : \E k \in Nat : file[i] = Label(g, k) /\ Placed(compiler, m, g, k)
      BY <1>4, <3>1, LabelFacts DEF FileOK
    <3>3. PICK k \in Nat : file[i] = Label(g, k) /\ Placed(compiler, m, g, k)
      BY <3>2
    <3>4. Label(f, n) = Label(g, k)
      BY <2>2, <3>3
    <3>5. f = g
      BY <3>4 DEF Label
    <3>6. n = k
      BY <3>4 DEF Label
    <3>. QED  BY <2>1, <3>3, <3>5, <3>6
  <2>3. LabelsFor(b) = {}
    BY <1>11, <2>2
  <2>. QED  BY <1>12, <2>3, FS_EmptySet
<1>13. CASE ~Misspelt(b)
  <2>1. Placed(compiler, m, f, n)
    BY <1>3, <1>8, <1>9, <1>13 DEF Misspelt, Placed, Aimed, Even
  <2>2. PICK i \in DOMAIN file : file[i] = Label(f, n)
    BY <1>4, <2>1 DEF FileOK
  <2>3. file[i].op = "label"
    BY <2>2, LabelFacts
  <2>4. LabelsFor(b) = {i}
    BY <1>4, <1>11, <2>2, <2>3 DEF FileOK, OnlyOnce
  <2>. QED  BY <1>13, <2>4, FS_Singleton
<1>. QED  BY <1>12, <1>13

(***************************************************************************)
(* The values of whole lines                                               *)
(***************************************************************************)
\* Where each token's register is.
Regs(c, b) == [v \in {b[i] : i \in 1 .. Len(b)} |-> Address(c, v)]

LEMMA SafeStarts ==
  ASSUME NEW c, CallOK(c), OneEntryEach(c), NEW b, IsSequence(b), Safe(c, b)
  PROVE  /\ Proper(b) /\ Holding(c, b, Regs(c, b))
         /\ \A i \in 1 .. Len(b) : IsVariable(b[i]) => Address(c, b[i]) # ABSENT
<1>1. DOMAIN b = 1 .. Len(b)
  <2>1. PICK S : b \in Seq(S)
    BY DEF IsSequence
  <2>. QED  BY <2>1
<1>2. ASSUME NEW i \in 1 .. Len(b), IsOperand(b[i])
      PROVE  IF b[i] \in DOMAIN NumberOf
               THEN ReadableConstant(b, i)
               ELSE /\ HasItsValue(c, b[i])
                    /\ \A j \in 1 .. Len(b) : b[j] = b[i] => j = i
                    /\ Address(c, b[i]) \in c.free_reg_arr =>
                         \A j \in 1 .. i - 1 : ~IsOperand(b[j])
  BY <1>1, <1>2 DEF Safe
<1>3. Proper(b)
  BY <1>2 DEF Proper, HasItsValue
<1>4. ASSUME NEW i \in 1 .. Len(b), IsVariable(b[i])
      PROVE  /\ HasRegister(c, b[i], Address(c, b[i]))
             /\ Address(c, b[i]) # ABSENT
             /\ c.holds[Address(c, b[i])] = <<b[i]>>
             /\ Address(c, b[i]) \in c.free_reg_arr => \A j \in 1 .. i - 1 : ~IsOperand(b[j])
  <2>. DEFINE v == b[i]
  <2>1. IsOperand(v) /\ v \notin DOMAIN NumberOf
    BY <1>4, OperandKinds
  <2>2. /\ Address(c, v) # ABSENT /\ c.holds[Address(c, v)] = <<v>>
        /\ Address(c, v) \in c.free_reg_arr => \A j \in 1 .. i - 1 : ~IsOperand(b[j])
    BY <1>2, <2>1 DEF HasItsValue
  <2>. HIDE DEF v
  <2>3. IsTable(c.var_reg_table)
    BY DEF CallOK
  <2>4. PICK e \in Entries(c) : e.symbol = <<v>> /\ e.address = Address(c, v)
    BY <2>2, <2>3, AddressFacts
  <2>5. Address(c, v) \in Registers
    BY <2>2, <2>3, AddressFacts
  <2>6. HasRegister(c, v, Address(c, v))
    BY <2>4, <2>5 DEF OneEntryEach, HasRegister
  <2>. QED  BY <2>2, <2>6 DEF v
<1>5. \A i \in 1 .. Len(b) : Regs(c, b)[b[i]] = Address(c, b[i])
  BY DEF Regs
<1>6. Holding(c, b, Regs(c, b))
  BY <1>4, <1>5 DEF Holding
<1>. QED  BY <1>3, <1>4, <1>6

\* A new variable may share the register of another, and leaves its value.
LEMMA DeclareHolds ==
  ASSUME NEW c, CallOK(c), Compiling(c), NEW v, Compiling(Declare(c, v)),
         NEW b, NEW reg, Holding(c, b, reg),
         \A i \in 1 .. Len(b) : IsVariable(b[i]) => Address(c, b[i]) # ABSENT
  PROVE  Holding(Declare(c, v), b, reg)
<1>. DEFINE looked == Lookup(c, <<v>>)
            r == first_free_reg(c)
            d == Declare(c, v)
            t == c.var_reg_table
            u == looked.var_reg_table
            new == [symbol |-> <<v>>, address |-> r]
<1>1. /\ looked.free_reg_arr = c.free_reg_arr /\ looked.holds = c.holds
      /\ u = AfterLookup(t, <<v>>) /\ DOMAIN looked = Fields
  BY DEF Lookup, CallOK, Fields
<1>2. IsTable(t) /\ IsTable(u) /\ EntriesOf(u) \subseteq Entries(c)
  <2>1. IsTable(t) /\ Entries(c) = EntriesOf(t)
    BY DEF CallOK, Entries, EntriesOf
  <2>. HIDE DEF t
  <2>. QED  BY <1>1, <2>1, LookupLoses
<1>. HIDE DEF looked
<1>3. CASE Address(c, v) # ABSENT
  <2>1. d = looked
    BY <1>3 DEF Declare, looked
  <2>2. Entries(looked) \subseteq Entries(c)
    BY <1>2 DEF Entries, EntriesOf
  <2>. QED  BY <1>1, <2>1, <2>2, HoldingOn
<1>4. CASE Address(c, v) = ABSENT
  <2>1. ~Compiling(Undefined(c))
    BY DEF Undefined, Stop, Compiling, CallOK, Fields
  <2>2. r # -1
    BY <1>4, <2>1 DEF Declare
  <2>3. r \in Registers
    BY <2>2, FirstFree
  <2>4. d = [Take(looked, r) EXCEPT
               !.var_reg_table = AfterInsert(@, <<v>>, r),
               !.kept = @ \cup {r}, !.exposed = @ \ {v}]
    BY <1>4, <2>2 DEF Declare, looked
  <2>. HIDE DEF r
  <2>5. /\ d.free_reg_arr = c.free_reg_arr \ {r} /\ d.holds = c.holds
        /\ d.var_reg_table = AfterInsert(u, <<v>>, r)
    BY <1>1, <2>4 DEF Take, Fields
  <2>. HIDE DEF d, u
  <2>6. EntriesOf(AfterInsert(u, <<v>>, r)) \subseteq EntriesOf(u) \cup {new}
    BY <1>2, <2>3, InsertAdds
  <2>7. new.symbol = <<v>>
    OBVIOUS
  <2>. HIDE DEF new
  <2>8. Entries(d) \subseteq Entries(c) \cup {new}
    BY <1>2, <2>5, <2>6 DEF Entries, EntriesOf
  <2>9. ASSUME NEW i \in 1 .. Len(b), IsVariable(b[i])
        PROVE  HasRegister(d, b[i], reg[b[i]])
    <3>1. b[i] # v
      BY <1>4, <2>9
    <3>2. \A e \in Entries(d) : e.symbol = <<b[i]>> => e \in Entries(c)
      BY <2>7, <2>8, <3>1
    <3>3. HasRegister(c, b[i], reg[b[i]])
      BY <2>9 DEF Holding
    <3>. QED  BY <3>2, <3>3 DEF HasRegister
  <2>10. Holding(d, b, reg)
    BY <2>5, <2>9 DEF Holding
  <2>. QED  BY <2>10 DEF d
<1>. QED  BY <1>3, <1>4

\* An expression at the start of a line.
LEMMA SafeIsComputed ==
  ASSUME NEW c, NEW V, Ready(c, V), c.operands = <<>>, NEW tokens, Len(tokens) \in Nat,
         NEW ends_line, NEW reg, Compiling(Eval(c, tokens, ends_line)),
         Proper(shunting_yard(tokens)), Holding(c, shunting_yard(tokens), reg)
  PROVE  LET d == Eval(c, tokens, ends_line)
         IN  ValueOf(d, LastOperand(d)) = shunting_yard(tokens)
<1>. DEFINE b == shunting_yard(tokens)
            d == Eval(c, tokens, ends_line)
<1>1. Compiling(c)
  BY EvalLeads, CompiledBefore
<1>2. b # REJECTED
  BY <1>1, FailWorks DEF Eval, EvalBracketed
<1>3. Sound(b)
  BY <1>2, BracketsSoundly
<1>4. d = eval_arithmetic(c, b, ends_line)
  BY <1>1, <1>2 DEF Eval, EvalBracketed
<1>5. Proper(b) /\ Holding(c, b, reg) /\ Compiling(d)
  OBVIOUS
<1>. HIDE DEF b, d
<1>6. Len(b) \in Nat
  BY <1>3, LongerSequence DEF Sound, WellBracketed, Rises
<1>7. PICK f : AreSteps(f, c, b, ends_line)
  BY <1>6, EvalSteps
<1>8. Follows(f, b, 0, b, ends_line)
  <2>1. \A k \in 1 .. Len(b) : 0 + k = k /\ 0 + k - 1 = k - 1
    OBVIOUS
  <2>. QED  BY <1>7, <2>1 DEF Follows, AreSteps
<1>9. f[0] = c /\ f[0 + Len(b)] = d
  BY <1>4, <1>6, <1>7 DEF AreSteps
<1>10. Computed(c, d, b, reg)
  BY <1>3, <1>5, <1>8, <1>9 DEF Sound, Computes
<1>11. PICK o : d.operands = Append(c.operands, o) /\ ValueOf(d, o) = b
  BY <1>10 DEF Computed, ResultOf
<1>12. LastOperand(d) = o
  BY <1>11 DEF LastOperand, Last
<1>. QED  BY <1>11, <1>12 DEF b, d

LEMMA NextComputes ==
  ASSUME IInv, SafeExpressionsComputed, [Next]_vars
  PROVE  SafeExpressionsComputed'
<1>. DEFINE b == shunting_yard(line.left)
            reg == Regs(compiler, b)
\* What the line starts from.
<1>1. ASSUME LineStarts(compiler), line = Head(compiler.lines)
      PROVE  /\ Ready(compiler, {}) /\ OneEntryEach(compiler) /\ Compiling(compiler)
             /\ compiler.operands = <<>> /\ Len(line.left) \in Nat
             /\ Safe(compiler, b) =>
                  /\ Proper(b) /\ Holding(compiler, b, reg)
                  /\ \A i \in 1 .. Len(b) : IsVariable(b[i]) => Address(compiler, b[i]) # ABSENT
  <2>1. /\ Ready(compiler, {}) /\ OneEntryEach(compiler) /\ Compiling(compiler)
        /\ compiler.operands = <<>> /\ Len(line.left) \in Nat
    BY <1>1, LineStartsReady DEF LineStarts, BetweenLines
  <2>2. IsSequence(b)
    <3>1. b = REJECTED \/ WellBracketed(b)
      BY <2>1, BracketsWell
    <3>2. REJECTED \in Seq({})
      BY DEF REJECTED
    <3>. HIDE DEF b
    <3>. QED  BY <3>1, <3>2 DEF WellBracketed, Rises, IsSequence
  <2>. HIDE DEF b
  <2>. QED  BY <2>1, <2>2, SafeStarts DEF Ready
<1>2. CASE LetNumber
  <2>. DEFINE v == line.variable
              declared == Declare(compiler, v)
              c == Eval(declared, line.left, TRUE)
  <2>1. LineStarts(compiler) /\ line = Head(compiler.lines)
    BY <1>2, LineReads DEF LetNumber
  <2>2. Compute(line.left, c)
    BY <1>2, Zenon DEF LetNumber, Declared
  <2>3. computed' = [safe   |-> Compiling(c) /\ Safe(compiler, b),
                     wanted |-> b,
                     got    |-> IF Compiling(c) THEN ValueOf(c, LastOperand(c)) ELSE JUNK]
    BY <2>2, Zenon DEF Compute
  <2>4. /\ computed'.safe => Compiling(c) /\ Safe(compiler, b)
        /\ computed'.wanted = b
        /\ Compiling(c) => computed'.got = ValueOf(c, LastOperand(c))
    <3>. HIDE DEF b, c
    <3>. QED  BY <2>3
  <2>5. /\ Ready(declared, {v})
        /\ Compiling(declared) => declared.operands = <<>>
    BY <1>1, <2>1, DeclareLeads
  <2>. HIDE DEF b, reg, declared
  <2>6. ASSUME Compiling(c), Safe(compiler, b) PROVE computed'.got = b
    <3>1. Compiling(declared)
      <4>1. Leads(declared, c, {v})
        BY <1>1, <2>1, <2>5, EvalLeads
      <4>. HIDE DEF c
      <4>. QED  BY <2>6, <4>1, CompiledBefore
    <3>2. Proper(b) /\ Holding(declared, b, reg)
      BY <1>1, <2>1, <2>6, <3>1, DeclareHolds DEF Ready, declared
    <3>3. ValueOf(c, LastOperand(c)) = b
      BY <1>1, <2>1, <2>5, <2>6, <3>1, <3>2, SafeIsComputed DEF b
    <3>. QED  BY <2>4, <2>6, <3>3
  <2>. HIDE DEF c
  <2>. QED  BY <2>4, <2>6 DEF SafeExpressionsComputed
<1>3. CASE PrintNumber
  <2>. DEFINE c == Eval(compiler, line.left, FALSE)
  <2>1. LineStarts(compiler) /\ line = Head(compiler.lines)
    BY <1>3, LineReads DEF PrintNumber
  <2>2. Compute(line.left, c)
    BY <1>3, Zenon DEF PrintNumber
  <2>3. computed' = [safe   |-> Compiling(c) /\ Safe(compiler, b),
                     wanted |-> b,
                     got    |-> IF Compiling(c) THEN ValueOf(c, LastOperand(c)) ELSE JUNK]
    BY <2>2, Zenon DEF Compute
  <2>4. /\ computed'.safe => Compiling(c) /\ Safe(compiler, b)
        /\ computed'.wanted = b
        /\ Compiling(c) => computed'.got = ValueOf(c, LastOperand(c))
    <3>. HIDE DEF b, c
    <3>. QED  BY <2>3
  <2>. HIDE DEF b, reg
  <2>5. ASSUME Compiling(c), Safe(compiler, b) PROVE computed'.got = b
    <3>1. Proper(b) /\ Holding(compiler, b, reg)
      BY <1>1, <2>1, <2>5
    <3>2. ValueOf(c, LastOperand(c)) = b
      BY <1>1, <2>1, <2>5, <3>1, SafeIsComputed DEF b
    <3>. QED  BY <2>4, <2>5, <3>2
  <2>. HIDE DEF c
  <2>. QED  BY <2>4, <2>5 DEF SafeExpressionsComputed
<1>4. CASE computed' = computed
  BY <1>4 DEF SafeExpressionsComputed
<1>5. [Next]_vars => LetNumber \/ PrintNumber \/ computed' = computed
  BY DEF Next, vars, LetString, PrintString, InputNumber, InputString, Return, CopyLine,
     IfNumbers, IfStrings, StopInCondition, CompileCommand, EndIf, Finish
<1>. QED  BY <1>2, <1>3, <1>4, <1>5

(***************************************************************************)
(* Theorems                                                                *)
(***************************************************************************)
\* The compiler's registers, its table of variables and those of the calls that
\* wait stay what the code takes them for: no flag outside free_reg_arr is set,
\* and no entry of the table names a register that is none.
THEOREM CodeGenerationType == Spec => []TypeOK
BY Invariance, IInvTypeOK, PTL

\* However many variables share a bucket, and whatever the lines between take
\* and free: a variable whose register the compiler has not given away itself
\* (eval_arithmetic frees the left operand of an operation, eval_conditional
\* that of a comparison) still has it, marked as busy, with its last value.
THEOREM VariablesKeepTheirRegisters == Spec => []VariablesKeepRegisters
BY Invariance, IInvVariables, PTL

\* eval_arithmetic frees every register that it takes, however the expression
\* is bracketed, and so do the comparisons and the strings but for the register
\* of a literal: after a line only the variables' registers are busy.
THEOREM ScratchIsReleased == Spec => []ScratchReleased
<1>1. IInv => ScratchReleased
  BY DEF IInv, BetweenLines, ScratchReleased
<1>. QED  BY <1>1, Invariance, PTL

\* Whatever numbers the IFs, LENs, RNDs and input lines of a program give to
\* their labels: unless a call gives one again, every branch of the finished
\* assembly has one label to go to, but for those whose label the code
\* misspells, which have none.
THEOREM BranchesFindTheirLabel == Spec => []BranchesFindOneLabel
BY Invariance, LabelsInvariance, LabelsFound, PTL

\* Of a line whose variables hold their values, come once and, but for the
\* first operand, are in busy registers, and whose constants come first or
\* behind a + or a -, the code computes the bracketed expression:
\* however it is bracketed and however few registers there are, no result is
\* overwritten before it is used.  A line that runs out of registers stops.
THEOREM ExpressionsAreComputed == Spec => []SafeExpressionsComputed
<1>1. Init => SafeExpressionsComputed
  BY DEF Init, SafeExpressionsComputed
<1>2. IInv /\ SafeExpressionsComputed /\ [Next]_vars => SafeExpressionsComputed'
  BY NextComputes
<1>. QED  BY <1>1, <1>2, Invariance, PTL DEF Spec
==============================================================================
