------------------------------- MODULE Assembler -------------------------------
(***************************************************************************)
(* load_assembly (assemble.c): one pass over the source file that enters   *)
(* the labels in the symbol table, a second one that assembles each        *)
(* instruction and appends its word to the destination file at once, and   *)
(* the literal pool appended at the end.                                   *)
(*                                                                         *)
(* A line is a label, or an instruction already tokenized; a mnemonic the  *)
(* tokenizer does not know is an "invalid" line.  A branch's operand keeps *)
(* the label it names and, as n, the number strtoul(_, 16) reads in it.    *)
(***************************************************************************)
EXTENDS AssembleInstructions

CONSTANTS
  Programs,      \* the source files, as sequences of lines
  OldContents,   \* what the destination file may hold beforehand
  PoolLimit,     \* array_length: room for literals, never checked
  Symbols, TABLE_SIZE, hash      \* the symbol table's

\* The lines the tokenizer makes of a source file the assembler is meant for.
IsTokenized(t) ==
  /\ t.opcode \in BranchOps => t.operands[1].name \in Symbols
  /\ t.opcode \in TransferOps =>
       /\ number(t.operands[1]) \in 0 .. 15
       /\ IF IsLiteralLoad(t) THEN number(t.operands[2]) \in Int
                              ELSE IsOffset(OffsetOf(t))

IsLine(l) ==
  \/ l.kind = "invalid"
  \/ l.kind = "label" /\ l.name \in Symbols
  \/ l.kind = "instruction" /\ IsTokenized(l.token)

ASSUME SourcesAssumption ==
  /\ \A p \in Programs : Len(p) \in Nat /\ \A l \in 1 .. Len(p) : IsLine(p[l])
  /\ \A f \in OldContents : f \in Seq(SUBSET Positions)
  /\ PoolLimit \in Nat

ASSUME LabelsAssumption ==
  /\ TABLE_SIZE \in Nat \ {0}
  /\ hash \in [Symbols -> 0 .. TABLE_SIZE - 1]

VARIABLES
  lines,            \* the source file
  cursor,           \* the lines read in this pass
  phase,            \* which part of load_assembly runs
  address,          \* instructions counted in the first pass
  calling_address,  \* instructions assembled in the second
  pool,             \* array_single_data[0 .. size_array - 1]
  old, file,        \* the destination file before, and now
  entries, count, answer, crashed, last      \* the symbol table

tableVars == <<entries, count, answer, crashed, last>>
vars == <<lines, cursor, phase, address, calling_address, pool, old, file, tableVars>>

Table == INSTANCE SymbolTable WITH Addresses <- Nat, ChecksNext <- FALSE

Phase == {"first", "second", "pool", "done", "failed", "undefined"}

TypeOK ==
  /\ lines \in Programs
  /\ cursor \in 0 .. Len(lines)
  /\ phase \in Phase
  /\ address \in 0 .. Len(lines)
  /\ calling_address \in 0 .. address
  /\ pool \in Seq(Int)
  /\ file \in Seq(SUBSET Positions)
  /\ Table!TypeOK

Init ==
  /\ lines \in Programs
  /\ cursor = 0
  /\ phase = "first"
  /\ address = 0
  /\ calling_address = 0
  /\ pool = <<>>
  /\ old \in OldContents
  /\ file = old
  /\ Table!Init

line == lines[cursor + 1]
MoreLines == cursor < Len(lines)
NextLine == cursor' = cursor + 1

(***************************************************************************)
(* First pass                                                              *)
(***************************************************************************)
\* A mistake the checks must notice: a label counts as an instruction.
EnterLabelAndCount ==
  /\ phase = "first"
  /\ MoreLines
  /\ line.kind = "label"
  /\ Table!Insert(line.name, 4 * address)
  /\ address' = address + 1
  /\ NextLine
  /\ UNCHANGED <<lines, phase, calling_address, pool, old, file>>

EnterLabel ==
  /\ phase = "first"
  /\ MoreLines
  /\ line.kind = "label"
  /\ Table!Insert(line.name, 4 * address)
  /\ NextLine
  /\ UNCHANGED <<lines, phase, address, calling_address, pool, old, file>>

CountInstruction ==
  /\ phase = "first"
  /\ MoreLines
  /\ line.kind # "label"
  /\ address' = address + 1
  /\ NextLine
  /\ UNCHANGED <<lines, phase, calling_address, pool, old, file, tableVars>>

StartSecondPass ==
  /\ phase = "first"
  /\ ~MoreLines
  /\ cursor' = 0
  /\ phase' = "second"
  /\ UNCHANGED <<lines, address, calling_address, pool, old, file, tableVars>>

(***************************************************************************)
(* Second pass                                                             *)
(***************************************************************************)
\* A mistake the checks must notice: a label moves the second count.
SkipLabelAndCount ==
  /\ phase = "second"
  /\ MoreLines
  /\ line.kind = "label"
  /\ NextLine
  /\ calling_address' = calling_address + 1
  /\ UNCHANGED <<lines, phase, address, pool, old, file, tableVars>>

\* A mistake the checks must notice: a label is read over and over.
SkipNothing ==
  /\ phase = "second"
  /\ MoreLines
  /\ line.kind = "label"
  /\ UNCHANGED vars

SkipLabel ==
  /\ phase = "second"
  /\ MoreLines
  /\ line.kind = "label"
  /\ NextLine
  /\ UNCHANGED <<lines, phase, address, calling_address, pool, old, file, tableVars>>

Assembling(ops) ==
  /\ phase = "second"
  /\ MoreLines
  /\ line.kind = "instruction"
  /\ line.token.opcode \in ops

\* binary_writer, or the exit of an encoder that refuses its operands.
Write(word) ==
  /\ IF word = EXIT
       THEN phase' = "failed" /\ UNCHANGED <<file, cursor, calling_address>>
       ELSE /\ file' = Append(file, word)
            /\ calling_address' = calling_address + 1
            /\ NextLine
            /\ UNCHANGED phase
  /\ UNCHANGED <<lines, address, old>>

AssembleDataProcessing ==
  /\ Assembling(DataOps)
  /\ Write(assemble_data_processing(line.token))
  /\ UNCHANGED <<pool, tableVars>>

AssembleMultiply ==
  /\ Assembling(MultiplyOps)
  /\ Write(assemble_multiply(line.token))
  /\ UNCHANGED <<pool, tableVars>>

Transfer == assemble_single_data_transfer(line.token, calling_address, address, Len(pool))

AssembleTransfer ==
  /\ Assembling(TransferOps)
  /\ ~UsesPool(line.token)
  /\ Write(Transfer)
  /\ UNCHANGED <<pool, tableVars>>

AssembleLiteralLoad ==
  /\ Assembling(TransferOps)
  /\ UsesPool(line.token)
  /\ Len(pool) < PoolLimit
  /\ Write(Transfer)
  /\ pool' = Append(pool, number(line.token.operands[2]))
  /\ UNCHANGED tableVars

\* A store past the array: nothing is known of what follows.
OverflowPool ==
  /\ Assembling(TransferOps)
  /\ UsesPool(line.token)
  /\ Len(pool) = PoolLimit
  /\ phase' = "undefined"
  /\ UNCHANGED <<lines, cursor, address, calling_address, pool, old, file, tableVars>>

Target == line.token.operands[1]

\* A label that is not found leaves the operand to be read as a number.
AssembleBranch ==
  /\ Assembling(BranchOps)
  /\ Table!Lookup(Target.name)
  /\ ~crashed'
  /\ LET jump_address == IF answer' # Table!ABSENT THEN answer' ELSE Target.n
     IN  Write(assemble_branch(line.token, jump_address, calling_address))
  /\ UNCHANGED pool

CrashInLookup ==
  /\ Assembling(BranchOps)
  /\ Table!Lookup(Target.name)
  /\ crashed'
  /\ phase' = "undefined"
  /\ UNCHANGED <<lines, cursor, address, calling_address, pool, old, file>>

AssembleSpecial ==
  /\ Assembling(SpecialOps)
  /\ Write(assemble_special(line.token))
  /\ UNCHANGED <<pool, tableVars>>

\* to_operation_enum exits.
RefuseMnemonic ==
  /\ phase = "second"
  /\ MoreLines
  /\ line.kind = "invalid"
  /\ phase' = "failed"
  /\ UNCHANGED <<lines, cursor, address, calling_address, pool, old, file, tableVars>>

FinishSecondPass ==
  /\ phase = "second"
  /\ ~MoreLines
  /\ phase' = "pool"
  /\ UNCHANGED <<lines, cursor, address, calling_address, pool, old, file, tableVars>>

\* binary_writer_array, when there is anything to write.
WritePool ==
  /\ phase = "pool"
  /\ file' = file \o [k \in 1 .. Len(pool) |-> Bits(pool[k])]
  /\ phase' = "done"
  /\ UNCHANGED <<lines, cursor, address, calling_address, pool, old, tableVars>>

Next ==
  \/ EnterLabel
  \/ CountInstruction
  \/ StartSecondPass
  \/ SkipLabel
  \/ AssembleDataProcessing
  \/ AssembleMultiply
  \/ AssembleTransfer
  \/ AssembleLiteralLoad
  \/ OverflowPool
  \/ AssembleBranch
  \/ CrashInLookup
  \/ AssembleSpecial
  \/ RefuseMnemonic
  \/ FinishSecondPass
  \/ WritePool

Spec == Init /\ [][Next]_vars

\* One process, reading and writing files: it runs until it ends.
FairSpec == Spec /\ WF_vars(Next)

(***************************************************************************)
(* Where things are in the object file                                     *)
(***************************************************************************)
IsInstruction(l) == lines[l].kind # "label"
InstructionsBefore(l) == Cardinality({m \in 1 .. l - 1 : IsInstruction(m)})
Word(l) == file[Len(old) + InstructionsBefore(l) + 1]
Assembled(l) == IsInstruction(l) /\ InstructionsBefore(l) < calling_address

LoadedAt(a) == file[Len(old) + a \div 4 + 1]

Uses(l, ops) == lines[l].kind = "instruction" /\ lines[l].token.opcode \in ops

\* Where the emulator goes when it takes the branch on line l, or loads from.
BranchTarget(l) == 4 * InstructionsBefore(l) + 8 + decode(Word(l)).offset
LiteralAddress(l) == 4 * InstructionsBefore(l) + 8 + Value(decode(Word(l)).offset.ones)

Defines(l, name) == lines[l].kind = "label" /\ lines[l].name = name
\* The definition of a label that counts: the last one.
Defined(name) == {l \in 1 .. Len(lines) : Defines(l, name)}
LabelAddress(name) == 4 * InstructionsBefore(Max(Defined(name)))
BranchName(l) == lines[l].token.operands[1].name

BranchHits(l) ==
  LET word == decode(Word(l))
  IN  /\ word.type = "BRANCH"
      /\ word.cond = CondBits[lines[l].token.opcode]
      /\ BranchTarget(l) = LabelAddress(BranchName(l))

LiteralLoadHits(l) ==
  LET word == decode(Word(l))
      a    == LiteralAddress(l)
  IN  /\ word.type = "TRANSFER" /\ word.l /\ word.p /\ word.u /\ word.rn = 15
      /\ word.rd = lines[l].token.operands[1].n
      /\ Len(old) + a \div 4 + 1 \in DOMAIN file
      /\ LoadedAt(a) = Bits(lines[l].token.operands[2].n)

(***************************************************************************)
(* Properties                                                              *)
(***************************************************************************)
\* The two passes number the instructions alike, whatever the labels between
\* them, and the file has one word for each that was assembled: when the run
\* fails on a line, the words of the lines before it are there.
PassesAgree ==
  /\ phase # "first" => address = InstructionsBefore(Len(lines) + 1)
  /\ phase \in {"second", "failed", "undefined"} =>
       /\ calling_address = InstructionsBefore(cursor + 1)
       /\ Len(file) = Len(old) + calling_address
  /\ phase = "done" =>
       /\ calling_address = address
       /\ Len(file) = Len(old) + address + Len(pool)

\* A branch back to a label, or to itself, goes to the instruction after the
\* label's last definition, when the emulator adds its pipeline's 8 bytes.
BackwardBranchesHit ==
  \A l \in 1 .. Len(lines) :
    Assembled(l) /\ Uses(l, BranchOps) /\ Defined(BranchName(l)) # {} =>
      (LabelAddress(BranchName(l)) <= 4 * InstructionsBefore(l) => BranchHits(l))

\* Each `ldr rd,=n' loads n from the pool: its offset, computed before the pool
\* is written, and from counts of both passes, finds the word n lies in.
LiteralsReached ==
  phase = "done" =>
    \A l \in 1 .. Len(lines) :
      (Uses(l, {"ldr"}) /\ UsesPool(lines[l].token)
         /\ InstructionsBefore(l) < address - 1) => LiteralLoadHits(l)

\* The assembler ends, whatever the source file.
Terminates == <>(phase \in {"done", "failed", "undefined"})

\* "set offset field with signed 24 bit offset (after being shifted right 2
\* bits)": so for a branch forward too, over one instruction or more, where the
\* offset is not negative.  The code shifts the offset of a backward branch only.
\* (The offset of a branch to the very next instruction, -4, is not masked
\* either: it fills the word with ones.)
ForwardBranchesHit ==
  \A l \in 1 .. Len(lines) :
    Assembled(l) /\ Uses(l, BranchOps) /\ Defined(BranchName(l)) # {} =>
      (LabelAddress(BranchName(l)) >= 4 * InstructionsBefore(l) + 8 => BranchHits(l))
==============================================================================
