# A verification of the ARM emulator, assembler and BASIC compiler

The repository holds three C programs that form a tool chain:

    BASIC source --compile--> assembly text --assemble--> object file --emulate--> final state

This directory is a TLA+ development of it: modules translated from the code, the
configurations with which TLC checks them on small instances, and proofs of their main
properties that TLAPS checks for every value of the constants. Paths below are relative to
`src/src/` of the repository unless they start with `src/`.

To check a run: `tlc -config X.cfg M` (the pairs are in the table of runs). To check the
proofs: `tlapm M.tla` for `ProcessorLemmas`, `EmulatorProofs`, `ByteMemoryProofs`,
`StringIOProofs`, `SymbolTableProofs`, `AssemblerProofs`, `LoweringProofs` and
`CodeGenerationProofs`.

## 1. The system

### Emulator (`emulator/`)

*State.* `struct Processor` (`type_definitions.h:10`): 64 KiB of memory, 16 words of
registers, CPSR as four flags. The pipeline of `emulator_loop` (`emulate.c:51`) adds two
four-byte latches, `fetched` and `decoded`, with a validity flag each.
*Operations.* `load`; then a loop whose body executes `decoded`, moves `fetched` to
`decoded`, reads the next word and advances PC. Instructions: data processing, multiply,
single data transfer (with GPIO addresses), branch, and the extensions `printn`, `prints`,
`inputn`, `inputs`.
*Interactions.* Instructions and the loop share memory and register 15: a store may hit the
word that already waits in `fetched`, and an instruction may move PC under the pipeline.
*Hard behaviour.* The flush of a taken branch, what register 15 reads as, self-modifying
code, the halting word, bit-reversed and byte-mirrored memory with its unusual field masks,
undefined shifts, failed assertions, the flags.
*What makes it correct.* The pipeline is invisible except where the architecture says so;
memory is a little-endian array to the program; flags follow the last result that set them.

### Assembler (`assembler/`)

*State.* Source position, two instruction counts, the symbol table, the literal pool, the
destination file (appended to word by word).
*Operations.* A first pass that enters labels, a second one that tokenizes, encodes and
writes each instruction, and the pool written at the end; the encoders of
`assemble_instructions.c`; the hash table of `symbol_table.c`.
*Interactions.* Branch offsets combine a table lookup, made by a routine that destroys
entries, with the second pass's count; literal offsets combine both passes' counts with the
pool's size. The encoded words must mean to the emulator what the text said.
*Hard behaviour.* The passes must number instructions alike; exits in the middle leave a
partial file; nothing checks the pool's size, the destination's old contents or a null
pointer in the lookup.

### Compiler (`compile/`)

*State.* The program as an array of lines, rewritten pass by pass; a counter of generated
labels; then, for each call of `compile_instructions`, a table of variables (to registers), a
list of free registers, label counters, and static counters shared by all calls.
*Operations.* `read_file`; the lowering passes (FOR to WHILE, ON to IF, DO and WHILE to IF and
GOTO); the check of GOTO's labels; code generation per command; expressions (`shunting_yard`,
then `eval_arithmetic`); conditions, whose command is compiled by a call of its own; string
literals; GOSUB and RETURN.
*Interactions.* Each pass reads what the one before wrote and shares its label numbers. The
assembler takes a label for its last definition. Strings live in the emulator's memory. The
variable table is the hash table whose lookups drop entries.
*Hard behaviour.* Generated labels must not repeat, nesting is followed by counters and small
stacks, the command of an IF knows nothing of its caller's registers, registers are freed that
belong to variables, and registers run out.
*What makes it correct.* The lowered program goes from line to line as the BASIC program says;
an expression's code computes it; a variable keeps its register; a branch has one label.

## 2. The modules

| Module | Models | Its state and actions |
|---|---|---|
| `Processor` | the processor as a value and every instruction (`instructions.c`, `emulator_utils.c`, `load`) | constant-level; an operator that returns a set lists all outcomes, more than one where C leaves the result undefined or the instruction reads input |
| `Emulator` | `emulator_loop` | `processor`, the latches and their flags, and `stage`, the part of the loop that runs next; one action per class of instruction, for the taken and the other branch, for an aborted run, for each half of decode, and for the fetch |
| `EmulatorTrace` | the same with auxiliary variables | records the addresses the latches were read from, the bytes the last executed instruction changed, the last flag-setting result, and whether only branches have written register 15; nothing is guarded by them |
| `DelaySlotMachine` | abstract: the machine without latches | `pc`, `npc` and a processor; what instructions do is a parameter; a branch acts at once, another write to register 15 acts one instruction late |
| `ByteMemory` | loads, stores and fetches on their own | the operators of `Processor` on `memory`, and the access that fails the bounds check |
| `FlatMemory` | abstract: a little-endian array | loads and stores of four bytes; what a byte and a word are is a parameter |
| `EmulatorUtils` | the bit operations, bit by bit | pure |
| `StringIO` | string literals packed by `store_string_literal_in_memory` (compiler), with the count that leaves escaped backslashes out, and read by `prints`; the address of each word as compiled code adds it up from two bytes, of which some make a multiply of the instruction; strings typed for `inputs` | memory, the string the program holds at each place, the literal whose words are being stored, and the places a word went astray from or to; one action starts a literal, another is the `str` of its next word |
| `SymbolTable` | the hash table, both copies (`ChecksNext` tells them apart) | the chains, `count`, the last answer, whether a null pointer was followed; auxiliary: the address each symbol was last given |
| `SymbolMap` | abstract: a map that may lose the rivals of the symbol looked up | |
| `AssembleInstructions` | the encoders, and the decoder of the emulator, on 32-bit words as sets of positions | pure |
| `InstructionMeaning` | reference: what the text of an instruction denotes, which texts the encoders are made for, and which immediates they cannot hold | pure |
| `Assembler` | `load_assembly`: both passes, the pool and the exits | source position, counts, pool and file; an INSTANCE of `SymbolTable` for the table, so that each lookup may drop entries |
| `Lowering` | `read_file`, the four passes of the compiler's `main`, the check of labels, and the lowered program as it runs | the BASIC file, the file as lowered so far, the pass's cursor, stack and label counters, and the line that runs next; an action per kind of line a pass rewrites, refuses or reads outside its array for |
| `StructuredProgram` | abstract: a BASIC program as its author reads it | the point it is at, a line's test or its effect; loops go back to their own first line, or to that of a rival of the same kind and depth |
| `Expressions` | `shunting_yard` on tokens | pure: its two stacks |
| `CodeGeneration` | `compile_instructions`, `eval_arithmetic`, `eval_conditional` | the call that runs, with its table, free registers and counters, the calls that wait for their IF's command, and the labels and branches written; auxiliary: the value each register holds. An action per kind of line, and the end of a call |
| `MC*` | small instances | values of the constants; `MCEmulatorUtils` and `MCExpressions` also hold the reference definitions of their pure algorithms; `MCFunctions` runs them together with `MCAssembleInstructions` |
| `ProcessorLemmas`, `EmulatorProofs`, `ByteMemoryProofs`, `StringIOProofs`, `SymbolTableProofs`, `AssemblerProofs`, `LoweringProofs`, `CodeGenerationProofs` | the proofs: `ProcessorLemmas` holds the lemmas about the operators of `Processor`, `AssemblerProofs` starts with numbers and their bits, those about the emulator's bit operations and those about the encoders, and `CodeGenerationProofs` holds those about `Expressions` | |

`PROJECT.json` maps every definition to its lines.

### Abstractions

- **Bit layout.** `Processor` takes an instruction word's meaning from the table `Decode`
  and keeps `CharBit` a parameter; the 1:4 ratio of bytes to words and every reversal and
  mirroring stay. The layout itself is `AssembleInstructions`'s, with 32 bits.
- **Undefined behaviour** is a choice over constants: `UndefinedWords` for uninitialised
  results and oversized shifts, `WildLatches` for a fetch outside memory. Accesses that leave
  the array and failed assertions end the run as `aborted`.
- **Registers of `print` and `input`.** Their number has 21 bits and nothing checks it: 16 is CPSR,
  the last of `registers[]`, whose flags `inputn r16` overwrites; a greater number reaches beyond
  the processor and ends the run.
- **Object files** are of whole words and fit memory (`ImagesAssumption`). `load` checks neither: a
  longer file overwrites the registers behind memory, and of one of an odd length the last bytes
  are read from beyond its end (`emulate.c:18`).
- **Multiplied addresses.** Where a byte of a string's address makes a multiply (section 4), `StringIO`
  takes the product from a set of words, and the `mov` of the high byte may spoil the word on its
  way. That this multiply writes r0 (`mov`) or the address register (`add`) is all it does there:
  a variable in r0 is not modelled.
- **Input** is any of `InputWords` and `InputStrings`, or nothing (end of input).
- **Text.** Lines are taken as tokenized. A branch's operand keeps its name and the number
  the code would otherwise read in it. A BASIC line keeps its kind, and in `Lowering` the line
  it comes from; conditions and assignments are `test` and `effect` of that line.
- **Assembly text.** `CodeGeneration` keeps its labels and branches; of the other instructions
  it keeps the value they leave in a register, a bracketed expression over the variables.
- **The second pass's file.** `load_assembly` closes `fp`, opens the same file as `fp2`, and goes
  on reading `fp`. `Assembler` takes it as the C library in use has it: the new stream gets the
  freed one's memory, and the pass starts at the first line.
- **Printing** changes nothing, except that `prints` may run off the end of memory.

## 3. The runs

| Run | Question | Bounds |
|---|---|---|
| `EmulatorPipeline` | Does the pipeline implement `DelaySlotMachine`, are its latches never stale when no store hits the next instruction, and do programs without an endless loop come to their halting word? | every program of 3 words out of 8: arithmetic, both conditional branches, `b .`, a store and a load around PC, `mov pc`; and straight lines and count-down loops of up to 4 words |
| `EmulatorSelfModifying` | How far is a store ahead of the code it changes, and what do register 15 and Z mean, in any program? | every program of 3 words out of 20: every class of instruction, undefined shifts and opcodes, input over code, into CPSR and beyond, stores into code |
| `EmulatorNegativeFlag` | Does N follow the last result? (It does not.) | 3 words out of 3 |
| `Functions` | Are the masks, the sign extension and the rotation what they should be; does the emulator decode what the assembler encodes; does `shunting_yard` group as arithmetic does? | every word of 6 bits and every field narrower than it; over 2000 instructions: every encoder but the branch's, registers and constants at the ends of their fields, and the two addresses the compiler puts into `mov`; every expression of up to 5 operands with up to two pairs of brackets |
| `ByteMemory` | Is reversed, mirrored memory a little-endian array? | two words of 2-bit bytes, every address up to two past the end, and one that wraps |
| `StringIO` | Do literals print back whole? | strings of up to 9 characters, backslashes among them, over and next to each other and typed strings, in five words of memory; addresses of two base-12 digits, 1 and 8 of which make a multiply, so that the third word at one place and the second at the other go astray, to the other place or to a GPIO address |
| `SymbolTable` | Is the table a map, up to the entries lookups lose, and is `count` the number of buckets in use? | the code's hash and 41 buckets, three symbols that share one, two addresses |
| `SymbolTableLost` | Is an inserted symbol found? (Not always.) | the same |
| `Assembler` | Do the passes agree, do backward branches and literal loads reach their targets, does the assembler end? | every file of 3 lines out of 13 and a last one: labels that share a bucket, labels that are missing or defined twice, an unknown mnemonic, an immediate that is refused, a pool of two literals; on an empty and a non-empty destination file |
| `Lowering` | Does the lowered program do what the BASIC program says, and do the passes keep their labels apart? | every program of 3 lines of 17 kinds, and of 5 lines that open or close a loop with a line of text and END behind them; stacks with room for two loops |
| `CodeGeneration` | Do variables keep their registers, do expressions compute their value, are registers released, and do branches find their labels? | every program of 2 lines out of 32, and of 6 lines: two that declare variables, any, and three out of nine; 5 registers (12 in the code), the code's hash and 41 buckets |
| `ForwardBranch` | Does a branch to a later label reach it? (It does not.) | every file of 4 lines out of three, the branch, its label and an addition, and a last one |

The bounds reach every action. Three instructions fill all three stages of the pipeline, and
a fourth and fifth word of memory, zero, halt it or are overwritten; the two latches are all
the state the loop has beyond the processor, so longer programs repeat what three words show,
and the theorems of section 5 have no bound. The fields of six-bit words include every
start and end but the whole word, at which `create_mask` would shift by 32 (`emulator_utils.c:71`),
which C leaves undefined; only the
carry of a register shift by 32, undefined itself, would read such a field. Three symbols in a bucket let a lookup drop zero, one or two entries.
A pool limit of two (100 in the code) lets a program of four lines reach and pass it. Five loop
lines make two loops nested, one after the other or crossed, of one kind or two, and three open
ones, which is one more than the stacks hold (12 in the code: 100 bytes of pointers). With five
registers, two variables and an expression of three operands use them up.

*Deadlock.* The emulator stops when it halts or aborts, the assembler when it is done, failed
or undefined, and the compiler likewise: those configurations set `CHECK_DEADLOCK FALSE`.

*Fairness.* `EmulatorPipeline` (for `EndingProgramsEnd`) and `Assembler` (for `Terminates`)
assume weak fairness of the next-state relation. Each program is one thread without locks, so
the operating system runs it to its next step; the reads it waits for return at the end of
input.

## 4. Where the code departs from what it says

Three runs expect a violation:

- `EmulatorNegativeFlag`: `set_n` (`emulator_utils.c:122`) never clears N, so `bge`, `blt`,
  `bgt` and `ble` go by any earlier negative result. `set_c` has the same form, but no
  condition reads C.
- `SymbolTableLost`: `lookup` walks a chain with `*lookup_entry = *lookup_entry->next`
  (`compile/symbol_table.c:186`), which overwrites the head of the chain.
- `ForwardBranch`: the offset of a forward branch is not divided by four
  (`assemble_instructions.c:374`), so that one over two instructions goes three too far. The run is
  about branches over at least one instruction, whose offset is not negative: the branch to the next
  line has the offset -4, which is not masked either and fills the word with ones.

Others are in the models as the code has them, and the properties are stated around them:

- The shifter's carry is any bit shifted out (`instructions.c:16`, `:38`), and a shift by a
  register of the width or more is undefined.
- The bounds check of a transfer looks one word further (`instructions.c:226`): the last word
  of memory is refused. `ByteMemory` rejects it too.
- `inputn r16` writes CPSR (`instructions.c:295`): `ZeroFlagIsLast` is about Z until a number is typed
  there, and from the next result on.
- Typed strings are stored without reversing their bits (`instructions.c:288`) while `prints`
  reverses what it reads; `LiteralPrintsBack` is about literals only.
- `symbol_table.h:16` calls `count` the number of entries; it is the number of buckets in use.
- The assembler's `lookup` follows a null pointer for an unknown name in a bucket in use
  (`assembler/symbol_table.c:165`): action `CrashInLookup`.
- An immediate whose bits 4 to 7 are 1001 is decoded as a multiply (`emulator_utils.c:95`), odd
  shifts of large immediates spill into the rotation (`assemble_instructions.c:456`), and those of
  more than eight significant bits are refused (`:451`): `DecodesToItsMeaning` says that it fails
  for exactly these. A negative constant is 2^32 more (`:432`), and so mostly refused. The property is
  stated without shifted operands of `mov`, which
  `assemble_data_processing` drops.
- The same multiply befalls the `add` and the `mov` from which compiled code makes the address of a
  string's word (`compile/compiler.c:803`, `:811`), at addresses with a byte from 0x90 to 0x9f: the
  fourth word of the first string variable (0x7F90) and the 34th of a printed literal (0xFF90) are
  stored elsewhere, so that a string variable of 13 or more characters does not print back.
  `LiteralPrintsBack` is about strings none of whose words was sent astray, nor spoilt by one that
  was.
- A literal load on the last line gets a negative offset (`assemble_instructions.c:249`):
  `LiteralsReached` is about the other lines.
- The destination file is appended to (`assemble.c:16`), so assembling twice leaves both
  programs: the properties of `Assembler` are relative to what was there.
- Nothing checks the room for 100 literals: action `OverflowPool`.

In the compiler:

- `src/doc/Report.tex:48` says that the compiler's language "compiles to the ARM instructions
  taken by the assembler" and lists LEN, RND, GOSUB and INPUT. The assembler does not take what these
  compile to. The prologue for GOSUB and for INPUT of a string (`compile/compiler.c:837`, `:843`)
  moves 65284 and 32644, which have more than eight significant bits. LEN (`:410`) and string
  comparison (`:583`) write labels without a colon, which are unknown mnemonics, and RND (`:467`)
  branches to a label with one. `BranchesFindOneLabel` says that exactly these branches find no
  label, and `DecodesToItsMeaning` covers the two immediates. The compiler's own tester compares
  assembly texts and does not assemble them.
- `src/doc/Report.tex:49` speaks of "the correct order of operations". `shunting_yard` takes the
  precedence of the operator on top of its stack once (`o2`, `:244`) and merges everything below
  by it: `a+b*c*d` becomes `(a+(b*c))*d`. `GroupsByPrecedence` says that it groups as arithmetic
  does exactly when no sum adds a product of three or more.
- `eval_arithmetic` frees the left operand's register after an operation (`:373`), also when it is
  a variable's, and the register that has a constant's number when that is the left operand.
  `eval_conditional` frees that of the left side of a comparison. `VariablesKeepRegisters` is about
  the variables whose register was not freed. `SafeExpressionsComputed` is about lines whose
  variables come once, hold their values and, but for the first operand, are in busy registers, and
  whose constants come first or behind a `+` or a `-`, where the assembler reads them.
- The command of an IF is compiled with a variable table and free registers of its own (`:694`): it
  finds no variable of the program and writes registers that belong to them. An IF, or an INPUT of
  a string, in such a command numbers its labels again; `BranchesFindOneLabel` is about the others.
- A comparison with a string literal takes a register for it that nothing loads and nothing frees
  (`:551`): `ScratchReleased` counts it as lost.
- `cmp` is written with the right side first (`:660`) under the condition of the left one, so that
  `IF a>b` branches when `b>a`; a constant on the right is then taken for a register's number. The
  models keep neither the operator nor the operands of a comparison. 0 is known as a constant at
  the end of a LET only (`:321`).
- RETURN writes `b rN` (`:902`), a branch by a number and not through a register.
- The labels of DO and WHILE go by nesting depth (`:1057`, `:1094`), so that of two loops of one
  kind and depth both jump to the last one's label. `StructuredProgram` allows a jump to a rival,
  and nothing else.
- `replace_on_with_if` replaces ON wherever in a line it stands (`:716`). A file without END is
  read beyond the array (`:53`), a WHILE or FOR whose condition has more than nine characters (`:1088`;
  that of a FOR is `VAR<=TERM`), a FOR whose assignment has more than 24 (`:1137`), one loop too many,
  or a WEND or NEXT without its loop leaves the buffers and stacks (`:1077`, `:1123`): the actions
  `ReadBeyondFile`, `LeaveCondStack` and `LeaveVarStack`.
- `strip_char_from_string` drops both characters of an escaped backslash (`:734`), so that enough
  of them leave no room for a literal's last word: `LiteralPrintsBack` is about the others.

## 5. The proofs

All of them hold for every width of a byte, size of memory, instruction table, set of object
files, hash function and number of buckets that satisfy the named assumptions of `Processor`,
`Emulator`, `EmulatorTrace`, `ByteMemory`, `StringIO`, `SymbolTable`, `Assembler`, `Lowering` and
`CodeGeneration`
(the three about the bit operations hold for every width of a word up to 32 bits, and
`FieldsAreRead` for every field narrower than the word):
positive widths with a table of powers of two, bit operations that return words, memory of
whole words below the GPIO addresses, `Decode` total, undefined results and input that are
words and bytes; literals that hold no NUL, at word-aligned places of
two-byte addresses; a positive number of buckets
and a hash into them; files that are sequences of lines, and a natural number of pointers on the
passes' stacks; at least one register, and IFs whose commands are lines again (one in the code). Of a line of assembly text `SourcesAssumption` says what the theorems about words
need: that a transfer names a register of 16 and has an offset of one of the forms the encoder
reads, and that a label is a symbol. TLC evaluates the assumptions in every run of those modules.

Two theorems have a hypothesis of their own, since the code checks neither length:
`BranchesGoBack` is about source files of at most 2^23 - 2 lines (`BranchesFit`: the 24-bit
offset of a branch is signed, and the emulator's memory has 2^14 words), and
`LiteralsAreReached` about files of at most 1026 lines less the pool's room, 100 literals in the
code (`OffsetsFit`: a transfer's offset has 12 bits; a longer one would run into the field of
the base register, where `set_bits_to` ORs it in).

| Theorem | Says | Argument |
|---|---|---|
| `EmulatorType`, `TraceType` | types, auxiliary variables included | one lemma per class of instruction in `ProcessorLemmas`; a load's type needs the bounds its guard establishes |
| `StoresReachTheRest` | `OnlyNextIsStale`, for any program | inductive invariant `StaleForOne`, with `FetchedIsCurrent`: an instruction is executed with a latch read just before it, so what a latch holds is memory's or was changed by the last instruction executed |
| `NothingIsStale` | `NothingStale`, of `NoStaleStoreSpec` | inductive invariant `LatchesAreCurrent`: the latches fill in order, and at each stage those in use agree with memory |
| `InstructionsReadPCPlus8`, `ProgramsHaltAtPlus8` | `ReadsPCPlus8`, `HaltsAtPlus8` | inductive invariant `PCIsAhead`, how far PC is ahead of each latch at each stage; `ToWordSum` for the arithmetic modulo a word |
| `ZeroFlagFollowsResults` | `ZeroFlagIsLast` | inductive as it stands: `set_z` decides Z whatever `set_n` and `set_c` do, and an input changes the flags only where the trace forgets the last result |
| `PipelineRefines` | `RefinesDelaySlotMachine`, of `NoStaleStoreSpec` | one lemma per step; the mapping takes `pc` from the latch whose instruction comes next, and the invariants above make that instruction the one memory holds there, which reads the same register 15 |
| `SymbolTableType`, `NoReplacedAddress` | `EntriesAreCurrent` | inductive together (`TableInv`); without duplicates the walk's stop is determined, and a suffix or an extension of a current chain is current |
| `CountStaysBucketsInUse` | `CountIsBucketsInUse` | an insert adds at most one bucket, a lookup leaves a non-empty chain non-empty |
| `TableImplementsMap` | `RefinesSymbolMap`, of the compiler's copy | initial states and steps map to those of `SymbolMap` |
| `MemoryType`, `MemoryIsFlat` | `TypeOK`, `RefinesFlatMemory` of `ByteMemory` | the mapping takes the flat array from memory by `change_endianness` and `ReverseByte`; mirroring is its own inverse within a word and about any boundary, so the store's two mirrorings put byte k of a word where the load looks for it; what the bounds check lets through lies in memory |
| `FieldsAreRead`, `SignExtendIsRight`, `RotationIsRight` | `FieldsOfReversedWord`, `SignExtendKeepsValue`, `RotateMovesEachBit`, of one call on a word of any width up to the code's 32 bits; a field is narrower than the word | a number is known by its bits (`SameBits`), and the bits of quotients, remainders, sums of disjoint parts and reversed words are known (`BitOfQuotient`, `BitOfRemainder`, `BitsOfParts`, `ReversedBits`); `reverse_bits` by induction over its steps |
| `InstructionsDecode` | `DecodesAsWritten` of every text that `IsInstructionText` admits, the second half of `DecodesToItsMeaning` | the fields an encoder writes lie apart, and a field is read as the number whose bits it holds (`FieldPlace`, `FieldValue`). Operands: `OperandIsWritten` and `OperandIsRead` for shifted registers, `OffsetIsWritten` and `OffsetIsRead` for addresses. Immediates: the lowest bit is what the loop stops at (`LowestBit`), so up to eight significant bits are rotated back to their place (`EightIsRead`); with a ninth bit, bit 8 of the word is lost in the rotation and the value is another (`NinthBitIsLost`); the bits 4 to 7 of the word decide between a multiply and data processing (`MarkIsNine`, `MarkOfImmediate`), which gives both directions of the equivalence. Then one lemma for each encoder |
| `PassesNumberAlike` | `PassesAgree` | inductive invariant `CountInv`: in each pass the count is the number of instructions before the cursor, a cardinality that grows by one behind an instruction; whatever the encoders return, a line writes one word or none and ends the run |
| `AssemblerType` | `TypeOK` of `Assembler` | inductive invariant `TypeInv`: the counts' ranges need `CountInv`, the table's type that of `SymbolTableProofs`, and every encoder returns a set of positions |
| `BranchesGoBack` | `BackwardBranchesHit` | inductive invariant `EncodedInv`: each symbol has the address of its last definition (`LabelsEntered`), and each assembled branch and literal load has the word its encoder returned when it was reached (`BranchWords`, `LiteralWords`). A lookup that finds a name answers its last address, whatever lookups dropped; one that finds nothing cannot follow the second pass's first lookup of that bucket without a crash. `BackwardBranchDecodes`: the fields of a branch do not meet, and the 24-bit complement of a negative offset is what the sign extension undoes |
| `LiteralsAreReached` | `LiteralsReached` | the same invariant: the k-th literal load has the offset computed from the first pass's count, the second's and k; `PoolLoadDecodes` reads it back, and the pool is where the offset says when it is written |
| `StringsTyped` | `TypeOK` of `StringIO` | inductive with the lemmas about loads and stores |
| `LiteralsPrintBack` | `LiteralPrintsBack` | inductive invariant `StringInv`: a literal being stored is one of the program's and lies in memory (`BeingStored`), and the bytes stored so far of each string held are the reversed characters in order, the NUL among them (`LiteralsInMemory`). A word's `str` reaches no string but the one it belongs to, since the others were given up when it began, unless its address made a multiply, which leaves both places `astray`; `WordsCounted` gives the NUL a place |
| `LoweringType` | `TypeOK` of `Lowering` | inductive as it stands: each step appends or replaces lines of known kinds |
| `CodeGenerationType` | `TypeOK` of `CodeGeneration` | inductive invariant `IInv`: the call that compiles is as `BetweenLines` says, and each call that waits for its command as `Waiting` says |
| `VariablesKeepTheirRegisters` | `VariablesKeepRegisters` | the same: no name has two entries (`OneEntryEach`), and the register of each entry whose variable is not exposed is busy and holds it (`KeepBut`). Lookups only drop entries, values go to free registers, and what is freed or shared exposes its variable; the scratch registers of a waiting comparison belong to no variable (`Unclaimed`) |
| `ScratchIsReleased` | `ScratchReleased` | `shunting_yard` gives only expressions that never close more than they open and end one operand higher (`BracketsWell`); of such a one, `eval_arithmetic` holds just the registers of the left operands that wait on its stack (`Piles`, `Pending`), and of a finished one none |
| `BranchesFindTheirLabel` | `BranchesFindOneLabel` | inductive invariant `LInv`: the file written so far has each label once and, but for the labels that the waiting calls still owe, one for each branch that is not misspelt (`LabelsOK`). It needs that a number once used is below its counter, that only the outermost call counts IFs and INPUTs, and that of each kind of IF at most one waits (`NestedOnce`), all unless a call has numbered its labels again. How each construct adds to the file is one lemma (`AddsLength`, `AddsRnd`, `AddsInput`, `AddsIf`, `AddsIfStrings`, ...), and that an expression only adds LENs and RNDs (`Counts`) is by induction over its tokens |
| `ExpressionsAreComputed` | `SafeExpressionsComputed` | `Sound`, of every bracketed expression that `shunting_yard` puts on its stack: wherever `eval_arithmetic` compiles it, in whatever state of the registers that holds its variables' values (`Computes`), its value is in the operand on top of the stack, that operand's register was free or is one of the expression's own, and no other busy register has changed (`Untouched`). The last is what an operation needs of its right operand, so that the left one is still there. An operand is sound (`LeafComputes`), and so is what an operator makes of two sound ones that share no variable (`CombineComputes`, `OperationComputes`); by induction over `shunting_yard`'s merges it yields nothing else. A line that finds no free register stops, which ends the induction's hypothesis and not the theorem |
| `PassesShareNoLabel` | `LabelFamiliesApart` | inductive invariant `PassInv`: at each pass, which kinds of line the files may hold, below which number their labels lie, and that the open loops leave room below `num_generated_labels` |

`OnlyNextIsStale`, `ReadsPCPlus8`, `HaltsAtPlus8` and `NothingStale` are not inductive as
stated: they speak of one stage, and their strengthenings say what each of the other stages
must keep. `LabelFamiliesApart` speaks of the lowered file only, and `PassInv` of the files of
every pass, since each pass keeps the labels of the one before.
`BackwardBranchesHit` and `LiteralsReached` speak of words in a file, and `EncodedInv` of how each
came to be there; `LiteralPrintsBack` speaks of two steps, and `StringInv` of what memory holds
between them. `VariablesKeepRegisters` speaks of the outermost call only: it is kept through the
command of an IF because `IInv` says it of the calls that wait, too, and `EndIf` exposes the
variables whose registers the command wrote. Within a line the same facts are carried from
instruction to instruction by `Leads`; an expression's own proof is by induction over its
tokens. `BranchesFindOneLabel` speaks of the finished file, in which every IF has ended: `LInv`
says of every file on the way which labels are still to come. `SafeExpressionsComputed` speaks of the
line compiled last, in the state it was compiled from: `IInv` gives the registers and the table of
that state, and the induction runs over the line.

*Only model-checked.* `EndingProgramsEnd` and `Terminates` (liveness under fairness is out of the
prover's reach); `RefinesStructuredProgram` (it needs that a nesting depth determines a loop's
label, by induction over the file); and `GroupsByPrecedence` of
run `Functions` (the reference reading of arithmetic is a recursive definition). Of
`DecodesToItsMeaning`, the run's half that every text it tries satisfies `IsInstructionText` is
about the run; what the encoders do with such a text is proved.

## 6. What is not modelled

- The texts of BASIC lines: `strtok`, the parsing of conditions and of FOR's bounds, `is_string`,
  and the conversion of an expression's text to tokens. They are string handling; the refusals
  they lead to are actions.
- What the code for LEN, RND, string comparison, INPUT of a string and GOSUB would do when it
  runs: the assembler refuses it (section 4). Their labels, registers and exits are in
  `CodeGeneration`.
- The text side of the tokenizer (`strtok` and copies): string handling; the refusal of an
  unknown mnemonic is an action of `Assembler`.
- `resize` and `rehash` of the symbol table, which nothing calls, and the freeing of tables.
- `print_processor`, `print_instruction_bits`, the compiler's tester, the build files and the
  report.

## 7. Plan

Done: the emulator's loop and instructions, memory and bit operations; the symbol table; the
encoders and the assembler's passes; literals in memory; the compiler's passes, expressions and
code generation; the theorems above.

Next, in this order:

1. The run of generated code in `Emulator`: an expression's instructions as `CodeGeneration`
   writes them, composed with `Processor` for what they leave in the registers.
