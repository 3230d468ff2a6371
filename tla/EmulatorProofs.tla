---------------------------- MODULE EmulatorProofs ----------------------------
(***************************************************************************)
(* Theorems about the emulator's pipeline, for every width of a word, size *)
(* of memory, instruction table and set of object files.                   *)
(***************************************************************************)
EXTENDS EmulatorTrace, ProcessorLemmas

(***************************************************************************)
(* Types                                                                   *)
(***************************************************************************)
\* What the processor's type says of its parts.
LEMMA ProcessorParts ==
  ASSUME TypeOK
  PROVE  /\ processor.memory \in [Address -> Byte]
         /\ processor.cpsr \in Flags
         /\ PC \in Word
         /\ PC \in Int
         /\ PC >= 0
         /\ instruction \in Instruction
<1>1. PC_REGISTER \in Register
  BY DEF PC_REGISTER, Register
<1>2. PC \in Word
  BY <1>1 DEF TypeOK, ProcessorState, PC
<1>3. instruction \in Instruction
  BY LatchWordType, DecodeAssumption DEF TypeOK, instruction
<1>4. PC \in Nat
  BY <1>2, WordIsNat
<1>. QED  BY <1>2, <1>3, <1>4 DEF TypeOK, ProcessorState

\* Moving register 15 on leaves a processor with the same memory and flags.
LEMMA AdvancePCType ==
  ASSUME NEW p \in ProcessorState
  PROVE  /\ AdvancePC(p) \in ProcessorState
         /\ AdvancePC(p).memory = p.memory
         /\ AdvancePC(p).cpsr = p.cpsr
         /\ AdvancePC(p).registers[PC_REGISTER]
              = ToWord(p.registers[PC_REGISTER] + BYTES_PER_INSTRUCTION)
<1>1. PC_REGISTER \in Register
  BY DEF PC_REGISTER, Register
<1>2. p.registers[PC_REGISTER] \in Nat
  BY <1>1, WordIsNat DEF ProcessorState
<1>3. ToWord(p.registers[PC_REGISTER] + BYTES_PER_INSTRUCTION) \in Word
  BY <1>2, ToWordType DEF BYTES_PER_INSTRUCTION
<1>. QED  BY <1>1, <1>3 DEF AdvancePC, ProcessorState

\* The empty latch is one.
LEMMA ZeroLatchType == ZeroLatch \in Latch
BY WordIsNat DEF ZeroLatch, Latch

\* Loading an image leaves everything of its type.
LEMMA InitType == Init => TypeOK
<1>. SUFFICES ASSUME Init PROVE TypeOK
  OBVIOUS
<1>1. PICK image \in Images : processor = InitialProcessor(image)
  BY DEF Init
<1>2. processor \in ProcessorState
  BY <1>1, ImagesAssumption, InitialProcessorType
<1>. QED  BY <1>2, ZeroLatchType DEF Init, TypeOK, Stage

\* Every step of the loop keeps everything of its type.
LEMMA NextType == TypeOK /\ [Next]_vars => TypeOK'
<1>. SUFFICES ASSUME TypeOK, [Next]_vars PROVE TypeOK'
  OBVIOUS
<1>. USE DEF Stage
<1>0. instruction \in Instruction
  BY ProcessorParts
<1>1. CASE NothingToExecute
  BY <1>1 DEF NothingToExecute, KeepPipeline, TypeOK
<1>2. CASE ExecuteDataProcessing
  BY <1>0, <1>2, DataProcessingType DEF ExecuteDataProcessing, Executing, KeepPipeline, TypeOK
<1>3. CASE ExecuteMultiply
  BY <1>0, <1>3, MultiplyType DEF ExecuteMultiply, Executing, KeepPipeline, TypeOK
<1>4. CASE ExecuteTransfer
  BY <1>0, <1>4, TransferType DEF ExecuteTransfer, Executing, KeepPipeline, TypeOK
<1>5. CASE ExecutePrint
  BY <1>5 DEF ExecutePrint, KeepPipeline, TypeOK
<1>6. CASE ExecuteInput
  BY <1>0, <1>6, InputType DEF ExecuteInput, Executing, KeepPipeline, TypeOK
<1>7. CASE Abort
  BY <1>7 DEF Abort, TypeOK
<1>8. CASE BranchNotTaken
  BY <1>8 DEF BranchNotTaken, KeepPipeline, TypeOK
<1>9. CASE BranchTaken
  BY <1>0, <1>9, BranchType, ZeroLatchType DEF BranchTaken, Executing, TypeOK
<1>10. CASE NothingToDecode
  BY <1>10 DEF NothingToDecode, TypeOK
<1>11. CASE DecodeInstruction
  BY <1>11 DEF DecodeInstruction, TypeOK
<1>12. CASE Halt
  BY <1>12, AdvancePCType DEF Halt, TypeOK
<1>13. CASE Fetch
  <2>1. Latches(processor.memory, PC) \subseteq Latch
    BY ProcessorParts, LatchesType
  <2>. QED  BY <1>13, <2>1, AdvancePCType DEF Fetch, TypeOK
<1>14. CASE UNCHANGED vars
  BY <1>14 DEF vars, TypeOK
<1>. QED
  BY <1>1, <1>2, <1>3, <1>4, <1>5, <1>6, <1>7, <1>8, <1>9, <1>10, <1>11, <1>12, <1>13,
     <1>14 DEF Next

\* The emulator is always a processor with two latches: no instruction leaves
\* a register wider than 32 bits or a byte of memory wider than eight.
THEOREM EmulatorType == Spec => []TypeOK
BY InitType, NextType, PTL DEF Spec

(***************************************************************************)
(* The auxiliary variables                                                 *)
(***************************************************************************)
\* The recorded result is the one the step took.
LEMMA ResultOfStep ==
  ASSUME TypeOK, ExecuteDataProcessing
  PROVE  /\ ResultOf(instruction) \in Word
         /\ \E op2 \in Operands(processor, instruction.op2) :
              processor' = AfterDataProcessing(processor, instruction, op2,
                                               ResultOf(instruction))
<1>. DEFINE i == instruction
            Taken(w) == \E op2 \in Operands(processor, i.op2) :
                          /\ w \in AluResults(i.opcode, processor.registers[i.rn], op2.value)
                          /\ processor' = AfterDataProcessing(processor, i, op2, w)
<1>1. i \in Instruction /\ i.type = "DATA_PROCESS"
  BY ProcessorParts DEF ExecuteDataProcessing, Executing
<1>2. i.opcode \in 0 .. 15 /\ i.rn \in Register /\ i.op2 \in Operand2
  BY <1>1 DEF Instruction
<1>3. processor.registers[i.rn] \in Word
  BY <1>2 DEF TypeOK, ProcessorState
<1>4. PICK op2 \in Operands(processor, i.op2) :
        \E w \in AluResults(i.opcode, processor.registers[i.rn], op2.value) :
          processor' = AfterDataProcessing(processor, i, op2, w)
  BY DEF ExecuteDataProcessing, DataProcessing
<1>5. op2.value \in Word
  BY <1>2, <1>4, OperandsType DEF TypeOK, Shifted
<1>6. AluResults(i.opcode, processor.registers[i.rn], op2.value) \subseteq Word
  BY <1>2, <1>3, <1>5, AluResultsType
<1>7. \E w \in Word : Taken(w)
  BY <1>4, <1>6
<1>8. ResultOf(i) = CHOOSE w \in Word : Taken(w)
  BY DEF ResultOf
<1>9. ResultOf(i) \in Word /\ Taken(ResultOf(i))
  BY <1>7, <1>8
<1>. QED  BY <1>9

\* A step of the traced emulator is a step of the emulator.
LEMMA TraceStep == TraceNext => Next
BY DEF TraceNext, Next

\* The auxiliary variables keep their types.
LEMMA TraceInitType == TraceInit => TraceTypeOK
BY InitType, WordIsNat DEF TraceInit, TraceTypeOK

LEMMA TraceNextType == TraceTypeOK /\ [TraceNext]_traceVars => TraceTypeOK'
<1>. SUFFICES ASSUME TraceTypeOK, [TraceNext]_traceVars PROVE TraceTypeOK'
  OBVIOUS
<1>1. TypeOK'
  BY NextType, TraceStep DEF TraceTypeOK, traceVars
<1>2. PC \in Word
  BY ProcessorParts DEF TraceTypeOK
<1>3. ASSUME RecordExecute
      PROVE  /\ sequential' \in BOOLEAN /\ stored' \in SUBSET Address
             /\ UNCHANGED <<fetched_at, decoded_at>>
  BY <1>3 DEF RecordExecute, TraceTypeOK
<1>4. CASE RecordOther
  BY <1>1, <1>3, <1>4 DEF RecordOther, TraceTypeOK
<1>5. CASE ExecuteDataProcessing /\ RecordDataProcessing
  BY <1>1, <1>3, <1>5, ResultOfStep DEF RecordDataProcessing, TraceTypeOK
<1>6. CASE ExecuteMultiply /\ RecordMultiply
  <2>1. instruction \in Instruction /\ instruction.type = "MULTIPLY"
    BY <1>6, ProcessorParts DEF ExecuteMultiply, Executing, TraceTypeOK
  <2>2. processor'.registers[instruction.rd] \in Word
    BY <2>1, <1>1 DEF Instruction, TypeOK, ProcessorState
  <2>. QED  BY <1>1, <1>3, <1>6, <2>2 DEF RecordMultiply, TraceTypeOK
<1>7. CASE UNCHANGED aux
  BY <1>1, <1>7 DEF aux, TraceTypeOK
<1>8. CASE RecordDecode
  BY <1>1, <1>8 DEF RecordDecode, TraceTypeOK
<1>9. CASE RecordFetch
  BY <1>1, <1>2, <1>9 DEF RecordFetch, TraceTypeOK
<1>10. CASE UNCHANGED traceVars
  BY <1>1, <1>10 DEF traceVars, aux, TraceTypeOK
<1>11. CASE RecordInput
  BY <1>1, <1>3, <1>11 DEF RecordInput, TraceTypeOK
<1>. QED
  BY <1>4, <1>5, <1>6, <1>7, <1>8, <1>9, <1>10, <1>11 DEF TraceNext

\* The traced emulator is always of its type.
THEOREM TraceType == TraceSpec => []TraceTypeOK
BY TraceInitType, TraceNextType, PTL DEF TraceSpec

\* So is the one that never stores into its next instruction.
LEMMA NoStaleStoreIsTrace == NoStaleStoreSpec => TraceSpec
<1>1. [TraceNext /\ ~StaleStore]_traceVars => [TraceNext]_traceVars
  OBVIOUS
<1>. QED  BY <1>1, PTL DEF NoStaleStoreSpec, TraceSpec

(***************************************************************************)
(* The steps of the loop                                                   *)
(***************************************************************************)
\* The steps of the first part of the loop leave both latches alone or flush
\* them, and record what they change in memory, but no new address.
ExecutesTo ==
  /\ stage = "execute"
  /\ stage' = "decode"
  /\ UNCHANGED <<fetched_at, decoded_at>>
  /\ stored' = {b \in Address : processor'.memory[b] # processor.memory[b]}
  /\ \/ UNCHANGED <<fetched, decoded, decoded_valid, execute_valid>>
     \/ ~decoded_valid' /\ ~execute_valid'

LEMMA TraceCases ==
  ASSUME TraceNext
  PROVE  \/ ExecutesTo
         \/ stage = "execute" /\ stage' = "aborted"
              /\ UNCHANGED <<decoded_valid, execute_valid>>
         \/ NothingToDecode /\ UNCHANGED aux
         \/ DecodeInstruction /\ RecordDecode
         \/ Halt /\ RecordDecode
         \/ Fetch /\ RecordFetch
BY DEF TraceNext, ExecutesTo, NothingToExecute, ExecuteDataProcessing,
   ExecuteMultiply, ExecuteTransfer, ExecutePrint, ExecuteInput, Abort, BranchNotTaken,
   BranchTaken, Executing, KeepPipeline, RecordOther, RecordInput, RecordDataProcessing, RecordMultiply,
   RecordExecute

(***************************************************************************)
(* What waits in fetched                                                   *)
(***************************************************************************)
\* When the loop starts over, fetched is what memory holds and PC is one word
\* past it: only a fetch leads back to the top of the loop.
FetchedIsCurrent ==
  stage = "execute" /\ decoded_valid =>
    /\ fetched \in Latches(processor.memory, fetched_at)
    /\ PC = ToWord(fetched_at + BYTES_PER_INSTRUCTION)

LEMMA FetchedIsCurrentStep ==
  TraceTypeOK /\ FetchedIsCurrent /\ [TraceNext]_traceVars => FetchedIsCurrent'
<1>. SUFFICES ASSUME TraceTypeOK, FetchedIsCurrent, [TraceNext]_traceVars
              PROVE  FetchedIsCurrent'
  OBVIOUS
<1>1. CASE Fetch /\ RecordFetch
  <2>1. processor' = AdvancePC(processor) /\ fetched' \in Latches(processor.memory, PC)
          /\ fetched_at' = PC
    BY <1>1 DEF Fetch, RecordFetch
  <2>2. processor'.memory = processor.memory
          /\ processor'.registers[PC_REGISTER] = ToWord(PC + BYTES_PER_INSTRUCTION)
    BY <2>1, AdvancePCType DEF TraceTypeOK, TypeOK, PC
  <2>. QED  BY <2>1, <2>2 DEF FetchedIsCurrent, PC
<1>2. CASE UNCHANGED traceVars
  BY <1>2 DEF traceVars, vars, aux, FetchedIsCurrent, PC
<1>3. CASE stage' # "execute"
  BY <1>3 DEF FetchedIsCurrent
<1>. QED
  BY <1>1, <1>2, <1>3 DEF TraceNext, NothingToExecute, ExecuteDataProcessing,
     ExecuteMultiply, ExecuteTransfer, ExecutePrint, ExecuteInput, Abort, BranchNotTaken,
     BranchTaken, NothingToDecode, DecodeInstruction, Halt, KeepPipeline

\* What a latch holds is what memory does, or the last instruction executed
\* changed it.
Reflects(latch, at) ==
  \/ latch \in Latches(processor.memory, at)
  \/ \E k \in 0 .. 3 : at + k \in stored

\* OnlyNextIsStale, at every point of the loop.
StaleForOne ==
  /\ execute_valid => decoded_valid
  /\ stage = "decode" /\ decoded_valid => Reflects(fetched, fetched_at)
  /\ stage \in {"fetch", "execute"} /\ execute_valid => Reflects(decoded, decoded_at)

\* A step changes what memory holds at an address, or leaves it.
LEMMA LatchesKept ==
  ASSUME TypeOK, TypeOK', NEW at \in Word,
         stored' = {b \in Address : processor'.memory[b] # processor.memory[b]}
  PROVE  \/ Latches(processor'.memory, at) = Latches(processor.memory, at)
         \/ \E k \in 0 .. 3 : at + k \in stored'
<1>1. CASE at + 3 \in Address
  <2>1. ASSUME NEW k \in 0 .. 3 PROVE at + k \in Address
    BY <1>1, WordIsNat, MemoryAssumption DEF Address
  <2>2. ASSUME \A k \in 0 .. 3 : at + k \notin stored'
        PROVE  \A k \in 0 .. 3 : processor'.memory[at + k] = processor.memory[at + k]
    BY <2>1, <2>2
  <2>. QED  BY <1>1, <2>2 DEF Latches
<1>2. CASE at + 3 \notin Address
  BY <1>2 DEF Latches
<1>. QED  BY <1>1, <1>2

LEMMA StaleForOneStep ==
  TraceTypeOK /\ FetchedIsCurrent /\ StaleForOne /\ [TraceNext]_traceVars => StaleForOne'
<1>. SUFFICES ASSUME TraceTypeOK, FetchedIsCurrent, StaleForOne, [TraceNext]_traceVars
              PROVE  StaleForOne'
  OBVIOUS
<1>0. TypeOK /\ TypeOK' /\ fetched_at \in Word
  BY TraceNextType DEF TraceTypeOK
<1>1. CASE ExecutesTo
  <2>1. CASE decoded_valid /\ UNCHANGED <<fetched, decoded_valid, execute_valid>>
    <3>1. fetched \in Latches(processor.memory, fetched_at)
      BY <1>1, <2>1 DEF ExecutesTo, FetchedIsCurrent
    <3>2. fetched' = fetched /\ fetched_at' = fetched_at
      BY <1>1, <2>1 DEF ExecutesTo
    <3>3. \/ Latches(processor'.memory, fetched_at) = Latches(processor.memory, fetched_at)
          \/ \E k \in 0 .. 3 : fetched_at + k \in stored'
      BY <1>0, <1>1, LatchesKept DEF ExecutesTo
    <3>4. Reflects(fetched, fetched_at)'
      BY <3>1, <3>2, <3>3 DEF Reflects
    <3>. QED  BY <1>1, <2>1, <3>4 DEF ExecutesTo, StaleForOne
  <2>2. CASE ~decoded_valid' /\ ~execute_valid'
    BY <1>1, <2>2 DEF ExecutesTo, StaleForOne
  <2>3. CASE ~decoded_valid /\ UNCHANGED <<fetched, decoded_valid, execute_valid>>
    BY <1>1, <2>3 DEF ExecutesTo, StaleForOne
  <2>. QED  BY <1>1, <2>1, <2>2, <2>3 DEF ExecutesTo
<1>2. CASE stage' = "aborted" /\ UNCHANGED <<decoded_valid, execute_valid>>
  BY <1>2 DEF StaleForOne
<1>3. CASE NothingToDecode /\ UNCHANGED aux
  BY <1>3 DEF NothingToDecode, StaleForOne
<1>4. CASE DecodeInstruction /\ RecordDecode
  BY <1>4 DEF DecodeInstruction, RecordDecode, StaleForOne, Reflects
<1>5. CASE Halt /\ RecordDecode
  BY <1>5 DEF Halt, StaleForOne
<1>6. CASE Fetch /\ RecordFetch
  <2>1. processor'.memory = processor.memory
    BY <1>0, <1>6, AdvancePCType DEF Fetch, TypeOK
  <2>. QED  BY <1>6, <2>1 DEF Fetch, RecordFetch, StaleForOne, Reflects
<1>7. CASE UNCHANGED traceVars
  BY <1>7 DEF traceVars, vars, aux, StaleForOne, Reflects
<1>. QED  BY <1>1, <1>2, <1>3, <1>4, <1>5, <1>6, <1>7, TraceCases

\* A store into the program reaches every instruction but the one executed
\* next, whatever branches, inputs and writes to register 15 come between.
THEOREM StoresReachTheRest == TraceSpec => []OnlyNextIsStale
<1>1. TraceInit => FetchedIsCurrent /\ StaleForOne
  BY DEF TraceInit, Init, FetchedIsCurrent, StaleForOne
<1>2. StaleForOne => OnlyNextIsStale
  BY DEF StaleForOne, OnlyNextIsStale, Reflects
<1>. QED
  BY <1>1, <1>2, TraceType, FetchedIsCurrentStep, StaleForOneStep, PTL DEF TraceSpec

(***************************************************************************)
(* Both latches                                                            *)
(***************************************************************************)
\* NothingStale, at every point of the loop: the latches fill in order, each
\* holds what memory does from when it is read until it is used.
LatchesAreCurrent ==
  /\ execute_valid => decoded_valid
  /\ stage \in {"execute", "decode"} /\ decoded_valid =>
       fetched \in Latches(processor.memory, fetched_at)
  /\ stage \in {"fetch", "execute"} /\ execute_valid =>
       decoded \in Latches(processor.memory, decoded_at)

LEMMA LatchesStep ==
  /\ TraceTypeOK
  /\ LatchesAreCurrent
  /\ [TraceNext /\ ~StaleStore]_traceVars
  => LatchesAreCurrent'
<1>. SUFFICES ASSUME TraceTypeOK, LatchesAreCurrent, [TraceNext /\ ~StaleStore]_traceVars
              PROVE  LatchesAreCurrent'
  OBVIOUS
<1>1. CASE ExecutesTo /\ ~StaleStore
  BY <1>1 DEF ExecutesTo, StaleStore, LatchesAreCurrent
<1>2. CASE stage' = "aborted" /\ UNCHANGED <<decoded_valid, execute_valid>>
  BY <1>2 DEF LatchesAreCurrent
<1>3. CASE NothingToDecode /\ UNCHANGED aux
  BY <1>3 DEF NothingToDecode, LatchesAreCurrent
<1>4. CASE DecodeInstruction /\ RecordDecode
  BY <1>4 DEF DecodeInstruction, RecordDecode, LatchesAreCurrent
<1>5. CASE Halt /\ RecordDecode
  BY <1>5 DEF Halt, LatchesAreCurrent
<1>6. CASE Fetch /\ RecordFetch
  <2>1. processor'.memory = processor.memory
    BY <1>6, AdvancePCType DEF Fetch, TraceTypeOK, TypeOK
  <2>. QED  BY <1>6, <2>1 DEF Fetch, RecordFetch, LatchesAreCurrent
<1>7. CASE UNCHANGED traceVars
  BY <1>7 DEF traceVars, vars, aux, LatchesAreCurrent
<1>. QED  BY <1>1, <1>2, <1>3, <1>4, <1>5, <1>6, <1>7, TraceCases

\* In a program that never stores into its next instruction, the pipeline
\* never decodes or executes bytes other than those memory holds.
THEOREM NothingIsStale == NoStaleStoreSpec => []NothingStale
<1>1. TraceInit => LatchesAreCurrent
  BY DEF TraceInit, Init, LatchesAreCurrent
<1>2. LatchesAreCurrent => NothingStale
  BY DEF LatchesAreCurrent, NothingStale
<1>3. NoStaleStoreSpec => []TraceTypeOK
  BY TraceType, NoStaleStoreIsTrace
<1>. QED  BY <1>1, <1>2, <1>3, LatchesStep, PTL DEF NoStaleStoreSpec

(***************************************************************************)
(* Register 15                                                             *)
(***************************************************************************)
\* Two words further on is one word further on, twice.
LEMMA TwoWordsOn ==
  ASSUME NEW a \in Word
  PROVE  ToWord(ToWord(a + BYTES_PER_INSTRUCTION) + BYTES_PER_INSTRUCTION)
           = ToWord(a + 2 * BYTES_PER_INSTRUCTION)
<1>1. a \in Int /\ a + BYTES_PER_INSTRUCTION \in Int /\ BYTES_PER_INSTRUCTION \in Int
  BY WordIsNat DEF BYTES_PER_INSTRUCTION
<1>2. ToWord(ToWord(a + BYTES_PER_INSTRUCTION) + BYTES_PER_INSTRUCTION)
        = ToWord((a + BYTES_PER_INSTRUCTION) + BYTES_PER_INSTRUCTION)
  BY <1>1, ToWordSum
<1>3. (a + BYTES_PER_INSTRUCTION) + BYTES_PER_INSTRUCTION = a + 2 * BYTES_PER_INSTRUCTION
  BY <1>1 DEF BYTES_PER_INSTRUCTION
<1>. QED  BY <1>2, <1>3

\* How far register 15 is ahead of each latch, at every point of the loop.
PCIsAhead ==
  /\ execute_valid => decoded_valid
  /\ sequential =>
       /\ stage \in {"execute", "decode"} /\ decoded_valid =>
            PC = ToWord(fetched_at + BYTES_PER_INSTRUCTION)
       /\ stage = "fetch" /\ execute_valid =>
            PC = ToWord(decoded_at + BYTES_PER_INSTRUCTION)
       /\ stage = "execute" /\ execute_valid =>
            PC = ToWord(decoded_at + 2 * BYTES_PER_INSTRUCTION)
       /\ stage = "halted" =>
            PC = ToWord(decoded_at + 2 * BYTES_PER_INSTRUCTION)

\* A step that executes keeps register 15, is recorded, or flushes.
LEMMA ExecuteCases ==
  ASSUME TraceNext, stage = "execute"
  PROVE  \/ /\ stage' = "aborted"
            /\ UNCHANGED <<decoded_valid, execute_valid>>
         \/ /\ stage' = "decode"
            /\ UNCHANGED <<fetched_at, decoded_at, decoded_valid, execute_valid>>
            /\ sequential' => sequential /\ PC' = PC
         \/ stage' = "decode" /\ ~decoded_valid' /\ ~execute_valid'
<1>1. CASE NothingToExecute /\ RecordOther
  BY <1>1 DEF NothingToExecute, KeepPipeline, RecordOther, RecordExecute, PC
<1>2. CASE BranchNotTaken /\ RecordOther
  BY <1>2 DEF BranchNotTaken, KeepPipeline, RecordOther, RecordExecute, PC
<1>3. CASE BranchTaken
  BY <1>3 DEF BranchTaken
<1>4. CASE Abort
  BY <1>4 DEF Abort
<1>5. ASSUME KeepPipeline, RecordExecute, execute_valid, instruction.type # "BRANCH"
      PROVE  /\ stage' = "decode"
             /\ UNCHANGED <<fetched_at, decoded_at, decoded_valid, execute_valid>>
             /\ sequential' => sequential /\ PC' = PC
  BY <1>5 DEF KeepPipeline, RecordExecute, WritesPC, PC
<1>6. CASE ExecuteDataProcessing /\ RecordDataProcessing
  BY <1>5, <1>6 DEF ExecuteDataProcessing, Executing, RecordDataProcessing
<1>7. CASE ExecuteMultiply /\ RecordMultiply
  BY <1>5, <1>7 DEF ExecuteMultiply, Executing, RecordMultiply
<1>8. CASE ExecuteTransfer /\ RecordOther
  BY <1>5, <1>8 DEF ExecuteTransfer, Executing, RecordOther
<1>9. CASE ExecutePrint /\ RecordOther
  BY <1>5, <1>9 DEF ExecutePrint, Executing, RecordOther
<1>10. CASE ExecuteInput /\ RecordInput
  BY <1>5, <1>10 DEF ExecuteInput, Executing, RecordInput
<1>. QED
  BY <1>1, <1>2, <1>3, <1>4, <1>6, <1>7, <1>8, <1>9, <1>10
     DEF TraceNext, NothingToDecode, DecodeInstruction, Halt, Fetch

LEMMA PCIsAheadStep == TraceTypeOK /\ PCIsAhead /\ [TraceNext]_traceVars => PCIsAhead'
<1>. SUFFICES ASSUME TraceTypeOK, PCIsAhead, [TraceNext]_traceVars PROVE PCIsAhead'
  OBVIOUS
<1>1. /\ AdvancePC(processor).registers[PC_REGISTER] = ToWord(PC + BYTES_PER_INSTRUCTION)
      /\ fetched_at \in Word /\ decoded_at \in Word
  BY AdvancePCType DEF TraceTypeOK, TypeOK, PC
<1>2. CASE TraceNext /\ stage = "execute"
  BY <1>2, ExecuteCases DEF PCIsAhead
<1>3. CASE NothingToDecode /\ UNCHANGED aux
  BY <1>3 DEF NothingToDecode, PCIsAhead
<1>4. CASE DecodeInstruction /\ RecordDecode
  BY <1>4 DEF DecodeInstruction, RecordDecode, PCIsAhead, PC
<1>5. CASE Halt /\ RecordDecode
  <2>1. PC' = ToWord(PC + BYTES_PER_INSTRUCTION)
    BY <1>1, <1>5 DEF Halt, PC
  <2>2. sequential => PC = ToWord(fetched_at + BYTES_PER_INSTRUCTION)
    BY <1>5 DEF Halt, PCIsAhead
  <2>. QED  BY <1>1, <1>5, <2>1, <2>2, TwoWordsOn DEF Halt, RecordDecode, PCIsAhead
<1>6. CASE Fetch /\ RecordFetch
  <2>1. PC' = ToWord(PC + BYTES_PER_INSTRUCTION)
    BY <1>1, <1>6 DEF Fetch, PC
  <2>2. sequential /\ execute_valid => PC = ToWord(decoded_at + BYTES_PER_INSTRUCTION)
    BY <1>6 DEF Fetch, PCIsAhead
  <2>. QED  BY <1>1, <1>6, <2>1, <2>2, TwoWordsOn DEF Fetch, RecordFetch, PCIsAhead
<1>7. CASE UNCHANGED traceVars
  BY <1>7 DEF traceVars, vars, aux, PCIsAhead, PC
<1>. QED
  BY <1>2, <1>3, <1>4, <1>5, <1>6, <1>7, TraceCases DEF ExecutesTo

LEMMA PCIsAheadAlways == TraceSpec => []PCIsAhead
<1>1. TraceInit => PCIsAhead
  BY DEF TraceInit, Init, PCIsAhead
<1>. QED  BY <1>1, TraceType, PCIsAheadStep, PTL DEF TraceSpec

\* An instruction reads register 15 as its own address plus 8 around every
\* flush, as long as only branches have written the register.
THEOREM InstructionsReadPCPlus8 == TraceSpec => []ReadsPCPlus8
<1>1. PCIsAhead => ReadsPCPlus8
  BY DEF PCIsAhead, ReadsPCPlus8
<1>. QED  BY <1>1, PCIsAheadAlways, PTL

\* Such a program ends with register 15 two words past its halting word.
THEOREM ProgramsHaltAtPlus8 == TraceSpec => []HaltsAtPlus8
<1>1. PCIsAhead => HaltsAtPlus8
  BY DEF PCIsAhead, HaltsAtPlus8
<1>. QED  BY <1>1, PCIsAheadAlways, PTL

(***************************************************************************)
(* The flags                                                               *)
(***************************************************************************)
\* set_z decides Z alone, whatever set_n and set_c do.
LEMMA ZeroFlagOfResult ==
  ASSUME NEW cpsr \in Flags, NEW result \in Word, NEW set \in BOOLEAN
  PROVE  /\ set_n(set_z(cpsr, result), result).z <=> result = 0
         /\ set_n(set_z(set_c(cpsr, set), result), result).z <=> result = 0
BY DEF Flags, set_n, set_z, set_c, Negative

LEMMA ZeroFlagStep ==
  TraceTypeOK /\ ZeroFlagIsLast /\ [TraceNext]_traceVars => ZeroFlagIsLast'
<1>. SUFFICES ASSUME TraceTypeOK, ZeroFlagIsLast, [TraceNext]_traceVars
              PROVE  ZeroFlagIsLast'
  OBVIOUS
<1>0. processor \in ProcessorState /\ processor.cpsr \in Flags /\ instruction \in Instruction
  BY ProcessorParts DEF TraceTypeOK, TypeOK
<1>1. ASSUME processor'.cpsr = processor.cpsr, last_result' = last_result
      PROVE  ZeroFlagIsLast'
  BY <1>1 DEF ZeroFlagIsLast
<1>2. CASE ExecuteDataProcessing /\ RecordDataProcessing
  <2>. DEFINE i == instruction
              w == ResultOf(i)
  <2>1. PICK op2 \in Operands(processor, i.op2) :
          processor' = AfterDataProcessing(processor, i, op2, w)
    BY <1>2, ResultOfStep DEF TraceTypeOK
  <2>2. w \in Word
    BY <1>2, ResultOfStep DEF TraceTypeOK
  <2>3. i.s \in BOOLEAN /\ i.op2 \in Operand2
    BY <1>0, <1>2 DEF ExecuteDataProcessing, Executing, Instruction
  <2>. DEFINE carry == \/ op2.carry
                       \/ AluCarry(i.opcode, processor.registers[i.rn], op2.value)
  <2>4. carry \in BOOLEAN
    BY <1>0, <2>1, <2>3, OperandsType DEF Shifted, AluCarry
  <2>5. processor'.cpsr = IF ~i.s THEN processor.cpsr
                          ELSE set_n(set_z(set_c(processor.cpsr, carry), w), w)
    BY <1>0, <2>1 DEF AfterDataProcessing, ProcessorState
  <2>6. last_result' = IF i.s THEN w ELSE last_result
    BY <1>2 DEF RecordDataProcessing
  <2>. HIDE DEF carry, w, i
  <2>7. CASE i.s
    <3>1. processor'.cpsr.z <=> w = 0
      BY <1>0, <2>2, <2>4, <2>5, <2>7, ZeroFlagOfResult
    <3>. QED  BY <3>1, <2>6, <2>7 DEF ZeroFlagIsLast
  <2>8. CASE ~i.s
    BY <1>1, <2>5, <2>6, <2>8
  <2>. QED  BY <2>7, <2>8
<1>3. CASE ExecuteMultiply /\ RecordMultiply
  <2>. DEFINE i == instruction
              product == ToWord(processor.registers[i.rm] * processor.registers[i.rs]
                                  + (IF i.a THEN processor.registers[i.rn] ELSE 0))
  <2>1. i.s \in BOOLEAN /\ i.rd \in Register
    BY <1>0, <1>3 DEF ExecuteMultiply, Executing, Instruction
  <2>2. /\ processor'.cpsr = IF i.s THEN set_n(set_z(processor.cpsr, product), product)
                                    ELSE processor.cpsr
        /\ processor'.registers[i.rd] = product
    BY <1>0, <1>3, <2>1 DEF ExecuteMultiply, Multiply, ProcessorState
  <2>3. last_result' = IF i.s THEN processor'.registers[i.rd] ELSE last_result
    BY <1>3 DEF RecordMultiply
  <2>4. processor' \in ProcessorState
    BY <1>0, <1>3, MultiplyType DEF ExecuteMultiply, Executing
  <2>5. product \in Word
    BY <2>1, <2>2, <2>4 DEF ProcessorState
  <2>. HIDE DEF product, i
  <2>6. CASE i.s
    <3>1. processor'.cpsr.z <=> product = 0
      BY <1>0, <2>2, <2>5, <2>6, ZeroFlagOfResult
    <3>. QED  BY <3>1, <2>2, <2>3, <2>6 DEF ZeroFlagIsLast
  <2>7. CASE ~i.s
    BY <1>1, <2>2, <2>3, <2>7
  <2>. QED  BY <2>6, <2>7
<1>4. CASE ExecuteTransfer /\ RecordOther
  <2>1. processor'.cpsr = processor.cpsr
    BY <1>0, <1>4, TransferType DEF ExecuteTransfer, Executing
  <2>. QED  BY <1>1, <1>4, <2>1 DEF RecordOther
<1>5. CASE ExecuteInput /\ RecordInput
  <2>1. ~TypesFlags => processor'.cpsr = processor.cpsr
    BY <1>0, <1>5, InputType DEF ExecuteInput, Executing, TypesFlags
  <2>2. CASE TypesFlags
    BY <1>5, <2>2 DEF RecordInput, ZeroFlagIsLast
  <2>3. CASE ~TypesFlags
    BY <1>1, <1>5, <2>1, <2>3 DEF RecordInput
  <2>. QED  BY <2>2, <2>3
<1>6. CASE BranchTaken /\ RecordOther
  <2>1. processor'.cpsr = processor.cpsr
    BY <1>0, <1>6, BranchType DEF BranchTaken, Executing
  <2>. QED  BY <1>1, <1>6, <2>1 DEF RecordOther
<1>7. CASE Halt /\ RecordDecode
  BY <1>0, <1>1, <1>7, AdvancePCType DEF Halt, RecordDecode
<1>8. CASE Fetch /\ RecordFetch
  BY <1>0, <1>1, <1>8, AdvancePCType DEF Fetch, RecordFetch
<1>9. CASE NothingToExecute /\ RecordOther
  BY <1>1, <1>9 DEF NothingToExecute, RecordOther
<1>10. CASE ExecutePrint /\ RecordOther
  BY <1>1, <1>10 DEF ExecutePrint, RecordOther
<1>11. CASE Abort /\ RecordOther
  BY <1>1, <1>11 DEF Abort, RecordOther
<1>12. CASE BranchNotTaken /\ RecordOther
  BY <1>1, <1>12 DEF BranchNotTaken, RecordOther
<1>13. CASE NothingToDecode /\ UNCHANGED aux
  BY <1>1, <1>13 DEF NothingToDecode, aux
<1>14. CASE DecodeInstruction /\ RecordDecode
  BY <1>1, <1>14 DEF DecodeInstruction, RecordDecode
<1>15. CASE UNCHANGED traceVars
  BY <1>1, <1>15 DEF traceVars, vars, aux
<1>. QED
  BY <1>2, <1>3, <1>4, <1>5, <1>6, <1>7, <1>8, <1>9, <1>10, <1>11, <1>12, <1>13, <1>14,
     <1>15 DEF TraceNext

\* Z tells whether the last result that set the flags was zero, across every
\* instruction executed since, flushes and delay slots included; only a number
\* typed into CPSR comes between.
THEOREM ZeroFlagFollowsResults == TraceSpec => []ZeroFlagIsLast
<1>1. TraceInit => ZeroFlagIsLast
  BY DEF TraceInit, ZeroFlagIsLast
<1>. QED  BY <1>1, TraceType, ZeroFlagStep, PTL DEF TraceSpec

(***************************************************************************)
(* The refinement: the pipeline implements the machine without latches,    *)
(* for every program that does not store into the word waiting in fetched. *)
(***************************************************************************)
\* Only words that do not halt the run are executed, and decode fills decoded
\* whenever there is something to decode.
DecodedRuns ==
  /\ stage \in {"fetch", "execute"} /\ execute_valid => decoded # ZeroLatch
  /\ stage = "fetch" /\ decoded_valid => execute_valid

RefinementInv == TraceTypeOK /\ FetchedIsCurrent /\ LatchesAreCurrent /\ DecodedRuns

LEMMA DecodedRunsStep ==
  LatchesAreCurrent /\ DecodedRuns /\ [TraceNext]_traceVars => DecodedRuns'
<1>. SUFFICES ASSUME LatchesAreCurrent, DecodedRuns, [TraceNext]_traceVars
              PROVE  DecodedRuns'
  OBVIOUS
<1>1. CASE stage' \in {"decode", "aborted", "halted"}
  BY <1>1 DEF DecodedRuns
<1>2. CASE NothingToDecode
  BY <1>2 DEF NothingToDecode, DecodedRuns, LatchesAreCurrent
<1>3. CASE DecodeInstruction
  BY <1>3 DEF DecodeInstruction, DecodedRuns
<1>4. CASE Fetch
  BY <1>4 DEF Fetch, DecodedRuns
<1>5. CASE UNCHANGED traceVars
  BY <1>5 DEF traceVars, vars, DecodedRuns
<1>. QED
  BY <1>1, <1>2, <1>3, <1>4, <1>5, TraceCases DEF ExecutesTo, Halt

LEMMA RefinementInvariant == NoStaleStoreSpec => []RefinementInv
<1>1. TraceInit => FetchedIsCurrent /\ LatchesAreCurrent /\ DecodedRuns
  BY DEF TraceInit, Init, FetchedIsCurrent, LatchesAreCurrent, DecodedRuns
<1>2. [TraceNext /\ ~StaleStore]_traceVars => [TraceNext]_traceVars
  OBVIOUS
<1>. QED
  BY <1>1, <1>2, TraceInitType, TraceNextType, FetchedIsCurrentStep, LatchesStep,
     DecodedRunsStep, PTL DEF NoStaleStoreSpec, RefinementInv

(***************************************************************************)
(* Initial states                                                          *)
(***************************************************************************)
\* A word is wide enough for the size of an instruction in bytes.
LEMMA WordHoldsFour == ToWord(BYTES_PER_INSTRUCTION) = BYTES_PER_INSTRUCTION
<1>. DEFINE n == WordBits
<1>1. n \in Nat /\ n >= 4
  BY WidthAssumption DEF WordBits, BYTES_PER_INSTRUCTION
<1>2. \A k \in 0 .. n - 1 : Pow2[k + 1] = 2 * Pow2[k]
  BY WidthAssumption
<1>3. \A k \in 0 .. n : Pow2[k] \in Nat \ {0}
  BY Pow2Positive
<1>. HIDE DEF n
<1>4. Pow2[n] = 2 * Pow2[n - 1] /\ Pow2[n - 1] = 2 * Pow2[n - 2]
        /\ Pow2[n - 2] = 2 * Pow2[n - 3]
  <2>1. /\ Pow2[(n - 1) + 1] = 2 * Pow2[n - 1]
        /\ Pow2[(n - 2) + 1] = 2 * Pow2[n - 2]
        /\ Pow2[(n - 3) + 1] = 2 * Pow2[n - 3]
    BY <1>1, <1>2
  <2>2. (n - 1) + 1 = n /\ (n - 2) + 1 = n - 1 /\ (n - 3) + 1 = n - 2
    BY <1>1
  <2>. QED  BY <2>1, <2>2
<1>5. Pow2[n - 3] \in Nat \ {0}
  BY <1>1, <1>3
<1>6. WordSize \in Nat /\ WordSize >= 8
  BY <1>4, <1>5 DEF WordSize, n
<1>. QED  BY <1>6 DEF ToWord, BYTES_PER_INSTRUCTION

LEMMA InitRefines == TraceInit => Arch!Init
<1>. SUFFICES ASSUME TraceInit PROVE Arch!Init
  OBVIOUS
<1>1. PICK image \in Images : processor = InitialProcessor(image)
  BY DEF TraceInit, Init
<1>2. PC = 0
  BY <1>1 DEF PC, InitialProcessor, PC_REGISTER, Register
<1>3. archPC = 0 /\ archStatus = "running"
  BY <1>2 DEF TraceInit, Init, archPC, archStatus, DecodedWaits
<1>4. archNPC = BYTES_PER_INSTRUCTION
  <2>1. archNPC = ToWord(PC + BYTES_PER_INSTRUCTION)
    BY DEF TraceInit, Init, archNPC
  <2>. QED  BY <1>2, <2>1, WordHoldsFour DEF BYTES_PER_INSTRUCTION
<1>. QED  BY <1>1, <1>3, <1>4 DEF Arch!Init, Arch!Hide

(***************************************************************************)
(* Steps                                                                   *)
(***************************************************************************)
\* What the abstract machine sees of the processor.
Hidden(p) == [p EXCEPT !.registers[PC_REGISTER] = 0]

\* Moving register 15 cannot be seen, and what can be is the same memory.
LEMMA HiddenParts ==
  ASSUME NEW p \in ProcessorState, NEW w \in Word
  PROVE  /\ Hidden(p).memory = p.memory
         /\ Hidden(p).cpsr = p.cpsr
         /\ Hidden([p EXCEPT !.registers[PC_REGISTER] = w]) = Hidden(p)
         /\ [Hidden(p) EXCEPT !.registers[PC_REGISTER] = p.registers[PC_REGISTER]] = p
BY DEF Hidden, ProcessorState, PC_REGISTER, Register

\* Advancing PC cannot be seen.
LEMMA AdvanceIsHidden ==
  ASSUME NEW p \in ProcessorState
  PROVE  Hidden(AdvancePC(p)) = Hidden(p)
<1>1. AdvancePC(p) = [p EXCEPT !.registers[PC_REGISTER] =
                        AdvancePC(p).registers[PC_REGISTER]]
  BY DEF AdvancePC, ProcessorState, PC_REGISTER, Register
<1>2. AdvancePC(p).registers[PC_REGISTER] \in Word
  BY AdvancePCType DEF ProcessorState, PC_REGISTER, Register
<1>. QED  BY <1>1, <1>2, HiddenParts

\* Where the abstract machine is while an instruction is executed: at the
\* address decoded was read from, with what it reads as register 15 in place.
LEMMA AtExecute ==
  ASSUME RefinementInv, stage = "execute", execute_valid
  PROVE  /\ archPC = decoded_at
         /\ archNPC = fetched_at
         /\ archStatus = "running"
         /\ PC = ToWord(fetched_at + BYTES_PER_INSTRUCTION)
         /\ Arch!Visible = processor
         /\ instruction \in Arch!Current
<1>1. processor \in ProcessorState /\ decoded_valid
  BY DEF RefinementInv, TraceTypeOK, TypeOK, LatchesAreCurrent
<1>2. archPC = decoded_at /\ archNPC = fetched_at /\ archStatus = "running"
  BY <1>1 DEF archPC, archNPC, archStatus, DecodedWaits
<1>3. PC = ToWord(fetched_at + BYTES_PER_INSTRUCTION)
  BY <1>1 DEF RefinementInv, FetchedIsCurrent
<1>4. Arch!Visible = processor
  <2>1. Arch!Visible = [Hidden(processor) EXCEPT !.registers[PC_REGISTER]
                          = ToWord(archNPC + BYTES_PER_INSTRUCTION)]
    BY DEF Arch!Visible, Arch!Show, Hidden
  <2>2. PC \in Word /\ ToWord(archNPC + BYTES_PER_INSTRUCTION) = PC
    BY <1>2, <1>3, ProcessorParts DEF RefinementInv, TraceTypeOK
  <2>. QED  BY <1>1, <2>1, <2>2, HiddenParts DEF PC
<1>5. instruction \in Arch!Current
  <2>1. decoded \in Latches(processor.memory, decoded_at) /\ decoded # ZeroLatch
    BY DEF RefinementInv, LatchesAreCurrent, DecodedRuns
  <2>2. Hidden(processor).memory = processor.memory
    BY <1>1, WordIsNat, HiddenParts
  <2>. QED  BY <1>2, <2>1, <2>2 DEF Arch!Current, instruction, Hidden
<1>. QED  BY <1>2, <1>3, <1>4, <1>5

\* An instruction that is not a branch is one abstract step.
LEMMA OutcomeRefines ==
  ASSUME RefinementInv, stage = "execute", execute_valid, KeepPipeline,
         UNCHANGED <<fetched_at, decoded_at>>,
         instruction.type # "BRANCH", processor' \in Outcomes(processor, instruction)
  PROVE  Arch!Step
<1>1. archPC' = fetched_at /\ archNPC' = PC' /\ archStatus' = "running"
  BY DEF KeepPipeline, RefinementInv, LatchesAreCurrent, archPC, archNPC, archStatus,
     DecodedWaits
<1>2. Arch!Continue(instruction)
  BY <1>1, AtExecute DEF Arch!Continue, Arch!Hide, PC
<1>. QED  BY <1>1, <1>2, AtExecute DEF Arch!Step

LEMMA BranchNotTakenRefines ==
  ASSUME RefinementInv, BranchNotTaken, UNCHANGED <<fetched_at, decoded_at>>
  PROVE  Arch!Step
<1>1. stage = "execute" /\ execute_valid
  BY DEF BranchNotTaken, Executing
<1>2. /\ archPC' = fetched_at /\ archNPC' = PC /\ archStatus' = "running"
      /\ processor' = processor
  BY DEF BranchNotTaken, KeepPipeline, Executing, RefinementInv, LatchesAreCurrent,
     archPC, archNPC, archStatus, DecodedWaits, PC
<1>3. Hidden(processor).cpsr = processor.cpsr
  BY WordIsNat, HiddenParts DEF RefinementInv, TraceTypeOK, TypeOK
<1>4. Arch!Continue(instruction)
  BY <1>1, <1>2, <1>3, AtExecute
     DEF Arch!Continue, BranchNotTaken, Executing, Hidden
<1>. QED  BY <1>1, <1>2, <1>4, AtExecute DEF Arch!Step

LEMMA BranchTakenRefines ==
  ASSUME RefinementInv, BranchTaken, UNCHANGED <<fetched_at, decoded_at>>
  PROVE  Arch!Step
<1>1. /\ stage = "execute" /\ execute_valid /\ instruction.type = "BRANCH"
      /\ condition_check(instruction.cond, processor.cpsr)
      /\ processor' = Branch(processor, instruction)
  BY DEF BranchTaken, Executing
<1>2. processor \in ProcessorState /\ instruction \in Instruction /\ fetched_at \in Int
  BY ProcessorParts, WordIsNat DEF RefinementInv, TraceTypeOK, TypeOK
<1>3. instruction.offset \in Int
  BY <1>1, <1>2 DEF Instruction
<1>4. Branch(processor, instruction)
        = [processor EXCEPT !.registers[PC_REGISTER] = ToWord(PC + instruction.offset)]
  BY <1>2 DEF Branch, PC, ProcessorState, PC_REGISTER, Register
<1>5. ToWord(PC + instruction.offset) \in Word
  <2>1. PC \in Int
    BY ProcessorParts DEF RefinementInv, TraceTypeOK
  <2>2. PC + instruction.offset \in Int
    BY <1>3, <2>1
  <2>. QED  BY <2>2, ToWordType
<1>6. Hidden(processor') = Hidden(processor) /\ Hidden(processor).cpsr = processor.cpsr
  BY <1>1, <1>2, <1>4, <1>5, HiddenParts
<1>7. PC' = ToWord(archNPC + BYTES_PER_INSTRUCTION + instruction.offset)
  <2>1. PC' = ToWord(PC + instruction.offset)
    BY <1>1, <1>2, <1>4 DEF PC, ProcessorState, PC_REGISTER, Register
  <2>2. archNPC = fetched_at /\ PC = ToWord(fetched_at + BYTES_PER_INSTRUCTION)
    BY <1>1, AtExecute
  <2>3. fetched_at + BYTES_PER_INSTRUCTION \in Int
    BY <1>2 DEF BYTES_PER_INSTRUCTION
  <2>. QED  BY <1>3, <2>1, <2>2, <2>3, ToWordSum
<1>8. /\ archPC' = PC'
      /\ archNPC' = ToWord(PC' + BYTES_PER_INSTRUCTION)
      /\ archStatus' = "running"
  BY DEF BranchTaken, archPC, archNPC, archStatus, DecodedWaits
<1>9. Arch!Jump(instruction)
  BY <1>1, <1>6, <1>7, <1>8 DEF Arch!Jump, Hidden
<1>. QED  BY <1>1, <1>8, <1>9, AtExecute DEF Arch!Step

LEMMA AbortRefines ==
  ASSUME RefinementInv, Abort, UNCHANGED <<fetched_at, decoded_at>>
  PROVE  Arch!Abort
<1>1. stage = "execute" /\ execute_valid /\ MayAbort(processor, instruction)
  BY DEF Abort
<1>2. /\ stage' = "aborted" /\ execute_valid' = execute_valid /\ processor' = processor
      /\ fetched_at' = fetched_at /\ decoded_at' = decoded_at /\ decoded_valid'
  BY DEF Abort, RefinementInv, LatchesAreCurrent
<1>3. archPC' = decoded_at /\ archStatus' = "aborted"
  BY <1>2 DEF archPC, archStatus
<1>4. archNPC' = fetched_at
  BY <1>1, <1>2 DEF archNPC
<1>. QED  BY <1>1, <1>2, <1>3, <1>4, AtExecute DEF Arch!Abort

LEMMA HaltRefines ==
  ASSUME RefinementInv, Halt, RecordDecode
  PROVE  Arch!Halt
<1>1. /\ stage = "decode" /\ decoded_valid /\ fetched = ZeroLatch
      /\ processor' = AdvancePC(processor) /\ stage' = "halted"
      /\ decoded_at' = fetched_at /\ UNCHANGED <<fetched_at, decoded_valid, execute_valid>>
  BY DEF Halt, RecordDecode
<1>2. processor \in ProcessorState /\ PC \in Word /\ PC \in Int
  BY ProcessorParts DEF RefinementInv, TraceTypeOK, TypeOK
<1>3. archPC = fetched_at /\ archNPC = PC /\ archStatus = "running"
  BY <1>1 DEF archPC, archNPC, archStatus, DecodedWaits
<1>4. archPC' = fetched_at /\ archStatus' = "halted"
        /\ archNPC' = ToWord(PC' - BYTES_PER_INSTRUCTION)
  BY <1>1 DEF archPC, archNPC, archStatus
<1>5. ToWord(PC' - BYTES_PER_INSTRUCTION) = PC
  <2>1. PC' = ToWord(PC + BYTES_PER_INSTRUCTION)
    BY <1>1, <1>2, AdvancePCType DEF PC
  <2>2. /\ PC + BYTES_PER_INSTRUCTION \in Int
        /\ -BYTES_PER_INSTRUCTION \in Int
        /\ (PC + BYTES_PER_INSTRUCTION) + (-BYTES_PER_INSTRUCTION) = PC
    BY <1>2 DEF BYTES_PER_INSTRUCTION
  <2>3. ToWord(ToWord(PC + BYTES_PER_INSTRUCTION) + (-BYTES_PER_INSTRUCTION)) = ToWord(PC)
    BY <2>2, ToWordSum
  <2>4. PC' \in Int
    <3>1. ToWord(PC + BYTES_PER_INSTRUCTION) \in Word
      BY <2>2, ToWordType
    <3>. QED  BY <2>1, <3>1, WordIsNat
  <2>5. PC' - BYTES_PER_INSTRUCTION = PC' + (-BYTES_PER_INSTRUCTION)
    BY <2>4 DEF BYTES_PER_INSTRUCTION
  <2>6. ToWord(PC) = PC
    BY <1>2, Pow2Positive DEF ToWord, Word
  <2>. QED  BY <2>1, <2>3, <2>5, <2>6
<1>6. Hidden(processor') = Hidden(processor) /\ Hidden(processor).memory = processor.memory
  BY <1>1, <1>2, AdvanceIsHidden, WordIsNat, HiddenParts
<1>7. ZeroLatch \in Latches(processor.memory, fetched_at)
  BY <1>1 DEF RefinementInv, LatchesAreCurrent
<1>. QED  BY <1>3, <1>4, <1>5, <1>6, <1>7 DEF Arch!Halt, Hidden

\* The steps that only move latches cannot be seen.
LEMMA LatchesAreHidden ==
  ASSUME RefinementInv,
         \/ NothingToExecute /\ UNCHANGED <<fetched_at, decoded_at>>
         \/ NothingToDecode /\ UNCHANGED aux
         \/ DecodeInstruction /\ RecordDecode
         \/ Fetch /\ RecordFetch
         \/ UNCHANGED traceVars
  PROVE  UNCHANGED Arch!archVars
<1>1. ASSUME processor' = processor, UNCHANGED <<archPC, archNPC, archStatus>>
      PROVE  UNCHANGED Arch!archVars
  BY <1>1 DEF Arch!archVars
<1>2. CASE NothingToExecute /\ UNCHANGED <<fetched_at, decoded_at>>
  BY <1>1, <1>2 DEF NothingToExecute, KeepPipeline, archPC, archNPC, archStatus, DecodedWaits, PC
<1>3. CASE NothingToDecode /\ UNCHANGED aux
  BY <1>1, <1>3 DEF NothingToDecode, aux, archPC, archNPC, archStatus, DecodedWaits, PC
<1>4. CASE DecodeInstruction /\ RecordDecode
  BY <1>1, <1>4 DEF DecodeInstruction, RecordDecode, archPC, archNPC, archStatus, DecodedWaits, PC
<1>5. CASE Fetch /\ RecordFetch
  <2>1. /\ stage = "fetch" /\ stage' = "execute" /\ decoded_valid' = TRUE
        /\ processor' = AdvancePC(processor) /\ fetched_at' = PC
        /\ UNCHANGED <<decoded_at, execute_valid>>
    BY <1>5 DEF Fetch, RecordFetch
  <2>2. PC' = ToWord(PC + BYTES_PER_INSTRUCTION) /\ Hidden(processor') = Hidden(processor)
    BY <2>1, AdvancePCType, AdvanceIsHidden DEF RefinementInv, TraceTypeOK, TypeOK, PC
  <2>3. decoded_valid <=> execute_valid
    BY <2>1 DEF RefinementInv, DecodedRuns, LatchesAreCurrent
  <2>4. UNCHANGED <<archPC, archNPC, archStatus>>
    BY <2>1, <2>2, <2>3 DEF archPC, archNPC, archStatus, DecodedWaits
  <2>. QED  BY <2>2, <2>4 DEF Arch!archVars, Hidden
<1>6. CASE UNCHANGED traceVars
  BY <1>1, <1>6 DEF traceVars, vars, aux, archPC, archNPC, archStatus, DecodedWaits, PC
<1>. QED  BY <1>2, <1>3, <1>4, <1>5, <1>6

LEMMA NextRefines == RefinementInv /\ [TraceNext]_traceVars => [Arch!Next]_Arch!archVars
<1>. SUFFICES ASSUME RefinementInv, [TraceNext]_traceVars
              PROVE  [Arch!Next]_Arch!archVars
  OBVIOUS
<1>. USE DEF Arch!Next
<1>1. CASE ExecuteDataProcessing /\ RecordDataProcessing
  BY <1>1, OutcomeRefines DEF ExecuteDataProcessing, Executing, RecordDataProcessing,
     RecordExecute, Outcomes
<1>2. CASE ExecuteMultiply /\ RecordMultiply
  BY <1>2, OutcomeRefines DEF ExecuteMultiply, Executing, RecordMultiply, RecordExecute,
     Outcomes
<1>3. CASE ExecuteTransfer /\ RecordOther
  BY <1>3, OutcomeRefines DEF ExecuteTransfer, Executing, RecordOther, RecordExecute, Outcomes
<1>4. CASE ExecutePrint /\ RecordOther
  BY <1>4, OutcomeRefines DEF ExecutePrint, Executing, RecordOther, RecordExecute, Outcomes
<1>5. CASE ExecuteInput /\ RecordInput
  BY <1>5, OutcomeRefines DEF ExecuteInput, Executing, RecordInput, RecordExecute, Outcomes
<1>6. CASE Abort /\ RecordOther
  BY <1>6, AbortRefines DEF RecordOther, RecordExecute
<1>7. CASE BranchNotTaken /\ RecordOther
  BY <1>7, BranchNotTakenRefines DEF RecordOther, RecordExecute
<1>8. CASE BranchTaken /\ RecordOther
  BY <1>8, BranchTakenRefines DEF RecordOther, RecordExecute
<1>9. CASE Halt /\ RecordDecode
  BY <1>9, HaltRefines
<1>10. CASE NothingToExecute /\ RecordOther
  BY <1>10, LatchesAreHidden DEF RecordOther, RecordExecute
<1>11. CASE \/ NothingToDecode /\ UNCHANGED aux
            \/ DecodeInstruction /\ RecordDecode
            \/ Fetch /\ RecordFetch
            \/ UNCHANGED traceVars
  BY <1>11, LatchesAreHidden
<1>. QED
  BY <1>1, <1>2, <1>3, <1>4, <1>5, <1>6, <1>7, <1>8, <1>9, <1>10, <1>11 DEF TraceNext

\* Every run of a program that never stores into its next instruction is a run
\* of the delay-slot machine: no instruction is lost, repeated or executed in
\* the shadow of a taken branch, and a write to register 15 acts one late.
THEOREM PipelineRefines == NoStaleStoreSpec => RefinesDelaySlotMachine
<1>1. [TraceNext /\ ~StaleStore]_traceVars => [TraceNext]_traceVars
  OBVIOUS
<1>2. RefinementInv /\ [TraceNext /\ ~StaleStore]_traceVars
        => [Arch!Next]_Arch!archVars
  BY <1>1, NextRefines
<1>. QED
  BY <1>2, RefinementInvariant, InitRefines, PTL
     DEF NoStaleStoreSpec, RefinesDelaySlotMachine, Arch!Spec
=============================================================================
