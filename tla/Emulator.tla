------------------------------- MODULE Emulator -------------------------------
(***************************************************************************)
(* emulator_loop (emulate.c): a three-stage pipeline run as a loop that    *)
(* executes the decoded latch, decodes the fetched latch and fetches.  The *)
(* loop body is split at its three comments; `stage' says which part runs  *)
(* next.  Two booleans say which latches hold an instruction.              *)
(*                                                                         *)
(* The run ends "halted" when the zero word reaches decode, and "aborted"  *)
(* when an assertion fails or an access lies outside memory.               *)
(***************************************************************************)
EXTENDS Processor

CONSTANT Images      \* the object files, as sequences of words

\* What the assembler writes, words, and no more of them than memory holds.
ASSUME ImagesAssumption ==
  \A image \in Images : image \in Seq(Word) /\ BYTES_PER_INSTRUCTION * Len(image) <= MemSize

VARIABLES
  processor,         \* struct Processor
  fetched, decoded,  \* the two latches, four bytes each
  decoded_valid,     \* fetched holds an instruction to decode
  execute_valid,     \* decoded holds an instruction to execute
  stage              \* control state of the loop

vars == <<processor, fetched, decoded, decoded_valid, execute_valid, stage>>

Stage == {"execute", "decode", "fetch", "halted", "aborted"}

TypeOK ==
  /\ processor \in ProcessorState
  /\ fetched \in Latch
  /\ decoded \in Latch
  /\ decoded_valid \in BOOLEAN
  /\ execute_valid \in BOOLEAN
  /\ stage \in Stage

PC == processor.registers[PC_REGISTER]

\* uint8_t latches start uninitialised, but the flags keep them unread.
Init ==
  /\ \E image \in Images : processor = InitialProcessor(image)
  /\ fetched = ZeroLatch
  /\ decoded = ZeroLatch
  /\ decoded_valid = FALSE
  /\ execute_valid = FALSE
  /\ stage = "execute"

(***************************************************************************)
(* Execute                                                                 *)
(***************************************************************************)
instruction == Decode[LatchWord(decoded)]

Executing(type) ==
  /\ stage = "execute"
  /\ execute_valid
  /\ instruction.type = type

\* process_instructions returns false: leave the pipeline intact.
KeepPipeline ==
  /\ stage' = "decode"
  /\ UNCHANGED <<fetched, decoded, decoded_valid, execute_valid>>

NothingToExecute ==
  /\ stage = "execute"
  /\ ~execute_valid
  /\ KeepPipeline
  /\ UNCHANGED processor

ExecuteDataProcessing ==
  /\ Executing("DATA_PROCESS")
  /\ processor' \in DataProcessing(processor, instruction)
  /\ KeepPipeline

ExecuteMultiply ==
  /\ Executing("MULTIPLY")
  /\ processor' = Multiply(processor, instruction)
  /\ KeepPipeline

ExecuteTransfer ==
  /\ Executing("TRANSFER")
  /\ processor' \in Transfer(processor, instruction)
  /\ KeepPipeline

ExecutePrint ==
  /\ Executing("PRINT")
  /\ UNCHANGED processor
  /\ KeepPipeline

ExecuteInput ==
  /\ Executing("INPUT")
  /\ processor' \in Input(processor, instruction)
  /\ KeepPipeline

Abort ==
  /\ stage = "execute"
  /\ execute_valid
  /\ MayAbort(processor, instruction)
  /\ stage' = "aborted"
  /\ UNCHANGED <<processor, fetched, decoded, decoded_valid, execute_valid>>

BranchNotTaken ==
  /\ Executing("BRANCH")
  /\ ~condition_check(instruction.cond, processor.cpsr)
  /\ UNCHANGED processor
  /\ KeepPipeline

\* A mistake the checks must notice: the flush forgets decoded.
BranchKeepsDecoded ==
  /\ Executing("BRANCH")
  /\ condition_check(instruction.cond, processor.cpsr)
  /\ processor' = Branch(processor, instruction)
  /\ fetched' = ZeroLatch
  /\ decoded_valid' = FALSE
  /\ stage' = "decode"
  /\ UNCHANGED <<decoded, execute_valid>>

\* process_instructions returns true: clear both latches.
BranchTaken ==
  /\ Executing("BRANCH")
  /\ condition_check(instruction.cond, processor.cpsr)
  /\ processor' = Branch(processor, instruction)
  /\ decoded' = ZeroLatch
  /\ fetched' = ZeroLatch
  /\ decoded_valid' = FALSE
  /\ execute_valid' = FALSE
  /\ stage' = "decode"

(***************************************************************************)
(* Decode and fetch                                                        *)
(***************************************************************************)
\* A mistake the checks must notice: register 15 outgrows a word.
AdvancePCUnwrapped(p) == [p EXCEPT !.registers[PC_REGISTER] = @ + BYTES_PER_INSTRUCTION]

AdvancePC(p) == [p EXCEPT !.registers[PC_REGISTER] =
                   ToWord(@ + BYTES_PER_INSTRUCTION)]

NothingToDecode ==
  /\ stage = "decode"
  /\ ~decoded_valid
  /\ stage' = "fetch"
  /\ UNCHANGED <<processor, fetched, decoded, decoded_valid, execute_valid>>

\* A mistake the checks must notice: an old instruction is never replaced.
DecodeOnce ==
  /\ stage = "decode"
  /\ decoded_valid
  /\ fetched # ZeroLatch
  /\ decoded' = IF execute_valid THEN decoded ELSE fetched
  /\ execute_valid' = TRUE
  /\ stage' = "fetch"
  /\ UNCHANGED <<processor, fetched, decoded_valid>>

DecodeInstruction ==
  /\ stage = "decode"
  /\ decoded_valid
  /\ fetched # ZeroLatch
  /\ decoded' = fetched
  /\ execute_valid' = TRUE
  /\ stage' = "fetch"
  /\ UNCHANGED <<processor, fetched, decoded_valid>>

\* A mistake the checks must notice: halting before PC moves on.
HaltInPlace ==
  /\ stage = "decode"
  /\ decoded_valid
  /\ fetched = ZeroLatch
  /\ decoded' = fetched
  /\ stage' = "halted"
  /\ UNCHANGED <<processor, fetched, decoded_valid, execute_valid>>

Halt ==
  /\ stage = "decode"
  /\ decoded_valid
  /\ fetched = ZeroLatch
  /\ decoded' = fetched
  /\ processor' = AdvancePC(processor)
  /\ stage' = "halted"
  /\ UNCHANGED <<fetched, decoded_valid, execute_valid>>

Fetch ==
  /\ stage = "fetch"
  /\ fetched' \in Latches(processor.memory, PC)
  /\ decoded_valid' = TRUE
  /\ processor' = AdvancePC(processor)
  /\ stage' = "execute"
  /\ UNCHANGED <<decoded, execute_valid>>

Next ==
  \/ NothingToExecute
  \/ ExecuteDataProcessing
  \/ ExecuteMultiply
  \/ ExecuteTransfer
  \/ ExecutePrint
  \/ ExecuteInput
  \/ Abort
  \/ BranchNotTaken
  \/ BranchTaken
  \/ NothingToDecode
  \/ DecodeInstruction
  \/ Halt
  \/ Fetch

Spec == Init /\ [][Next]_vars

\* One thread runs the loop and nothing in it waits (input ends or arrives).
FairSpec == Spec /\ WF_vars(Next)

\* A program without endless loops comes to its halting word: nothing in the
\* loop keeps it from decoding, executing or fetching the next instruction.
Terminates == <>(stage \in {"halted", "aborted"})
==============================================================================
