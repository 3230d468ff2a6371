----------------------------- MODULE EmulatorTrace -----------------------------
(***************************************************************************)
(* The emulator with auxiliary variables that record what the code does    *)
(* not: the addresses the two latches were read from, and the last result  *)
(* that set the flags.  They take no part in any guard.                    *)
(***************************************************************************)
EXTENDS Emulator

CONSTANT NoResult    \* no instruction has set the flags yet

ASSUME NoResultAssumption == NoResult \notin Word

VARIABLES
  fetched_at,    \* where fetched was read
  decoded_at,    \* where decoded was read
  last_result,   \* the last result whose instruction set the flags
  sequential,    \* only branches have written register 15 so far
  stored         \* the bytes of memory the last instruction executed changed

aux == <<fetched_at, decoded_at, last_result, sequential, stored>>
traceVars == <<vars, aux>>

TraceTypeOK ==
  /\ TypeOK
  /\ fetched_at \in Word
  /\ decoded_at \in Word
  /\ last_result \in Word \cup {NoResult}
  /\ sequential \in BOOLEAN
  /\ stored \in SUBSET Address

TraceInit ==
  /\ Init
  /\ fetched_at = 0
  /\ decoded_at = 0
  /\ last_result = NoResult
  /\ sequential = TRUE
  /\ stored = {}

(***************************************************************************)
(* What each step records                                                  *)
(***************************************************************************)
\* The step writes register 15 otherwise than by a branch.
WritesPC ==
  /\ execute_valid
  /\ instruction.type # "BRANCH"
  /\ processor'.registers[PC_REGISTER] # PC

RecordExecute ==
  /\ sequential' = (sequential /\ ~WritesPC)
  /\ stored' = {b \in Address : processor'.memory[b] # processor.memory[b]}
  /\ UNCHANGED <<fetched_at, decoded_at>>

\* The result of the data processing instruction that led to processor'.
ResultOf(i) ==
  CHOOSE w \in Word :
    \E op2 \in Operands(processor, i.op2) :
      /\ w \in AluResults(i.opcode, processor.registers[i.rn], op2.value)
      /\ processor' = AfterDataProcessing(processor, i, op2, w)

RecordDataProcessing ==
  /\ last_result' = IF instruction.s THEN ResultOf(instruction) ELSE last_result
  /\ RecordExecute

RecordMultiply ==
  /\ last_result' = IF instruction.s THEN processor'.registers[instruction.rd]
                                     ELSE last_result
  /\ RecordExecute

\* A number typed into CPSR takes the place of the flags of the last result.
TypesFlags ==
  ~instruction.is_string /\ instruction.reg /\ instruction.start_address = CPSR_REGISTER

RecordInput ==
  /\ last_result' = IF TypesFlags THEN NoResult ELSE last_result
  /\ RecordExecute

RecordOther == RecordExecute /\ UNCHANGED last_result

RecordDecode ==
  /\ decoded_at' = fetched_at
  /\ UNCHANGED <<fetched_at, last_result, sequential, stored>>

RecordFetch ==
  /\ fetched_at' = PC
  /\ UNCHANGED <<decoded_at, last_result, sequential, stored>>

(***************************************************************************)
(* The specification                                                       *)
(***************************************************************************)
TraceNext ==
  \/ NothingToExecute      /\ RecordOther
  \/ ExecuteDataProcessing /\ RecordDataProcessing
  \/ ExecuteMultiply       /\ RecordMultiply
  \/ ExecuteTransfer       /\ RecordOther
  \/ ExecutePrint          /\ RecordOther
  \/ ExecuteInput          /\ RecordInput
  \/ Abort                 /\ RecordOther
  \/ BranchNotTaken        /\ RecordOther
  \/ BranchTaken           /\ RecordOther
  \/ NothingToDecode       /\ UNCHANGED aux
  \/ DecodeInstruction     /\ RecordDecode
  \/ Halt                  /\ RecordDecode
  \/ Fetch                 /\ RecordFetch

TraceSpec == TraceInit /\ [][TraceNext]_traceVars

\* A store into the word that waits in fetched surprises the pipeline: the
\* specification of the programs without one.
StaleStore ==
  /\ stage = "execute"
  /\ stage' = "decode"
  /\ decoded_valid'
  /\ fetched \notin Latches(processor'.memory, fetched_at)

NoStaleStoreSpec == TraceInit /\ [][TraceNext /\ ~StaleStore]_traceVars

(***************************************************************************)
(* Properties                                                              *)
(***************************************************************************)
\* A program that patches its own code: a store reaches every instruction but
\* the one executed next.  An instruction that differs from what memory holds at
\* its address was changed by the instruction executed just before it, around
\* every branch, input and write to register 15.
OnlyNextIsStale ==
  stage = "execute" /\ execute_valid =>
    \/ decoded \in Latches(processor.memory, decoded_at)
    \/ \E k \in 0 .. 3 : decoded_at + k \in stored

\* While no instruction stores into the next one, the pipeline never decodes
\* or executes bytes that differ from what memory holds at their address.
NothingStale ==
  /\ stage = "decode" /\ decoded_valid =>
       fetched \in Latches(processor.memory, fetched_at)
  /\ stage \in {"fetch", "execute"} /\ execute_valid =>
       decoded \in Latches(processor.memory, decoded_at)

\* As long as only branches write register 15, an instruction reads it as its
\* own address plus 8, around every flush: what the assembler's offsets count
\* on.  Then the word in fetched is the one after it, too.
ReadsPCPlus8 ==
  sequential /\ stage = "execute" /\ execute_valid =>
    /\ PC = ToWord(decoded_at + 2 * BYTES_PER_INSTRUCTION)
    /\ PC = ToWord(fetched_at + BYTES_PER_INSTRUCTION)

\* The program then ends with PC at the halting word's address plus 8, flushed
\* or not.
HaltsAtPlus8 ==
  sequential /\ stage = "halted" =>
    PC = ToWord(decoded_at + 2 * BYTES_PER_INSTRUCTION)

\* Z tells whether the last result that set the flags was zero, across every
\* instruction executed since, flushes and delay slots included; only a number
\* typed into CPSR comes between.
ZeroFlagIsLast ==
  last_result # NoResult => (processor.cpsr.z <=> last_result = 0)

\* The same for N and the sign.  set_n only ever sets the flag, so a negative
\* result followed by another one leaves N behind.
NegativeFlagIsLast ==
  last_result # NoResult => (processor.cpsr.n <=> Negative(last_result))

(***************************************************************************)
(* The pipeline implements the machine without latches.  pc is where the   *)
(* next instruction to execute lies, npc where the one after it does.      *)
(***************************************************************************)
DecodedWaits == execute_valid /\ stage \in {"fetch", "execute"}

archPC ==
  IF stage \in {"halted", "aborted"} \/ (decoded_valid /\ DecodedWaits)
    THEN decoded_at
  ELSE IF decoded_valid THEN fetched_at
  ELSE PC

archNPC ==
  CASE stage = "halted" -> ToWord(PC - BYTES_PER_INSTRUCTION)
    [] stage \in {"execute", "aborted"} /\ execute_valid -> fetched_at
    [] ~decoded_valid -> ToWord(PC + BYTES_PER_INSTRUCTION)
    [] OTHER -> PC

archStatus ==
  IF stage \in {"halted", "aborted"} THEN stage ELSE "running"

Arch == INSTANCE DelaySlotMachine WITH
  processor <- [processor EXCEPT !.registers[PC_REGISTER] = 0],
  pc <- archPC, npc <- archNPC, status <- archStatus

\* Every run of a program that never stores into its next instruction is a run
\* of the delay-slot machine: no instruction is lost, repeated or executed in
\* the shadow of a taken branch, and a write to register 15 acts one late.
RefinesDelaySlotMachine == Arch!Spec
==============================================================================
