--------------------------- MODULE DelaySlotMachine ---------------------------
(***************************************************************************)
(* What the emulator's pipeline amounts to for the program it runs: a      *)
(* machine with no latches, that executes the word at pc and moves to npc. *)
(* A branch goes to its target at once; any other write to register 15     *)
(* changes npc, so it takes effect one instruction late.  An instruction   *)
(* reads register 15 as npc + 4.  Between instructions the register holds  *)
(* nothing, and is kept at zero.                                           *)
(*                                                                         *)
(* What the instructions do is a parameter: see Processor.                 *)
(***************************************************************************)
EXTENDS Integers

CONSTANTS
  Images, InitialProcessor(_),        \* the programs, and one loaded
  PC_REGISTER, BYTES_PER_INSTRUCTION, ToWord(_),
  Latches(_, _), ZeroLatch,           \* the bytes at an address; those that halt
  LatchWord(_), Decode,               \* the word bytes make, and its instruction
  condition_check(_, _), Outcomes(_, _), MayAbort(_, _)

VARIABLES processor, pc, npc, status

archVars == <<processor, pc, npc, status>>

Hide(p) == [p EXCEPT !.registers[PC_REGISTER] = 0]
Show(p, n) ==
  [p EXCEPT !.registers[PC_REGISTER] = ToWord(n + BYTES_PER_INSTRUCTION)]

Init ==
  /\ \E image \in Images : processor = Hide(InitialProcessor(image))
  /\ pc = 0
  /\ npc = BYTES_PER_INSTRUCTION
  /\ status = "running"

Visible == Show(processor, npc)

\* The instructions the word at pc may be.
Current == {Decode[LatchWord(l)] : l \in Latches(processor.memory, pc) \ {ZeroLatch}}

Continue(i) ==
  /\ \/ /\ i.type # "BRANCH"
        /\ \E q \in Outcomes(Visible, i) :
             /\ processor' = Hide(q)
             /\ npc' = q.registers[PC_REGISTER]
     \/ /\ i.type = "BRANCH"
        /\ ~condition_check(i.cond, processor.cpsr)
        /\ UNCHANGED processor
        /\ npc' = ToWord(npc + BYTES_PER_INSTRUCTION)
  /\ pc' = npc

Jump(i) ==
  /\ i.type = "BRANCH"
  /\ condition_check(i.cond, processor.cpsr)
  /\ UNCHANGED processor
  /\ pc' = ToWord(npc + BYTES_PER_INSTRUCTION + i.offset)
  /\ npc' = ToWord(pc' + BYTES_PER_INSTRUCTION)

Step ==
  /\ status = "running"
  /\ \E i \in Current : Continue(i) \/ Jump(i)
  /\ UNCHANGED status

Abort ==
  /\ status = "running"
  /\ \E i \in Current : MayAbort(Visible, i)
  /\ status' = "aborted"
  /\ UNCHANGED <<processor, pc, npc>>

Halt ==
  /\ status = "running"
  /\ ZeroLatch \in Latches(processor.memory, pc)
  /\ status' = "halted"
  /\ UNCHANGED <<processor, pc, npc>>

Next == Step \/ Abort \/ Halt

Spec == Init /\ [][Next]_archVars
==============================================================================
