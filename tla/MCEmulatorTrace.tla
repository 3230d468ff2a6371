---------------------------- MODULE MCEmulatorTrace ----------------------------
(***************************************************************************)
(* The same small processor, with the auxiliary variables.                 *)
(***************************************************************************)
EXTENDS EmulatorTrace, MCEmulator

\* The auxiliary variables take no part in any guard.
FairNoStaleStoreSpec == NoStaleStoreSpec /\ WF_vars(Next)

\* The first four words of memory, when they are those of an image that ends.
Code == [i \in 1 .. 4 |-> LoadWord(processor.memory, BYTES_PER_INSTRUCTION * (i - 1))]
EndingCodes ==
  {[i \in 1 .. 4 |-> IF i \in DOMAIN image THEN image[i] ELSE 0] : image \in MCEndingImages}

\* A program whose only backward branch counts down comes to its halting word:
\* nothing in emulator_loop keeps it from decoding, executing or fetching the
\* next instruction, around flushes and the countdown's delay slots.
EndingProgramsEnd == Code \in EndingCodes => Terminates
==============================================================================
