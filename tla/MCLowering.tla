------------------------------ MODULE MCLowering ------------------------------
(***************************************************************************)
(* Every short program over every kind of line, and longer ones over those *)
(* that matter to nesting.                                                 *)
(***************************************************************************)
EXTENDS Lowering

CONSTANTS
  Kinds, Length,            \* every program of so many lines of these kinds
  LoopKinds, LoopLength     \* and of these, followed by END

BasicLine(kind) ==
  CASE kind = "nextY" -> [kind |-> "next", variable |-> "Y"]
    [] kind \in ForKinds \cup {"next"} -> [kind |-> kind, variable |-> "X"]
    [] OTHER -> [kind |-> kind, variable |-> ""]

ProgramsOf(kinds, length) ==
  {[i \in 1 .. length |-> BasicLine(f[i])] : f \in [1 .. length -> kinds]}

MCPrograms ==
  ProgramsOf(Kinds, Length)
    \cup {p \o <<BasicLine("text"), BasicLine("end")>> : p \in ProgramsOf(LoopKinds, LoopLength)}
==============================================================================
