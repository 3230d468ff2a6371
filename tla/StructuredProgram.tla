--------------------------- MODULE StructuredProgram ---------------------------
(***************************************************************************)
(* A BASIC program as its author reads it: loops that test their condition *)
(* and go back to their first line, jumps to a label, and lines that are   *)
(* run for what they do.  A program runs from one such point to the next.  *)
(*                                                                         *)
(* Two loops of one kind at the same nesting depth are rivals: a jump that *)
(* belongs to one may go to the other.  In a program without rivals every  *)
(* loop is its own.                                                        *)
(***************************************************************************)
EXTENDS Integers, Sequences, FiniteSetsExt

CONSTANT Accepts(_)     \* the programs the compiler has to accept

VARIABLES
  program,     \* the lines up to END, which never change
  status,      \* "compiling", "running", "ended" or "rejected"
  at           \* the point the program is about to run, <<0, "effect">> before

programVars == <<program, status, at>>

Lines == 1 .. Len(program)
OfKind(kinds) == {i \in Lines : program[i].kind \in kinds}
Before(i, kinds) == Cardinality({j \in OfKind(kinds) : j < i})

Heads == {"while", "for"}
Feet == {"wend", "next"}
LoopDepth(i) == Before(i, Heads) - Before(i, Feet)
DoDepth(i) == Before(i, {"do"}) - Before(i, {"loop"})

Rivals(i) == {j \in OfKind(Heads) : LoopDepth(j) = LoopDepth(i)}
FeetOf(i) == {e \in OfKind(Feet) : e > i /\ LoopDepth(e) = LoopDepth(i) + 1}
Foot(i) == Min(FeetOf(i))
Head_(e) == Max({j \in OfKind(Heads) : j < e /\ LoopDepth(j) = LoopDepth(e) - 1})

\* Where a jump to a loop's test, its first line, a DO or a label may lead.
Tests(i) == {<<j, "test">> : j \in {k \in Rivals(i) : FeetOf(k) # {}}}

Points(i) ==
  LET line == Min({j \in Lines : j >= i /\ program[j].kind \notin {"do", "label"}})
  IN  CASE program[line].kind \in {"loop", "if", "on"} -> {<<line, "test">>}
        [] program[line].kind = "while" -> Tests(line)
        [] program[line].kind = "wend"  -> {<<Head_(line), "test">>}
        [] OTHER -> {<<line, "effect">>}

FirstLines(loops) == UNION {Points(j + 1) : j \in loops}

WhenTrue(i) ==
  CASE program[i].kind \in Heads  -> FirstLines(Rivals(i))
    [] program[i].kind = "loop"   ->
         FirstLines({j \in OfKind({"do"}) : DoDepth(j) = DoDepth(i) - 1})
    [] OTHER -> FirstLines(OfKind({"label"}))

WhenFalse(i) ==
  IF program[i].kind \in Heads THEN Points(Foot(i) + 1) ELSE Points(i + 1)

Following(i) ==
  CASE program[i].kind = "for"  -> Tests(i)
    [] program[i].kind = "next" -> {<<Head_(i), "test">>}
    [] OTHER -> Points(i + 1)

Init ==
  /\ status = "compiling"
  /\ at = <<0, "effect">>

Start ==
  /\ status = "compiling"
  /\ status' = "running"
  /\ at' \in Points(1)
  /\ UNCHANGED program

Reject ==
  /\ status = "compiling"
  /\ ~Accepts(program)
  /\ status' = "rejected"
  /\ UNCHANGED <<program, at>>

Test ==
  /\ status = "running"
  /\ at[2] = "test"
  /\ at' \in WhenTrue(at[1]) \cup WhenFalse(at[1])
  /\ UNCHANGED <<program, status>>

Effect ==
  /\ status = "running"
  /\ at[2] = "effect"
  /\ program[at[1]].kind # "end"
  /\ at' \in Following(at[1])
  /\ UNCHANGED <<program, status>>

End ==
  /\ status = "running"
  /\ at[2] = "effect"
  /\ program[at[1]].kind = "end"
  /\ status' = "ended"
  /\ UNCHANGED <<program, at>>

Next == Start \/ Reject \/ Test \/ Effect \/ End

Spec == Init /\ [][Next]_programVars
==============================================================================
