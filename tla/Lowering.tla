------------------------------- MODULE Lowering -------------------------------
(***************************************************************************)
(* The passes of the compiler's main that turn a BASIC program's loops     *)
(* into labels, IF and GOTO: FOR into WHILE, ON into IF, DO and then WHILE *)
(* into jumps; and the lowered program as it runs, with the assembler      *)
(* taking each label for its last definition.                              *)
(*                                                                         *)
(* Texts are left out: a line keeps its kind, and src, the line it comes   *)
(* from, whose condition it tests or whose effect it has.                  *)
(***************************************************************************)
EXTENDS Integers, Sequences, FiniteSets

CONSTANTS
  Programs,      \* the BASIC files, as sequences of lines
  StackRoom      \* pointers cond_stack and var_stack have room for: 100 bytes

ASSUME StackAssumption == StackRoom \in Nat

\* A long condition has ten or more characters, that of a FOR (VAR<=TERM)
\* included; a wide FOR's assignment (VAR=VALUE) has 25 or more.
SourceKind == {"do", "loop", "while", "longwhile", "wend",
               "for", "longfor", "widefor", "badfor", "next",
               "on", "mentionsON", "if", "label", "text", "end"}
ForKinds == {"for", "longfor", "widefor", "badfor"}
SourceLine == [kind : SourceKind, variable : STRING]

ASSUME ProgramsAssumption == \A p \in Programs : p \in Seq(SourceLine)

VARIABLES
  source,                 \* the BASIC file
  basic_file,             \* the program, as lowered so far
  new_basic_file,         \* what the pass has written
  cursor,                 \* the lines the pass has read
  phase,                  \* the part of main that runs
  stack,                  \* var_stack, then cond_stack
  diff,                   \* replace_do_loop_with_if's
  start_val,              \* num_generated_labels when the pass started
  num_generated_labels,
  pc                      \* the line that runs next

passVars == <<new_basic_file, cursor, stack, diff, start_val, num_generated_labels>>
vars == <<source, basic_file, phase, pc, passVars>>

Phase == {"read", "for", "on", "do", "while", "labels", "run",
          "done", "failed", "undefined"}

\* A generated label by its number; every other one is the programmer's.
User == [generated |-> FALSE, n |-> 0]
L(n) == [generated |-> TRUE, n |-> n]
LabelName == [generated : BOOLEAN, n : Int]

Line(kind, src, name) == [kind |-> kind, src |-> src, name |-> name]
LoweredLine == [kind : SourceKind \cup {"let", "goto", "spoilt"},
                src : Nat, name : LabelName]

TypeOK ==
  /\ source \in Seq(SourceLine)
  /\ basic_file \in Seq(LoweredLine)
  /\ new_basic_file \in Seq(LoweredLine)
  /\ cursor \in Nat
  /\ phase \in Phase
  /\ stack \in Seq(Nat)
  /\ diff \in Int
  /\ start_val \in Nat
  /\ num_generated_labels \in Nat
  /\ pc \in Nat

Init ==
  /\ source \in Programs
  /\ basic_file = <<>>
  /\ new_basic_file = <<>>
  /\ cursor = 0
  /\ phase = "read"
  /\ stack = <<>>
  /\ diff = 0
  /\ start_val = 0
  /\ num_generated_labels = 0
  /\ pc = 0

(***************************************************************************)
(* read_file: the lines up to END; a file without one is read for ever,    *)
(* beyond the array of lines.                                              *)
(***************************************************************************)
EndsAt(i) == source[i].kind = "end" /\ \A j \in 1 .. i - 1 : source[j].kind # "end"

ReadFile ==
  /\ phase = "read"
  /\ \E i \in 1 .. Len(source) :
       /\ EndsAt(i)
       /\ basic_file' = [j \in 1 .. i |-> Line(source[j].kind, j, User)]
  /\ phase' = "for"
  /\ UNCHANGED <<source, pc, passVars>>

ReadBeyondFile ==
  /\ phase = "read"
  /\ \A i \in 1 .. Len(source) : source[i].kind # "end"
  /\ phase' = "undefined"
  /\ UNCHANGED <<source, basic_file, pc, passVars>>

line == basic_file[cursor + 1]
MoreLines == cursor < Len(basic_file)
Reading(pass, kinds) == phase = pass /\ MoreLines /\ line.kind \in kinds

Emit(lines) == new_basic_file' = new_basic_file \o lines /\ cursor' = cursor + 1
Push == stack' = Append(stack, line.src)
Top == stack[Len(stack)]
Pop == stack' = SubSeq(stack, 1, Len(stack) - 1)

Stop(end) ==
  /\ phase' = end
  /\ UNCHANGED <<source, basic_file, pc, passVars>>

\* The end of a pass that has written a new file.
EnterPass(pass) ==
  /\ phase' = pass
  /\ basic_file' = new_basic_file
  /\ new_basic_file' = <<>>
  /\ cursor' = 0
  /\ stack' = <<>>

(***************************************************************************)
(* replace_for_with_while                                                  *)
(***************************************************************************)
ForHasRoom == Len(stack) < StackRoom

LowerFor ==
  /\ Reading("for", {"for", "longfor"})
  /\ ForHasRoom
  /\ Push
  /\ Emit(<<Line("let", line.src, User),
            Line(IF line.kind = "for" THEN "while" ELSE "longwhile", line.src, User)>>)
  /\ UNCHANGED <<source, basic_file, phase, pc, diff, start_val, num_generated_labels>>

\* A FOR without TO, or whose bound is not a number.
RejectFor ==
  /\ Reading("for", {"badfor"})
  /\ ForHasRoom
  /\ Stop("failed")

NextMatches == stack # <<>> /\ source[Top].variable = source[line.src].variable

LowerNext ==
  /\ Reading("for", {"next"})
  /\ NextMatches
  /\ Pop
  /\ Emit(<<Line("let", line.src, User), Line("wend", line.src, User)>>)
  /\ UNCHANGED <<source, basic_file, phase, pc, diff, start_val, num_generated_labels>>

RejectNext ==
  /\ Reading("for", {"next"})
  /\ stack # <<>>
  /\ ~NextMatches
  /\ Stop("failed")

\* Outside an array: one loop too many is open, or none is, or the assignment
\* does not fit the 25 characters there is room for.
LeaveVarStack ==
  /\ \/ Reading("for", ForKinds) /\ ~ForHasRoom
     \/ Reading("for", {"next"}) /\ stack = <<>>
     \/ Reading("for", {"widefor"})
  /\ Stop("undefined")

KeepInForPass ==
  /\ Reading("for", SourceKind \ (ForKinds \cup {"next"}))
  /\ Emit(<<line>>)
  /\ UNCHANGED <<source, basic_file, phase, pc, stack, diff, start_val,
                 num_generated_labels>>

FinishForPass ==
  /\ phase = "for"
  /\ ~MoreLines
  /\ EnterPass("on")
  /\ UNCHANGED <<source, pc, diff, start_val, num_generated_labels>>

(***************************************************************************)
(* replace_on_with_if: "ON" becomes "IF" wherever in a line it stands.     *)
(***************************************************************************)
OnBecomes(kind) ==
  CASE kind = "on" -> "if" [] kind = "mentionsON" -> "spoilt" [] OTHER -> kind

ReplaceOn ==
  /\ phase = "on"
  /\ basic_file' = [i \in DOMAIN basic_file |->
                      [basic_file[i] EXCEPT !.kind = OnBecomes(@)]]
  /\ phase' = "do"
  /\ UNCHANGED <<source, pc, passVars>>

(***************************************************************************)
(* replace_do_loop_with_if, in place: labels go by nesting depth.          *)
(***************************************************************************)
\* Mistakes the checks must notice: the labels are forgotten when a loop ends,
\* and the DO labels are given out again.
RaiseAlways(n) == num_generated_labels' = n
RaiseNothing(n) == UNCHANGED num_generated_labels

Raise(n) == num_generated_labels' = IF n > num_generated_labels
                                      THEN n ELSE num_generated_labels

Replace(new_line) ==
  /\ basic_file' = [basic_file EXCEPT ![cursor + 1] = new_line]
  /\ cursor' = cursor + 1

LowerDo ==
  /\ Reading("do", {"do"})
  /\ Replace(Line("label", line.src, L(start_val + diff)))
  /\ diff' = diff + 1
  /\ Raise(start_val + diff')
  /\ UNCHANGED <<source, phase, pc, new_basic_file, stack, start_val>>

\* A mistake the checks must notice: back to the loop around it.
LowerLoopOutside ==
  /\ Reading("do", {"loop"})
  /\ diff' = diff - 1
  /\ Replace(Line("if", line.src, L(start_val + diff' - 1)))
  /\ UNCHANGED <<source, phase, pc, new_basic_file, stack, start_val,
                 num_generated_labels>>

LowerLoop ==
  /\ Reading("do", {"loop"})
  /\ diff' = diff - 1
  /\ Replace(Line("if", line.src, L(start_val + diff')))
  /\ UNCHANGED <<source, phase, pc, new_basic_file, stack, start_val,
                 num_generated_labels>>

KeepInDoPass ==
  /\ phase = "do"
  /\ MoreLines
  /\ line.kind \notin {"do", "loop"}
  /\ cursor' = cursor + 1
  /\ UNCHANGED <<source, basic_file, phase, pc, new_basic_file, stack, diff,
                 start_val, num_generated_labels>>

RejectLoops ==
  /\ phase = "do"
  /\ ~MoreLines
  /\ diff # 0
  /\ Stop("failed")

FinishDoPass ==
  /\ phase = "do"
  /\ ~MoreLines
  /\ diff = 0
  /\ phase' = "while"
  /\ cursor' = 0
  /\ start_val' = num_generated_labels
  /\ UNCHANGED <<source, basic_file, pc, new_basic_file, stack, diff,
                 num_generated_labels>>

(***************************************************************************)
(* replace_while_wend_with_if: two labels for each depth.                  *)
(***************************************************************************)
WhileHasRoom == Len(stack) < StackRoom
TestLabel(depth) == L(start_val + depth * 2)
BodyLabel(depth) == L(start_val + depth * 2 + 1)

LowerWhile ==
  /\ Reading("while", {"while"})
  /\ WhileHasRoom
  /\ Push
  /\ Emit(<<Line("goto", line.src, TestLabel(Len(stack))),
            Line("label", line.src, BodyLabel(Len(stack)))>>)
  /\ Raise(start_val + Len(stack') * 2)
  /\ UNCHANGED <<source, basic_file, phase, pc, diff, start_val>>

LowerWend ==
  /\ Reading("while", {"wend"})
  /\ stack # <<>>
  /\ Pop
  /\ Emit(<<Line("label", line.src, TestLabel(Len(stack'))),
            Line("if", Top, BodyLabel(Len(stack')))>>)
  /\ UNCHANGED <<source, basic_file, phase, pc, diff, start_val, num_generated_labels>>

\* One loop too many is open, or none is, or its condition does not fit the ten
\* characters, the NUL among them, there is room for.
LeaveCondStack ==
  /\ \/ Reading("while", {"while"}) /\ ~WhileHasRoom
     \/ Reading("while", {"wend"}) /\ stack = <<>>
     \/ Reading("while", {"longwhile"})
  /\ Stop("undefined")

KeepInWhilePass ==
  /\ phase = "while"
  /\ MoreLines
  /\ line.kind \notin {"while", "longwhile", "wend"}
  /\ Emit(<<line>>)
  /\ UNCHANGED <<source, basic_file, phase, pc, stack, diff, start_val,
                 num_generated_labels>>

FinishWhilePass ==
  /\ phase = "while"
  /\ ~MoreLines
  /\ EnterPass("labels")
  /\ UNCHANGED <<source, pc, diff, start_val, num_generated_labels>>

(***************************************************************************)
(* The lowered program.  compile_instructions refuses a GOTO to a label    *)
(* that is no line of the program; branches go to the last definition.     *)
(***************************************************************************)
Definitions(name) ==
  {i \in DOMAIN basic_file : basic_file[i].kind = "label" /\ basic_file[i].name = name}
Jumps == {i \in DOMAIN basic_file : basic_file[i].kind \in {"goto", "if"}}
AllDefined == \A i \in Jumps : Definitions(basic_file[i].name) # {}

AcceptLabels ==
  /\ phase = "labels"
  /\ AllDefined
  /\ phase' = "run"
  /\ pc' = 1
  /\ UNCHANGED <<source, basic_file, passVars>>

RejectLabels ==
  /\ phase = "labels"
  /\ ~AllDefined
  /\ Stop("failed")

Running(kinds) == phase = "run" /\ basic_file[pc].kind \in kinds
LastDefinition(name) ==
  {i \in Definitions(name) : \A j \in Definitions(name) : j <= i}
Destination == LastDefinition(basic_file[pc].name)

RunText ==
  /\ Running({"text", "spoilt", "let", "label"})
  /\ pc' = pc + 1
  /\ UNCHANGED <<source, basic_file, phase, passVars>>

RunGoto ==
  /\ Running({"goto"})
  /\ pc' \in Destination
  /\ UNCHANGED <<source, basic_file, phase, passVars>>

RunIf ==
  /\ Running({"if"})
  /\ pc' \in Destination \cup {pc + 1}
  /\ UNCHANGED <<source, basic_file, phase, passVars>>

RunEnd ==
  /\ Running({"end"})
  /\ phase' = "done"
  /\ UNCHANGED <<source, basic_file, pc, passVars>>

Next ==
  \/ ReadFile \/ ReadBeyondFile
  \/ LowerFor \/ RejectFor \/ LowerNext \/ RejectNext \/ LeaveVarStack
  \/ KeepInForPass \/ FinishForPass
  \/ ReplaceOn
  \/ LowerDo \/ LowerLoop \/ KeepInDoPass \/ RejectLoops \/ FinishDoPass
  \/ LowerWhile \/ LowerWend \/ LeaveCondStack \/ KeepInWhilePass \/ FinishWhilePass
  \/ AcceptLabels \/ RejectLabels
  \/ RunText \/ RunGoto \/ RunIf \/ RunEnd

Spec == Init /\ [][Next]_vars

(***************************************************************************)
(* Properties                                                              *)
(***************************************************************************)
LabelsOf(kinds) ==
  {basic_file[i].name.n :
     i \in {j \in DOMAIN basic_file : basic_file[j].name.generated
                                     /\ source[basic_file[j].src].kind \in kinds}}

\* Each pass takes labels no other pass has: those of DO loops lie below those
\* of WHILE and FOR loops, however loops of the kinds are nested, follow each
\* other or cross, and the ones from num_generated_labels on are left for the
\* IFs of compile_instructions.
LabelFamiliesApart ==
  phase \in {"labels", "run", "done"} =>
    /\ \A n \in LabelsOf({"do", "loop"}) : n < start_val
    /\ \A n \in LabelsOf({"while", "wend", "for", "next"}) :
         start_val <= n /\ n < num_generated_labels
    /\ start_val <= num_generated_labels

(***************************************************************************)
(* The lowered program does what the BASIC program says.                   *)
(***************************************************************************)
WellNested(p) ==
  LET Depth(i, opening, closing) ==
        Cardinality({j \in 1 .. i : p[j].kind \in opening})
          - Cardinality({j \in 1 .. i : p[j].kind \in closing})
      Loops(i) == Depth(i, {"while", "for"}, {"wend", "next"})
      Dos(i) == Depth(i, {"do"}, {"loop"})
      Matches(h, f) ==
        /\ h < f
        /\ Loops(h) = Loops(f) + 1
        /\ \A k \in h .. f - 1 : Loops(k) >= Loops(h)
        /\ \/ p[h].kind = "while" /\ p[f].kind = "wend"
           \/ p[h].kind = "for" /\ p[f].kind = "next" /\ p[h].variable = p[f].variable
  IN  /\ \A i \in DOMAIN p : Loops(i) \in 0 .. StackRoom /\ Dos(i) >= 0
      /\ Loops(Len(p)) = 0 /\ Dos(Len(p)) = 0
      /\ \A f \in DOMAIN p : p[f].kind \in {"wend", "next"} =>
           \E h \in DOMAIN p : p[h].kind \in {"while", "for"} /\ Matches(h, f)

\* What the compiler has to accept.
WellFormed(p) ==
  /\ WellNested(p)
  /\ \A i \in DOMAIN p : p[i].kind \notin {"longwhile", "longfor", "widefor", "badfor"}
  /\ \E i \in DOMAIN p : p[i].kind = "end"
  /\ (\E i \in DOMAIN p : p[i].kind \in {"if", "on"}) =>
       \E i \in DOMAIN p : p[i].kind = "label"

UpToEnd(p) ==
  IF \E i \in DOMAIN p : p[i].kind = "end"
    THEN SubSeq(p, 1, CHOOSE i \in DOMAIN p :
                        p[i].kind = "end" /\ \A j \in 1 .. i - 1 : p[j].kind # "end")
    ELSE p

\* The line that runs next, beyond labels and generated GOTOs.
AfterLabels(i) ==
  CHOOSE j \in DOMAIN basic_file :
    /\ j >= i /\ basic_file[j].kind # "label"
    /\ \A k \in i .. j - 1 : basic_file[k].kind = "label"
Beyond(i) ==
  IF basic_file[i].kind # "goto" THEN i
  ELSE AfterLabels(CHOOSE j \in LastDefinition(basic_file[i].name) : TRUE)
PointAt(i) ==
  LET l == basic_file[Beyond(AfterLabels(i))]
  IN  <<l.src, IF l.kind = "if" THEN "test" ELSE "effect">>

Status ==
  CASE phase = "run"  -> "running"
    [] phase = "done" -> "ended"
    [] phase \in {"failed", "undefined"} -> "rejected"
    [] OTHER -> "compiling"

Structured == INSTANCE StructuredProgram WITH
  Accepts <- WellFormed,
  program <- UpToEnd(source),
  status <- Status,
  at <- IF phase \in {"run", "done"} THEN PointAt(pc) ELSE <<0, "effect">>

\* A program whose loops are well nested is compiled; one that runs goes from
\* line to line as BASIC says, each loop testing its condition where it should
\* and leaving where it ends, except that a loop may be taken for another one
\* of its kind and depth, whose labels are the same.
RefinesStructuredProgram == Structured!Spec
==============================================================================
