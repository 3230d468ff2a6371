---------------------------- MODULE LoweringProofs ----------------------------
(***************************************************************************)
(* Theorems about the lowering passes, for every set of BASIC programs and *)
(* every size of the passes' stacks.                                       *)
(***************************************************************************)
EXTENDS Lowering, SequenceTheorems, TLAPS

(***************************************************************************)
(* The inductive invariant: what lines a file has, pass by pass            *)
(***************************************************************************)
DoKinds == {"do", "loop"}
HeadKinds == {"while", "for"}
FootKinds == {"wend", "next"}
SourceKindOf(l) == source[l.src].kind
LineOfSource == {l \in LoweredLine : l.src \in DOMAIN source}

\* A file that was read; one without FOR; one whose DO labels are below n; one
\* whose WHILE labels lie from n on, below m.
ReadLine == {l \in LineOfSource : ~l.name.generated /\ l.kind = SourceKindOf(l)}

LoopsKeepKind(l) ==
  /\ l.kind \in DoKinds => SourceKindOf(l) = l.kind
  /\ l.kind = "while" => SourceKindOf(l) \in HeadKinds
  /\ l.kind = "wend" => SourceKindOf(l) \in FootKinds
WhileLine == {l \in LineOfSource : ~l.name.generated /\ LoopsKeepKind(l)}
DoLine(n) ==
  {l \in LineOfSource : /\ LoopsKeepKind(l)
                        /\ l.name.generated => SourceKindOf(l) \in DoKinds /\ l.name.n < n}
JumpLine(n, m) ==
  {l \in LineOfSource :
     l.name.generated =>
       \/ SourceKindOf(l) \in DoKinds /\ l.name.n < n
       \/ SourceKindOf(l) \in HeadKinds \cup FootKinds /\ n <= l.name.n /\ l.name.n < m}

Head_ == {i \in DOMAIN source : source[i].kind \in HeadKinds}

NoLabelsYet == start_val = 0 /\ num_generated_labels = 0
BetweenPasses == new_basic_file = <<>> /\ stack = <<>>

ReadInv == BetweenPasses /\ NoLabelsYet /\ diff = 0
ForInv ==
  /\ basic_file \in Seq(ReadLine) /\ new_basic_file \in Seq(WhileLine)
  /\ NoLabelsYet /\ diff = 0
OnInv == basic_file \in Seq(WhileLine) /\ BetweenPasses /\ NoLabelsYet /\ diff = 0
DoInv ==
  /\ basic_file \in Seq(DoLine(num_generated_labels))
  /\ BetweenPasses
  /\ start_val = 0 /\ diff <= num_generated_labels
WhileInv ==
  /\ basic_file \in Seq(DoLine(start_val))
  /\ new_basic_file \in Seq(JumpLine(start_val, num_generated_labels))
  /\ stack \in Seq(Head_)
  /\ start_val + 2 * Len(stack) <= num_generated_labels
LoweredInv ==
  /\ basic_file \in Seq(JumpLine(start_val, num_generated_labels))
  /\ start_val <= num_generated_labels

PassInv ==
  /\ phase = "read" => ReadInv
  /\ phase = "for" => ForInv
  /\ phase = "on" => OnInv
  /\ phase = "do" => DoInv
  /\ phase = "while" => WhileInv
  /\ phase \in {"labels", "run", "done"} => LoweredInv

(***************************************************************************)
(* Files and stacks                                                        *)
(***************************************************************************)
\* A pass appends one line or two.
LEMMA EmitOne ==
  ASSUME NEW S, NEW f \in Seq(S), NEW a \in S
  PROVE  f \o <<a>> \in Seq(S)
<1>1. <<a>> \in Seq(S)
  OBVIOUS
<1>. QED  BY <1>1, ConcatProperties

LEMMA EmitTwo ==
  ASSUME NEW S, NEW f \in Seq(S), NEW a \in S, NEW b \in S
  PROVE  f \o <<a, b>> \in Seq(S)
<1>1. <<a, b>> \in Seq(S)
  OBVIOUS
<1>. QED  BY <1>1, ConcatProperties

\* What Push and Pop leave.
LEMMA PushOne ==
  ASSUME NEW S, NEW st \in Seq(S), NEW a \in S
  PROVE  Append(st, a) \in Seq(S) /\ Len(Append(st, a)) = Len(st) + 1
OBVIOUS

LEMMA PopOne ==
  ASSUME NEW S, NEW st \in Seq(S), st # <<>>
  PROVE  /\ st[Len(st)] \in S
         /\ SubSeq(st, 1, Len(st) - 1) \in Seq(S)
         /\ Len(SubSeq(st, 1, Len(st) - 1)) = Len(st) - 1
<1>1. Len(st) \in Nat /\ Len(st) # 0
  BY EmptySeq
<1>2. Len(st) \in 1 .. Len(st) /\ Len(st) - 1 \in Nat
  BY <1>1
<1>. DEFINE n == Len(st) - 1
<1>3. \A i \in 1 .. n : st[i] \in S
  BY <1>1, ElementOfSeq
<1>4. n \in Int /\ n - 1 + 1 = n /\ (1 <= n \/ n = 0)
  <2>1. \A k \in Nat : k # 0 => k - 1 \in Int /\ k - 1 - 1 + 1 = k - 1 /\ (1 <= k - 1 \/ k - 1 = 0)
    OBVIOUS
  <2>. QED  BY <1>1, <2>1
<1>. HIDE DEF n
<1>5. SubSeq(st, 1, n) \in Seq(S) /\ Len(SubSeq(st, 1, n)) = n
  BY <1>3, <1>4, SubSeqProperties
<1>. QED  BY <1>2, <1>5, ElementOfSeq DEF n

\* The lines passes make.
LEMMA LineType ==
  ASSUME NEW kind \in SourceKind \cup {"let", "goto", "spoilt"}, NEW src \in Nat, NEW n \in Int
  PROVE  Line(kind, src, User) \in LoweredLine /\ Line(kind, src, L(n)) \in LoweredLine
BY DEF Line, User, L, LoweredLine, LabelName

\* The line a pass reads is one of its file's.
LEMMA LineRead ==
  ASSUME NEW S, basic_file \in Seq(S), cursor \in Nat, MoreLines
  PROVE  line \in S /\ cursor + 1 \in 1 .. Len(basic_file) /\ cursor + 1 \in Nat
<1>1. Len(basic_file) \in Nat
  OBVIOUS
<1>2. cursor + 1 \in 1 .. Len(basic_file)
  BY <1>1 DEF MoreLines
<1>. QED  BY <1>2, ElementOfSeq DEF line

(***************************************************************************)
(* Types                                                                   *)
(***************************************************************************)
LEMMA InitType == Init => TypeOK
BY ProgramsAssumption DEF Init, TypeOK, Phase

\* read_file and the end of a pass.
LEMMA ReadType == TypeOK /\ (ReadFile \/ ReadBeyondFile) => TypeOK'
<1>. SUFFICES ASSUME TypeOK, ReadFile \/ ReadBeyondFile PROVE TypeOK'
  OBVIOUS
<1>1. CASE ReadFile
  <2>1. PICK i \in 1 .. Len(source) :
          basic_file' = [j \in 1 .. i |-> Line(source[j].kind, j, User)]
    BY <1>1 DEF ReadFile
  <2>2. \A j \in 1 .. i : source[j] \in SourceLine /\ j \in Nat
    BY ElementOfSeq DEF TypeOK
  <2>3. \A j \in 1 .. i : Line(source[j].kind, j, User) \in LoweredLine
    BY <2>2, LineType DEF SourceLine
  <2>4. basic_file' \in Seq(LoweredLine)
    BY <2>1, <2>3, IsASeq
  <2>. QED  BY <1>1, <2>4 DEF ReadFile, TypeOK, Phase, passVars
<1>2. CASE ReadBeyondFile
  BY <1>2 DEF ReadBeyondFile, TypeOK, Phase, passVars
<1>. QED  BY <1>1, <1>2

LEMMA PassEndType ==
  ASSUME TypeOK,
         \/ FinishForPass \/ ReplaceOn \/ FinishDoPass \/ FinishWhilePass
         \/ RejectFor \/ RejectNext \/ LeaveVarStack \/ RejectLoops \/ LeaveCondStack
         \/ RejectLabels \/ AcceptLabels
  PROVE  TypeOK'
<1>0. <<>> \in Seq(LoweredLine) /\ <<>> \in Seq(Nat)
  OBVIOUS
<1>1. CASE FinishForPass \/ FinishWhilePass
  <2>1. /\ basic_file' = new_basic_file /\ new_basic_file' = <<>> /\ cursor' = 0 /\ stack' = <<>>
        /\ phase' \in {"on", "labels"}
        /\ UNCHANGED <<source, pc, diff, start_val, num_generated_labels>>
    BY <1>1 DEF FinishForPass, FinishWhilePass, EnterPass
  <2>. QED  BY <1>0, <2>1 DEF TypeOK, Phase
<1>2. CASE ReplaceOn
  <2>1. \A l \in LoweredLine : [l EXCEPT !.kind = OnBecomes(@)] \in LoweredLine
    BY DEF LoweredLine, OnBecomes, SourceKind
  <2>2. \A i \in 1 .. Len(basic_file) :
          [basic_file[i] EXCEPT !.kind = OnBecomes(@)] \in LoweredLine
    BY <2>1, ElementOfSeq DEF TypeOK
  <2>3. basic_file' = [i \in 1 .. Len(basic_file) |->
                         [basic_file[i] EXCEPT !.kind = OnBecomes(@)]]
    BY <1>2, LenProperties DEF ReplaceOn, TypeOK
  <2>4. basic_file' \in Seq(LoweredLine)
    BY <2>2, <2>3, LenProperties, IsASeq DEF TypeOK
  <2>. QED  BY <1>2, <2>4 DEF ReplaceOn, TypeOK, Phase, passVars
<1>3. CASE FinishDoPass
  BY <1>3 DEF FinishDoPass, TypeOK, Phase
<1>4. CASE \/ RejectFor \/ RejectNext \/ LeaveVarStack \/ RejectLoops \/ LeaveCondStack
           \/ RejectLabels
  BY <1>4 DEF RejectFor, RejectNext, LeaveVarStack, RejectLoops, LeaveCondStack,
              RejectLabels, Stop, TypeOK, Phase, passVars
<1>5. CASE AcceptLabels
  BY <1>5 DEF AcceptLabels, TypeOK, Phase, passVars
<1>. QED  BY <1>1, <1>2, <1>3, <1>4, <1>5

\* The rest of a pass, line by line.
LEMMA LineStepType ==
  ASSUME TypeOK,
         \/ LowerFor \/ LowerNext \/ KeepInForPass
         \/ LowerDo \/ LowerLoop \/ KeepInDoPass
         \/ LowerWhile \/ LowerWend \/ KeepInWhilePass
  PROVE  TypeOK'
<1>1. MoreLines
  BY DEF LowerFor, LowerNext, KeepInForPass, LowerDo, LowerLoop, KeepInDoPass,
         LowerWhile, LowerWend, KeepInWhilePass, Reading
<1>2. /\ line \in LoweredLine /\ cursor + 1 \in 1 .. Len(basic_file) /\ cursor + 1 \in Nat
  BY <1>1, LineRead DEF TypeOK
<1>3. line.src \in Nat
  BY <1>2 DEF LoweredLine
<1>4. Append(stack, line.src) \in Seq(Nat) /\ Len(stack) \in Nat
  BY <1>3 DEF TypeOK
<1>5. stack # <<>> => Top \in Nat /\ SubSeq(stack, 1, Len(stack) - 1) \in Seq(Nat)
                      /\ Len(SubSeq(stack, 1, Len(stack) - 1)) \in Nat
  BY <1>4, PopOne DEF TypeOK, Top
<1>6. CASE LowerFor \/ KeepInForPass \/ KeepInWhilePass
  <2>. DEFINE head == Line(IF line.kind = "for" THEN "while" ELSE "longwhile", line.src, User)
  <2>1. Line("let", line.src, User) \in LoweredLine /\ head \in LoweredLine
    BY <1>3, LineType DEF SourceKind
  <2>2. /\ new_basic_file \o <<Line("let", line.src, User), head>> \in Seq(LoweredLine)
        /\ new_basic_file \o <<line>> \in Seq(LoweredLine)
    BY <1>2, <2>1, EmitOne, EmitTwo DEF TypeOK
  <2>. QED  BY <1>2, <1>4, <1>6, <2>2
            DEF LowerFor, KeepInForPass, KeepInWhilePass, Emit, Push, TypeOK
<1>7. CASE LowerNext
  <2>1. /\ Line("let", line.src, User) \in LoweredLine
        /\ Line("wend", line.src, User) \in LoweredLine
    BY <1>3, LineType DEF SourceKind
  <2>2. new_basic_file \o <<Line("let", line.src, User), Line("wend", line.src, User)>>
          \in Seq(LoweredLine)
    BY <2>1, EmitTwo DEF TypeOK
  <2>. QED  BY <1>2, <1>5, <1>7, <2>2 DEF LowerNext, NextMatches, Emit, Pop, TypeOK
<1>8. CASE LowerDo \/ LowerLoop \/ KeepInDoPass
  <2>1. \A l \in LoweredLine : [basic_file EXCEPT ![cursor + 1] = l] \in Seq(LoweredLine)
    BY <1>2, ExceptSeq DEF TypeOK
  <2>2. start_val + diff \in Int /\ diff + 1 \in Int /\ diff - 1 \in Int
        /\ start_val + (diff - 1) \in Int /\ start_val + (diff + 1) \in Int
    BY DEF TypeOK
  <2>3. CASE LowerDo
    <3>1. Line("label", line.src, L(start_val + diff)) \in LoweredLine
      BY <1>3, <2>2, LineType DEF SourceKind
    <3>2. num_generated_labels' \in Nat
      BY <2>2, <2>3 DEF LowerDo, Raise, TypeOK
    <3>. QED  BY <1>2, <2>1, <2>2, <2>3, <3>1, <3>2 DEF LowerDo, Replace, TypeOK
  <2>4. CASE LowerLoop
    <3>1. Line("if", line.src, L(start_val + (diff - 1))) \in LoweredLine
      BY <1>3, <2>2, LineType DEF SourceKind
    <3>. QED  BY <1>2, <2>1, <2>2, <2>4, <3>1 DEF LowerLoop, Replace, TypeOK
  <2>5. CASE KeepInDoPass
    BY <1>2, <2>5 DEF KeepInDoPass, TypeOK
  <2>. QED  BY <1>8, <2>3, <2>4, <2>5
<1>9. CASE LowerWhile
  <2>. DEFINE d == Len(stack)
  <2>1. start_val + d * 2 \in Int /\ start_val + d * 2 + 1 \in Int
    BY <1>4 DEF TypeOK
  <2>2. /\ Line("goto", line.src, TestLabel(d)) \in LoweredLine
        /\ Line("label", line.src, BodyLabel(d)) \in LoweredLine
    BY <1>3, <2>1, LineType DEF SourceKind, TestLabel, BodyLabel
  <2>3. new_basic_file' \in Seq(LoweredLine)
    BY <1>9, <2>2, EmitTwo DEF LowerWhile, Emit, TypeOK
  <2>4. stack' \in Seq(Nat) /\ Len(stack') \in Nat
    BY <1>4, <1>9 DEF LowerWhile, Push
  <2>5. num_generated_labels' \in Nat
    BY <1>9, <2>4 DEF LowerWhile, Raise, TypeOK
  <2>. QED  BY <1>2, <1>9, <2>3, <2>4, <2>5 DEF LowerWhile, Emit, TypeOK
<1>10. CASE LowerWend
  <2>. DEFINE d == Len(stack')
  <2>1. Top \in Nat /\ stack' \in Seq(Nat) /\ d \in Nat
    BY <1>5, <1>10 DEF LowerWend, Pop
  <2>2. start_val + d * 2 \in Int /\ start_val + d * 2 + 1 \in Int
    BY <2>1 DEF TypeOK
  <2>3. /\ Line("label", line.src, TestLabel(d)) \in LoweredLine
        /\ Line("if", Top, BodyLabel(d)) \in LoweredLine
    BY <1>3, <2>1, <2>2, LineType DEF SourceKind, TestLabel, BodyLabel
  <2>4. new_basic_file' \in Seq(LoweredLine)
    BY <1>10, <2>3, EmitTwo DEF LowerWend, Emit, TypeOK
  <2>. QED  BY <1>2, <1>10, <2>1, <2>4 DEF LowerWend, Emit, TypeOK
<1>. QED  BY <1>6, <1>7, <1>8, <1>9, <1>10

\* The lowered program runs without changing.
LEMMA RunType ==
  ASSUME TypeOK, RunText \/ RunGoto \/ RunIf \/ RunEnd
  PROVE  TypeOK'
<1>1. pc' \in Nat
  <2>1. Destination \subseteq Nat
    BY DEF Destination, LastDefinition, Definitions, TypeOK
  <2>2. pc \in Nat /\ pc + 1 \in Nat
    BY DEF TypeOK
  <2>3. pc' \in Destination \/ pc' = pc + 1 \/ pc' = pc
    BY DEF RunText, RunGoto, RunIf, RunEnd
  <2>. QED  BY <2>1, <2>2, <2>3
<1>. QED  BY <1>1 DEF RunText, RunGoto, RunIf, RunEnd, TypeOK, Phase, passVars

LEMMA NextType == TypeOK /\ [Next]_vars => TypeOK'
<1>. SUFFICES ASSUME TypeOK, [Next]_vars PROVE TypeOK'
  OBVIOUS
<1>1. CASE UNCHANGED vars
  BY <1>1 DEF TypeOK, vars, passVars
<1>2. CASE Next
  BY <1>2, ReadType, PassEndType, LineStepType, RunType DEF Next
<1>. QED  BY <1>1, <1>2

\* Whatever the program, every pass leaves a file of lines, on whichever exit.
THEOREM LoweringType == Spec => []TypeOK
BY InitType, NextType, PTL DEF Spec

(***************************************************************************)
(* Labels                                                                  *)
(***************************************************************************)
\* While the BASIC file stays, so do the sets of lines.
LEMMA LinesStay ==
  ASSUME source' = source
  PROVE  /\ ReadLine' = ReadLine /\ WhileLine' = WhileLine /\ Head_' = Head_
         /\ DoLine(num_generated_labels)' = DoLine(num_generated_labels')
         /\ DoLine(start_val)' = DoLine(start_val')
         /\ JumpLine(start_val, num_generated_labels)'
              = JumpLine(start_val', num_generated_labels')
BY DEF ReadLine, WhileLine, Head_, DoLine, JumpLine, LineOfSource, SourceKindOf, LoopsKeepKind

\* A line of one pass is a line of the next, and stays one when there are more
\* labels.
LEMMA LinesGrow ==
  /\ \A n, m \in Int : n <= m => DoLine(n) \subseteq DoLine(m)
  /\ \A n, m, k \in Int : m <= k => JumpLine(n, m) \subseteq JumpLine(n, k)
  /\ \A n, m \in Int : DoLine(n) \subseteq JumpLine(n, m)
  /\ \A n \in Int : WhileLine \subseteq DoLine(n)
<1>1. \A l \in LoweredLine : l.name.n \in Int
  BY DEF LoweredLine, LabelName
<1>2. \A n, m \in Int : n <= m => DoLine(n) \subseteq DoLine(m)
  BY <1>1 DEF DoLine, LineOfSource
<1>3. \A n, m, k \in Int : m <= k => JumpLine(n, m) \subseteq JumpLine(n, k)
  BY <1>1 DEF JumpLine, LineOfSource
<1>4. \A n, m \in Int : DoLine(n) \subseteq JumpLine(n, m)
  BY DEF DoLine, JumpLine
<1>5. \A n \in Int : WhileLine \subseteq DoLine(n)
  BY DEF WhileLine, DoLine
<1>. QED  BY <1>2, <1>3, <1>4, <1>5

\* The lines a pass makes are of the kind its file has.
LEMMA ForLine ==
  ASSUME TypeOK, NEW src \in DOMAIN source, NEW kind \in {"let", "while", "longwhile", "wend"},
         kind = "while" => source[src].kind \in HeadKinds,
         kind = "wend" => source[src].kind \in FootKinds
  PROVE  Line(kind, src, User) \in WhileLine
<1>1. src \in Nat
  BY DEF TypeOK
<1>2. Line(kind, src, User) \in LoweredLine
  BY <1>1, LineType DEF SourceKind
<1>. QED  BY <1>2 DEF WhileLine, LineOfSource, LoopsKeepKind, SourceKindOf, Line, User, DoKinds

LEMMA LoopLine ==
  ASSUME TypeOK, NEW src \in DOMAIN source, NEW kind \in {"label", "if"}, NEW n \in Int,
         NEW m \in Int, n < m, source[src].kind \in DoKinds
  PROVE  Line(kind, src, L(n)) \in DoLine(m)
<1>1. src \in Nat
  BY DEF TypeOK
<1>2. Line(kind, src, L(n)) \in LoweredLine
  BY <1>1, LineType DEF SourceKind
<1>. QED  BY <1>2 DEF DoLine, LineOfSource, LoopsKeepKind, SourceKindOf, Line, L, DoKinds

LEMMA WhileLoopLine ==
  ASSUME TypeOK, NEW src \in DOMAIN source, NEW kind \in {"goto", "label", "if"},
         NEW n \in Int, NEW low \in Int, NEW m \in Int, low <= n, n < m,
         source[src].kind \in HeadKinds \cup FootKinds
  PROVE  Line(kind, src, L(n)) \in JumpLine(low, m)
<1>1. src \in Nat
  BY DEF TypeOK
<1>2. Line(kind, src, L(n)) \in LoweredLine
  BY <1>1, LineType DEF SourceKind
<1>. QED  BY <1>2 DEF JumpLine, LineOfSource, SourceKindOf, Line, L

LEMMA InitPassInv == Init => PassInv
BY DEF Init, PassInv, ReadInv, BetweenPasses, NoLabelsYet

\* A pass that ends the compiler, and one that only reads on.
LEMMA StopInv ==
  ASSUME TypeOK, PassInv,
         \/ ReadBeyondFile \/ RejectFor \/ RejectNext \/ LeaveVarStack \/ RejectLoops
         \/ LeaveCondStack \/ RejectLabels
  PROVE  PassInv'
<1>1. phase' \in {"failed", "undefined"}
  BY DEF ReadBeyondFile, RejectFor, RejectNext, LeaveVarStack, RejectLoops, LeaveCondStack,
         RejectLabels, Stop
<1>. QED  BY <1>1 DEF PassInv

LEMMA RunInv ==
  ASSUME TypeOK, PassInv, AcceptLabels \/ RunText \/ RunGoto \/ RunIf \/ RunEnd
  PROVE  PassInv'
<1>1. /\ phase \in {"labels", "run"} /\ phase' \in {"run", "done"}
      /\ UNCHANGED <<source, basic_file, start_val, num_generated_labels>>
  BY DEF AcceptLabels, RunText, RunGoto, RunIf, RunEnd, Running, passVars
<1>2. LoweredInv'
  BY <1>1, LinesStay DEF PassInv, LoweredInv
<1>. QED  BY <1>1, <1>2 DEF PassInv

LEMMA ReadInvStep == TypeOK /\ PassInv /\ ReadFile => PassInv'
<1>. SUFFICES ASSUME TypeOK, PassInv, ReadFile PROVE PassInv'
  OBVIOUS
<1>1. PICK i \in 1 .. Len(source) :
        basic_file' = [j \in 1 .. i |-> Line(source[j].kind, j, User)]
  BY DEF ReadFile
<1>2. ASSUME NEW j \in 1 .. i PROVE Line(source[j].kind, j, User) \in ReadLine
  <2>1. j \in DOMAIN source /\ j \in Nat /\ source[j] \in SourceLine
    BY ElementOfSeq DEF TypeOK
  <2>2. Line(source[j].kind, j, User) \in LoweredLine
    BY <2>1, LineType DEF SourceLine
  <2>. QED  BY <2>1, <2>2 DEF ReadLine, LineOfSource, SourceKindOf, Line, User
<1>3. basic_file' \in Seq(ReadLine)
  BY <1>1, <1>2, IsASeq
<1>4. <<>> \in Seq(WhileLine)
  OBVIOUS
<1>5. ForInv'
  BY <1>3, <1>4, LinesStay
     DEF ReadFile, PassInv, ReadInv, ForInv, BetweenPasses, NoLabelsYet, passVars
<1>. QED  BY <1>5 DEF ReadFile, PassInv

\* replace_for_with_while.
LEMMA ForInvStep ==
  ASSUME TypeOK, PassInv, LowerFor \/ LowerNext \/ KeepInForPass \/ FinishForPass
  PROVE  PassInv'
<1>1. /\ ForInv
      /\ UNCHANGED <<source, start_val, num_generated_labels, diff>>
  BY DEF PassInv, LowerFor, LowerNext, KeepInForPass, FinishForPass, Reading
<1>2. CASE FinishForPass
  <2>1. OnInv'
    BY <1>1, <1>2, LinesStay
       DEF FinishForPass, EnterPass, ForInv, OnInv, BetweenPasses, NoLabelsYet
  <2>. QED  BY <1>2, <2>1 DEF FinishForPass, EnterPass, PassInv
<1>3. CASE LowerFor \/ LowerNext \/ KeepInForPass
  <2>1. MoreLines /\ phase' = "for" /\ basic_file' = basic_file
    BY <1>3 DEF LowerFor, LowerNext, KeepInForPass, Reading
  <2>2. line \in ReadLine
    BY <1>1, <2>1, LineRead DEF ForInv, TypeOK
  <2>3. line.src \in DOMAIN source /\ line.kind = source[line.src].kind
    BY <2>2 DEF ReadLine, LineOfSource, SourceKindOf
  <2>4. new_basic_file' \in Seq(WhileLine)
    <3>1. CASE LowerFor
      <4>. DEFINE head == Line(IF line.kind = "for" THEN "while" ELSE "longwhile", line.src, User)
      <4>1. Line("let", line.src, User) \in WhileLine /\ head \in WhileLine
        BY <2>3, ForLine DEF HeadKinds
      <4>2. new_basic_file' = new_basic_file \o <<Line("let", line.src, User), head>>
        BY <3>1 DEF LowerFor, Emit
      <4>. QED  BY <1>1, <4>1, <4>2, EmitTwo DEF ForInv
    <3>2. CASE LowerNext
      <4>1. source[line.src].kind = "next"
        BY <2>3, <3>2 DEF LowerNext, Reading
      <4>2. /\ Line("let", line.src, User) \in WhileLine
            /\ Line("wend", line.src, User) \in WhileLine
        BY <2>3, <4>1, ForLine DEF FootKinds
      <4>. QED  BY <1>1, <3>2, <4>2, EmitTwo DEF LowerNext, Emit, ForInv
    <3>3. CASE KeepInForPass
      <4>1. line \in WhileLine
        BY <2>2 DEF ReadLine, WhileLine, LoopsKeepKind, DoKinds, HeadKinds, FootKinds
      <4>. QED  BY <1>1, <3>3, <4>1, EmitOne DEF KeepInForPass, Emit, ForInv
    <3>. QED  BY <1>3, <3>1, <3>2, <3>3
  <2>5. ForInv'
    BY <1>1, <2>1, <2>4, LinesStay DEF ForInv, NoLabelsYet
  <2>. QED  BY <2>1, <2>5 DEF PassInv
<1>. QED  BY <1>2, <1>3

\* replace_on_with_if leaves loops alone.
LEMMA OnInvStep == TypeOK /\ PassInv /\ ReplaceOn => PassInv'
<1>. SUFFICES ASSUME TypeOK, PassInv, ReplaceOn PROVE PassInv'
  OBVIOUS
<1>1. OnInv /\ UNCHANGED <<source, new_basic_file, stack, start_val, num_generated_labels, diff>>
  BY DEF PassInv, ReplaceOn, passVars
<1>2. ASSUME NEW l \in WhileLine
      PROVE  [l EXCEPT !.kind = OnBecomes(@)] \in WhileLine
  <2>. DEFINE k == [l EXCEPT !.kind = OnBecomes(@)]
  <2>1. l \in LoweredLine /\ l.src \in DOMAIN source /\ ~l.name.generated /\ LoopsKeepKind(l)
    BY DEF WhileLine, LineOfSource
  <2>2. k.src = l.src /\ k.name = l.name /\ k.kind = OnBecomes(l.kind) /\ k \in LoweredLine
    BY <2>1 DEF LoweredLine, OnBecomes, SourceKind
  <2>3. LoopsKeepKind(k)
    BY <2>1, <2>2 DEF LoopsKeepKind, SourceKindOf, OnBecomes, DoKinds
  <2>. QED  BY <2>1, <2>2, <2>3 DEF WhileLine, LineOfSource
<1>3. \A i \in 1 .. Len(basic_file) : [basic_file[i] EXCEPT !.kind = OnBecomes(@)] \in WhileLine
  BY <1>1, <1>2, ElementOfSeq DEF OnInv
<1>4. basic_file' = [i \in 1 .. Len(basic_file) |->
                       [basic_file[i] EXCEPT !.kind = OnBecomes(@)]]
  BY LenProperties DEF ReplaceOn, TypeOK
<1>5. Len(basic_file) \in Nat
  BY LenProperties DEF TypeOK
<1>6. basic_file' \in Seq(WhileLine)
  BY <1>3, <1>4, <1>5, IsASeq
<1>7. basic_file' \in Seq(DoLine(0))
  BY <1>6, LinesGrow, SeqMonotonic
<1>8. DoInv'
  BY <1>1, <1>7, LinesStay DEF OnInv, DoInv, BetweenPasses, NoLabelsYet
<1>. QED  BY <1>8 DEF ReplaceOn, PassInv

\* replace_do_loop_with_if: a label at each depth, below the number of labels.
LEMMA DoInvStep ==
  ASSUME TypeOK, PassInv, LowerDo \/ LowerLoop \/ KeepInDoPass \/ FinishDoPass
  PROVE  PassInv'
<1>. DEFINE num == num_generated_labels
<1>1. DoInv /\ UNCHANGED <<source, new_basic_file, stack>>
  BY DEF PassInv, LowerDo, LowerLoop, KeepInDoPass, FinishDoPass, Reading
<1>2. num \in Nat /\ diff \in Int /\ start_val = 0 /\ diff <= num
  BY <1>1 DEF TypeOK, DoInv
<1>3. CASE FinishDoPass
  <2>1. /\ start_val' = num /\ num' = num
        /\ basic_file' = basic_file /\ phase' = "while"
    BY <1>3 DEF FinishDoPass
  <2>2. <<>> \in Seq(JumpLine(num, num)) /\ <<>> \in Seq(Head_) /\ num + 2 * Len(<<>>) <= num
    BY <1>2, EmptySeq
  <2>3. WhileInv'
    BY <1>1, <2>1, <2>2, LinesStay DEF DoInv, WhileInv, BetweenPasses
  <2>. QED  BY <2>1, <2>3 DEF PassInv
<1>4. CASE LowerDo \/ LowerLoop \/ KeepInDoPass
  <2>1. MoreLines /\ phase' = "do" /\ start_val' = start_val
    BY <1>4 DEF LowerDo, LowerLoop, KeepInDoPass, Reading
  <2>2. line \in DoLine(num) /\ cursor + 1 \in 1 .. Len(basic_file)
    BY <1>1, <2>1, LineRead DEF DoInv, TypeOK
  <2>3. line.src \in DOMAIN source /\ (line.kind \in DoKinds => source[line.src].kind \in DoKinds)
    BY <2>2 DEF DoLine, LineOfSource, LoopsKeepKind, SourceKindOf
  <2>4. basic_file' \in Seq(DoLine(num')) /\ num' \in Int /\ diff' <= num'
    <3>1. CASE LowerDo
      <4>1. /\ num' = (IF diff + 1 > num THEN diff + 1 ELSE num) /\ diff' = diff + 1
            /\ basic_file' = [basic_file EXCEPT ![cursor + 1] = Line("label", line.src, L(diff))]
        BY <1>2, <3>1 DEF LowerDo, Raise, Replace
      <4>2. num' \in Int /\ num <= num' /\ diff < num' /\ diff + 1 <= num'
        BY <1>2, <4>1
      <4>3. source[line.src].kind \in DoKinds
        BY <2>3, <3>1 DEF LowerDo, Reading, DoKinds
      <4>4. Line("label", line.src, L(diff)) \in DoLine(num')
        BY <1>2, <2>3, <4>2, <4>3, LoopLine
      <4>5. basic_file \in Seq(DoLine(num'))
        BY <1>1, <1>2, <4>2, LinesGrow, SeqMonotonic DEF DoInv
      <4>. QED  BY <2>2, <4>1, <4>2, <4>4, <4>5, ExceptSeq
    <3>2. CASE LowerLoop
      <4>1. /\ num' = num /\ diff' = diff - 1
            /\ basic_file' = [basic_file EXCEPT ![cursor + 1] = Line("if", line.src, L(diff - 1))]
        BY <1>2, <3>2 DEF LowerLoop, Replace
      <4>2. diff - 1 \in Int /\ diff - 1 < num /\ diff - 1 <= num /\ num \in Int
        BY <1>2
      <4>3. source[line.src].kind \in DoKinds
        BY <2>3, <3>2 DEF LowerLoop, Reading, DoKinds
      <4>4. Line("if", line.src, L(diff - 1)) \in DoLine(num)
        BY <2>3, <4>2, <4>3, LoopLine
      <4>. QED  BY <1>1, <2>2, <4>1, <4>2, <4>4, ExceptSeq DEF DoInv
    <3>3. CASE KeepInDoPass
      BY <1>1, <1>2, <3>3 DEF KeepInDoPass, DoInv
    <3>. QED  BY <1>4, <3>1, <3>2, <3>3
  <2>5. DoInv'
    BY <1>1, <2>1, <2>4, LinesStay DEF DoInv, BetweenPasses
  <2>. QED  BY <2>1, <2>5 DEF PassInv
<1>. QED  BY <1>3, <1>4

\* replace_while_wend_with_if: two labels for each open loop, behind the DO
\* labels and below the number of labels.
LEMMA WhileInvStep ==
  ASSUME TypeOK, PassInv, LowerWhile \/ LowerWend \/ KeepInWhilePass \/ FinishWhilePass
  PROVE  PassInv'
<1>. DEFINE num == num_generated_labels  low == start_val  d == Len(stack)
<1>1. WhileInv /\ UNCHANGED <<source, start_val>>
  BY DEF PassInv, LowerWhile, LowerWend, KeepInWhilePass, FinishWhilePass, Reading
<1>2. num \in Nat /\ low \in Nat /\ d \in Nat /\ low + 2 * d <= num
  BY <1>1 DEF TypeOK, WhileInv
<1>3. CASE FinishWhilePass
  <2>1. low <= num
    BY <1>2
  <2>2. LoweredInv'
    BY <1>1, <1>3, <2>1, LinesStay DEF FinishWhilePass, EnterPass, WhileInv, LoweredInv
  <2>. QED  BY <1>3, <2>2 DEF FinishWhilePass, EnterPass, PassInv
<1>4. CASE LowerWhile \/ LowerWend \/ KeepInWhilePass
  <2>1. MoreLines /\ phase' = "while" /\ basic_file' = basic_file
    BY <1>4 DEF LowerWhile, LowerWend, KeepInWhilePass, Reading
  <2>2. line \in DoLine(low)
    BY <1>1, <2>1, LineRead DEF WhileInv, TypeOK
  <2>3. /\ line.src \in DOMAIN source
        /\ line.kind = "while" => source[line.src].kind \in HeadKinds
        /\ line.kind = "wend" => source[line.src].kind \in FootKinds
    BY <2>2 DEF DoLine, LineOfSource, LoopsKeepKind, SourceKindOf
  <2>4. /\ new_basic_file' \in Seq(JumpLine(low, num'))
        /\ stack' \in Seq(Head_)
        /\ low + 2 * Len(stack') <= num'
    <3>1. CASE LowerWhile
      <4>1. /\ new_basic_file' = new_basic_file \o <<Line("goto", line.src, L(low + d * 2)),
                                                   Line("label", line.src, L(low + d * 2 + 1))>>
            /\ stack' = Append(stack, line.src)
            /\ num' = (IF low + Len(stack') * 2 > num THEN low + Len(stack') * 2 ELSE num)
        BY <3>1 DEF LowerWhile, Emit, Push, Raise, TestLabel, BodyLabel
      <4>2. source[line.src].kind \in HeadKinds
        BY <2>3, <3>1 DEF LowerWhile, Reading
      <4>3. line.src \in Head_
        BY <2>3, <4>2 DEF Head_
      <4>4. stack' \in Seq(Head_) /\ Len(stack') = d + 1
        BY <1>1, <4>1, <4>3, PushOne DEF WhileInv
      <4>5. /\ num' \in Int /\ num <= num' /\ low + 2 * Len(stack') <= num'
            /\ low + d * 2 \in Int /\ low + d * 2 + 1 \in Int
            /\ low <= low + d * 2 /\ low + d * 2 < num'
            /\ low <= low + d * 2 + 1 /\ low + d * 2 + 1 < num'
        BY <1>2, <4>1, <4>4
      <4>6. /\ Line("goto", line.src, L(low + d * 2)) \in JumpLine(low, num')
            /\ Line("label", line.src, L(low + d * 2 + 1)) \in JumpLine(low, num')
        BY <1>2, <2>3, <4>2, <4>5, WhileLoopLine
      <4>7. new_basic_file \in Seq(JumpLine(low, num'))
        BY <1>1, <1>2, <4>5, LinesGrow, SeqMonotonic DEF WhileInv
      <4>. QED  BY <4>1, <4>4, <4>5, <4>6, <4>7, EmitTwo
    <3>2. CASE LowerWend
      <4>. DEFINE e == Len(stack')
      <4>1. /\ new_basic_file' = new_basic_file \o <<Line("label", line.src, L(low + e * 2)),
                                                   Line("if", Top, L(low + e * 2 + 1))>>
            /\ stack # <<>> /\ stack' = SubSeq(stack, 1, Len(stack) - 1)
            /\ num' = num
        BY <3>2 DEF LowerWend, Emit, Pop, TestLabel, BodyLabel
      <4>2. stack' \in Seq(Head_) /\ e = d - 1 /\ Top \in Head_
        BY <1>1, <4>1, PopOne DEF WhileInv, Top
      <4>3. e \in Nat
        BY <4>2, LenProperties
      <4>4. /\ low + 2 * e <= num
            /\ low + e * 2 \in Int /\ low + e * 2 + 1 \in Int
            /\ low <= low + e * 2 /\ low + e * 2 < num
            /\ low <= low + e * 2 + 1 /\ low + e * 2 + 1 < num
        BY <1>2, <4>2, <4>3
      <4>5. source[line.src].kind \in FootKinds
        BY <2>3, <3>2 DEF LowerWend, Reading
      <4>6. Top \in DOMAIN source /\ source[Top].kind \in HeadKinds
        BY <4>2 DEF Head_
      <4>7. /\ Line("label", line.src, L(low + e * 2)) \in JumpLine(low, num)
            /\ Line("if", Top, L(low + e * 2 + 1)) \in JumpLine(low, num)
        BY <1>2, <2>3, <4>4, <4>5, <4>6, WhileLoopLine
      <4>. QED  BY <1>1, <4>1, <4>2, <4>4, <4>7, EmitTwo DEF WhileInv
    <3>3. CASE KeepInWhilePass
      <4>1. line \in JumpLine(low, num)
        BY <1>2, <2>2, LinesGrow
      <4>. QED  BY <1>1, <3>3, <4>1, EmitOne DEF KeepInWhilePass, Emit, WhileInv
    <3>. QED  BY <1>4, <3>1, <3>2, <3>3
  <2>5. WhileInv'
    BY <1>1, <2>1, <2>4, LinesStay DEF WhileInv
  <2>. QED  BY <2>1, <2>5 DEF PassInv
<1>. QED  BY <1>3, <1>4

LEMMA NextPassInv == TypeOK /\ PassInv /\ [Next]_vars => PassInv'
<1>. SUFFICES ASSUME TypeOK, PassInv, [Next]_vars PROVE PassInv'
  OBVIOUS
<1>1. CASE UNCHANGED vars
  BY <1>1, LinesStay
     DEF vars, passVars, PassInv, ReadInv, ForInv, OnInv, DoInv, WhileInv, LoweredInv,
         BetweenPasses, NoLabelsYet
<1>2. CASE Next
  BY <1>2, StopInv, RunInv, ReadInvStep, ForInvStep, OnInvStep, DoInvStep, WhileInvStep
     DEF Next
<1>. QED  BY <1>1, <1>2

\* What the invariant says of the finished file.
LEMMA LabelsApart == TypeOK /\ PassInv => LabelFamiliesApart
<1>. SUFFICES ASSUME TypeOK, PassInv, phase \in {"labels", "run", "done"}
              PROVE  LabelFamiliesApart
  BY DEF LabelFamiliesApart
<1>1. LoweredInv
  BY DEF PassInv
<1>2. ASSUME NEW i \in DOMAIN basic_file, basic_file[i].name.generated
      PROVE  LET n == basic_file[i].name.n
                 kind == source[basic_file[i].src].kind
             IN  \/ kind \in DoKinds /\ n < start_val
                 \/ /\ kind \in HeadKinds \cup FootKinds
                    /\ start_val <= n /\ n < num_generated_labels
  <2>1. basic_file[i] \in JumpLine(start_val, num_generated_labels)
    BY <1>1 DEF LoweredInv
  <2>. QED  BY <1>2, <2>1 DEF JumpLine, SourceKindOf
<1>3. \A n \in LabelsOf({"do", "loop"}) : n < start_val
  BY <1>2 DEF LabelsOf, DoKinds, HeadKinds, FootKinds
<1>4. \A n \in LabelsOf({"while", "wend", "for", "next"}) :
        start_val <= n /\ n < num_generated_labels
  BY <1>2 DEF LabelsOf, DoKinds, HeadKinds, FootKinds
<1>. QED  BY <1>1, <1>3, <1>4 DEF LabelFamiliesApart, LoweredInv

\* No BASIC program, however its loops nest or cross, makes two passes give out
\* the same label, or one that compile_instructions takes for an IF.
THEOREM PassesShareNoLabel == Spec => []LabelFamiliesApart
<1>1. Init => TypeOK /\ PassInv
  BY InitType, InitPassInv
<1>2. TypeOK /\ PassInv /\ [Next]_vars => (TypeOK /\ PassInv)'
  BY NextType, NextPassInv
<1>. QED  BY <1>1, <1>2, LabelsApart, PTL DEF Spec
==============================================================================
