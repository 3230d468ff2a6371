---------------------------- MODULE CodeGeneration ----------------------------
(***************************************************************************)
(* compile_instructions and what it calls: how the lowered BASIC lines     *)
(* become assembly, with the register of each variable, the registers that *)
(* are free, and the labels it makes up.  The command of an IF is compiled *)
(* by a call of its own, which knows nothing of its caller's registers.    *)
(*                                                                         *)
(* An expression is a sequence of tokens, bracketed by shunting_yard.  Of  *)
(* the assembly only labels and branches are kept; what the instructions   *)
(* do is followed in `holds', where a value is a bracketed expression over *)
(* the variables' values before the line, and <<v>> is that of v itself.   *)
(***************************************************************************)
EXTENDS Expressions

CONSTANTS
  BasicLines,         \* the lowered lines, and those of the IFs' commands
  Programs,           \* the lowered files, as sequences of lines
  NUM_GP_REGISTERS,
  NumberOf,           \* the value of each token that is a constant
  ArgumentOf,         \* the string that each LEN token takes the length of
  StringVariables,
  Hash(_)             \* the bucket of a text

Registers == 0 .. NUM_GP_REGISTERS - 1
RND == "RND(9)"

ASSUME ProgramsAssumption ==
  /\ Programs \subseteq Seq(BasicLines)
  /\ \A l \in BasicLines :
       l.left \in Seq(STRING) /\ l.right \in Seq(STRING) /\ l.command \in Seq(BasicLines)
ASSUME RegistersAssumption == NUM_GP_REGISTERS \in Nat \ {0}
ASSUME NumbersAssumption == \A t \in DOMAIN NumberOf : NumberOf[t] \in Nat
ASSUME LengthsAssumption ==
  \A t \in DOMAIN ArgumentOf : ArgumentOf[t] \in StringVariables \cup {"literal"}

VARIABLES
  compiler,    \* the call that runs: its locals, the statics, the assembly
  callers,     \* the calls that wait for their IF's command
  computed     \* auxiliary: the value the last line printed or assigned

vars == <<compiler, callers, computed>>

JUNK == <<>>
ABSENT == -1

\* What a program starts with: the statics, the assembly, the number of labels.
Outermost ==
  [branch_num |-> 0, num_len |-> 0, num_rnd_branches |-> 0, string_eq_branch_num |-> 0,
   assembly_file |-> <<>>,
   repeats |-> FALSE]      \* auxiliary: a call numbers labels again

\* A call made by c.  Its prologue seeds RND through the first register.
Call(lines, c) ==
  [lines |-> lines, operands |-> <<>>, status |-> "compiling",
   branch_num |-> c.branch_num, inp_branch_num |-> 0,
   free_reg_arr |-> Registers,      \* the registers whose flag is set
   var_reg_table |-> <<>>,          \* the chains that are not empty
   holds |-> [r \in Registers |-> JUNK],    \* auxiliary: each register's value
   written |-> IF \E i \in DOMAIN lines : lines[i].has_rnd THEN {0} ELSE {},
   kept |-> {},       \* auxiliary: registers given to variables, or lost
   exposed |-> {},    \* auxiliary: variables whose register was freed or shared
   num_len |-> c.num_len, num_rnd_branches |-> c.num_rnd_branches,
   string_eq_branch_num |-> c.string_eq_branch_num,
   assembly_file |-> c.assembly_file, repeats |-> c.repeats]

\* The caller c goes on, with the statics and the assembly the callee left.
Resumed(c, callee) ==
  [c EXCEPT !.num_len = callee.num_len, !.num_rnd_branches = callee.num_rnd_branches,
            !.string_eq_branch_num = callee.string_eq_branch_num,
            !.assembly_file = callee.assembly_file, !.repeats = callee.repeats]

Init ==
  /\ \E program \in Programs : compiler = Call(program, Outermost)
  /\ callers = <<>>
  /\ computed = [safe |-> FALSE, wanted |-> JUNK, got |-> JUNK]

\* Nothing happens to a compiler that has stopped.
Compiling(c) == c.status = "compiling"
Stop(c, status) == IF Compiling(c) THEN [c EXCEPT !.status = status] ELSE c
Fail(c) == Stop(c, "failed")
Undefined(c) == Stop(c, "undefined")

(***************************************************************************)
(* The symbol table, as SymbolTable has it.  A lookup loses the entries it *)
(* walks over.                                                             *)
(***************************************************************************)
ChainOf(table, text) == IF Hash(text) \in DOMAIN table THEN table[Hash(text)] ELSE <<>>
EntryOf(table, text) == SelectInSeq(ChainOf(table, text), LAMBDA e : e.symbol = text)
Address(c, v) ==
  LET i == EntryOf(c.var_reg_table, <<v>>)
  IN  IF i = 0 THEN ABSENT ELSE ChainOf(c.var_reg_table, <<v>>)[i].address

AfterLookup(table, text) ==
  LET chain == ChainOf(table, text)
      stop  == IF EntryOf(table, text) = 0 THEN Len(chain) ELSE EntryOf(table, text)
  IN  IF chain = <<>> THEN table
      ELSE [table EXCEPT ![Hash(text)] = SubSeq(chain, stop, Len(chain))]
AfterInsert(table, text, reg) ==
  [slot \in DOMAIN table \cup {Hash(text)} |->
     IF slot = Hash(text)
       THEN Append(ChainOf(table, text), [symbol |-> text, address |-> reg])
       ELSE table[slot]]

Lookup(c, text) == [c EXCEPT !.var_reg_table = AfterLookup(@, text)]
Entries(c) == UNION {ToSet(c.var_reg_table[slot]) : slot \in DOMAIN c.var_reg_table}
VariablesIn(c, registers) ==
  {e.symbol[1] : e \in {e \in Entries(c) : e.address \in registers}}

(***************************************************************************)
(* Registers.  Without a free one, free_reg_arr[-1] is set or "r-1" is     *)
(* written.                                                                *)
(***************************************************************************)
first_free_reg(c) == IF c.free_reg_arr = {} THEN -1 ELSE Min(c.free_reg_arr)

Take(c, r) == [c EXCEPT !.free_reg_arr = @ \ {r}]

\* A mistake the checks must notice: any number is a register.
ReleaseAny(c, r) ==
  [c EXCEPT !.free_reg_arr = @ \cup {r}, !.exposed = @ \cup VariablesIn(c, {r})]

Release(c, r) ==
  IF Compiling(c) /\ r \in Registers
    THEN [c EXCEPT !.free_reg_arr = @ \cup {r}, !.exposed = @ \cup VariablesIn(c, {r})]
    ELSE Undefined(c)
Write(c, r, value) == [c EXCEPT !.holds[r] = value, !.written = @ \cup {r}]

\* A value goes to a free register.
Scratch(c, value) ==
  IF Compiling(c) /\ c.free_reg_arr # {} THEN Write(c, first_free_reg(c), value)
                                         ELSE Undefined(c)
ScratchTaken(c, value) == Take(Scratch(c, value), first_free_reg(c))

(***************************************************************************)
(* Labels and branches; a bare label lacks the colon, and so is none.      *)
(***************************************************************************)
Emit(c, lines) == [c EXCEPT !.assembly_file = @ \o lines]
Label(family, n) == [op |-> "label", family |-> family, n |-> n]
Bare(family, n) == [op |-> "bare", family |-> family, n |-> n]
Branch(family, n) == [op |-> "branch", family |-> family, n |-> n]

(***************************************************************************)
(* Strings                                                                 *)
(***************************************************************************)
\* One register collects the characters and is stored through another.
store_string_literal_in_memory(c, literal) ==
  IF literal # "literal" THEN Fail(c)
  ELSE Release(Scratch(ScratchTaken(c, JUNK), JUNK), first_free_reg(c))

(***************************************************************************)
(* eval_arithmetic: a bracketed expression from left to right, in which    *)
(* every part is looked up before it is taken apart.                       *)
(***************************************************************************)
Constant(token) == [is_reg |-> FALSE, n |-> NumberOf[token], token |-> token]
Operator(token) == [is_reg |-> FALSE, n |-> 0, token |-> token]
Reg(r) == [is_reg |-> TRUE, n |-> r, token |-> ""]
ValueOf(c, operand) == IF operand.is_reg THEN c.holds[operand.n] ELSE <<operand.token>>
PushOperand(c, operand) == [c EXCEPT !.operands = Append(@, operand)]
LastOperand(c) == Last(c.operands)

\* What the instruction computes.  Where the assembler wants a register, it
\* takes a constant for one.
Compound(c, left, o, right) ==
  IF \/ JUNK \in {ValueOf(c, left), ValueOf(c, right)}
     \/ ~left.is_reg
     \/ o = "*" /\ ~right.is_reg
    THEN JUNK
    ELSE <<"(">> \o ValueOf(c, left) \o <<o>> \o ValueOf(c, right) \o <<")">>

\* The part of the bracketed expression b that starts at i.
OpenIn(b, i, j) ==
  Cardinality({k \in i .. j : b[k] = "("}) - Cardinality({k \in i .. j : b[k] = ")"})
PartAt(b, i) ==
  SubSeq(b, i, CHOOSE j \in i .. Len(b) :
                 OpenIn(b, i, j) = 0 /\ \A k \in i .. j - 1 : OpenIn(b, i, k) # 0)

EvalVariable(c, token) ==
  IF Address(c, token) = ABSENT THEN Fail(c)
  ELSE PushOperand(Lookup(c, <<token>>), Reg(Address(c, token)))

FindString(c, s) ==
  IF s \notin StringVariables   THEN store_string_literal_in_memory(c, s)
  ELSE IF Address(c, s) = ABSENT THEN Fail(c)
  ELSE Lookup(c, <<s>>)

\* The counting loop has a bare label.
CountLength(c, length, k) ==
  PushOperand(
    Emit(Release([Scratch(ScratchTaken(c, JUNK), JUNK) EXCEPT !.num_len = @ + 1], length),
         <<Branch("LEN", k), Bare("LEN", k + 1), Label("LEN", k), Branch("LEN", k + 1)>>),
    Reg(length))

CountFound(c) == CountLength(c, first_free_reg(c), 2 * c.num_len)
EvalLen(c, token) == CountFound(FindString(Lookup(c, <<token>>), ArgumentOf[token]))

\* The first branch names a label with a colon, which no label's name has.
EvalRnd(c) ==
  LET k == 2 * c.num_rnd_branches
  IN  PushOperand(
        Emit([Scratch(Lookup(c, <<RND>>), JUNK) EXCEPT !.num_rnd_branches = @ + 1],
             <<Branch("RND:", k), Label("RND", k + 1), Label("RND", k), Branch("RND", k + 1)>>),
        Reg(first_free_reg(c)))

\* 0 is known for a constant only at the end of a line.
EvalLeaf(c, token, ends_line) ==
  IF token \in DOMAIN NumberOf
    THEN IF NumberOf[token] = 0 /\ ~ends_line THEN Fail(c) ELSE PushOperand(c, Constant(token))
  ELSE IF token \in DOMAIN ArgumentOf THEN EvalLen(c, token)
  ELSE IF token = RND                 THEN EvalRnd(c)
  ELSE EvalVariable(c, token)

\* A mistake the checks must notice: the left operand is not kept.
ForgetLeft(c) == c

\* The left operand's register is busy while the right one is computed.
KeepLeft(c) == IF LastOperand(c).is_reg THEN Take(c, LastOperand(c).n) ELSE c

\* A mistake the checks must notice: the right operand's register is freed, too.
FreeBothOperands(c, left, right) ==
  IF right.is_reg THEN [Release(c, left.n) EXCEPT !.free_reg_arr = @ \cup {right.n}]
                  ELSE Release(c, left.n)

\* The left operand's register is free again, be it a scratch register, a
\* variable's, or the one with a constant's number.
FreeOperands(c, left, right) == Release(c, left.n)

\* A mistake the checks must notice: the result's register stays busy.
KeepResult(c, r) == Take(c, r)

FreeResult(c, r) == Release(c, r)

Combine(c) ==
  LET n      == Len(c.operands)
      left   == c.operands[n - 2]
      right  == c.operands[n]
      result == first_free_reg(c)
      value  == Compound(c, left, c.operands[n - 1].token, right)
  IN  [FreeResult(FreeOperands(ScratchTaken(c, value), left, right), result) EXCEPT
        !.operands = Append(SubSeq(@, 1, n - 3), Reg(result))]

EvalToken(c, b, i, ends_line) ==
  IF ~Compiling(c) THEN c
  ELSE CASE b[i] = "("         -> Lookup(c, PartAt(b, i))
         [] b[i] = ")"         -> Combine(c)
         [] b[i] \in OPERATORS -> PushOperand(KeepLeft(c), Operator(b[i]))
         [] OTHER              -> EvalLeaf(c, b[i], ends_line /\ Len(b) = 1)

eval_arithmetic(c, b, ends_line) ==
  LET after[i \in 0 .. Len(b)] ==
        IF i = 0 THEN c ELSE EvalToken(after[i - 1], b, i, ends_line)
  IN  after[Len(b)]

EvalBracketed(c, b, ends_line) ==
  IF b = REJECTED THEN Fail(c) ELSE eval_arithmetic(c, b, ends_line)

\* As every caller does: shunting_yard, then eval_arithmetic.
Eval(c, tokens, ends_line) ==
  IF Compiling(c) THEN EvalBracketed(c, shunting_yard(tokens), ends_line) ELSE c

(***************************************************************************)
(* The lines                                                               *)
(***************************************************************************)
line == Head(compiler.lines)
Reading(kind) == Compiling(compiler) /\ compiler.lines # <<>> /\ line.kind = kind

\* Between lines only the variables' own values are of interest.
EndLine(c) ==
  [c EXCEPT !.lines = Tail(@), !.operands = <<>>,
            !.holds = [r \in Registers |-> IF Len(@[r]) = 1 THEN @[r] ELSE JUNK]]

\* The register of v, which is given one if it has none.
Declare(c, v) ==
  LET looked == Lookup(c, <<v>>)
      r      == first_free_reg(c)
  IN  IF Address(c, v) # ABSENT THEN looked
      ELSE IF r = -1            THEN Undefined(c)
      ELSE [Take(looked, r) EXCEPT
             !.var_reg_table = AfterInsert(@, <<v>>, r),
             !.kept = @ \cup {r}, !.exposed = @ \ {v}]

\* v's register r gets its value, and what held the old one is stale.
Assign(c, v, r) ==
  LET stale == [q \in Registers |-> IF c.holds[q] = <<v>> THEN JUNK ELSE c.holds[q]]
  IN  IF ~Compiling(c) THEN c
      ELSE Write([c EXCEPT !.holds = stale,
                           !.exposed = @ \cup (VariablesIn(c, {r}) \ {v})], r, <<v>>)

\* Of such a line the value must be right: its variables still hold theirs and
\* come once, only that of the first operand may be in a free register, and no
\* constant stands where the assembler wants a register.  b is the bracketed line.
IsOperand(token) == token \notin OPERATORS \cup {"(", ")"}
IsVariable(token) ==
  IsOperand(token) /\ token \notin DOMAIN NumberOf \cup DOMAIN ArgumentOf \cup {RND}
HasItsValue(c, v) ==
  IsVariable(v) /\ Address(c, v) # ABSENT /\ c.holds[Address(c, v)] = <<v>>
ReadableConstant(b, i) == i = 1 \/ b[i - 1] \in {"+", "-"}
Safe(c, b) ==
  \A i \in {i \in DOMAIN b : IsOperand(b[i])} :
    IF b[i] \in DOMAIN NumberOf
      THEN ReadableConstant(b, i)
      ELSE /\ HasItsValue(c, b[i])
           /\ \A j \in DOMAIN b : b[j] = b[i] => j = i
           /\ Address(c, b[i]) \in c.free_reg_arr => \A j \in 1 .. i - 1 : ~IsOperand(b[j])

Compute(tokens, c) ==
  \E b \in {shunting_yard(tokens)} :
    computed' = [safe   |-> Compiling(c) /\ Safe(compiler, b),
                 wanted |-> b,
                 got    |-> IF Compiling(c) THEN ValueOf(c, LastOperand(c)) ELSE JUNK]

\* The register is looked up before the right side is computed.
Declared == Declare(compiler, line.variable)
Target == Address(Declared, line.variable)

LetNumber ==
  /\ Reading("let")
  /\ \E c \in {Eval(Declared, line.left, TRUE)} :
       /\ compiler' = EndLine(Assign(c, line.variable, Target))
       /\ Compute(line.left, c)
  /\ UNCHANGED callers

LetString ==
  /\ Reading("let$")
  /\ compiler' =
       EndLine(Assign(store_string_literal_in_memory(Declared, line.left[1]),
                      line.variable, Target))
  /\ UNCHANGED <<callers, computed>>

\* A constant is printed from a free register.
PrintNumber ==
  /\ Reading("print")
  /\ \E c \in {Eval(compiler, line.left, FALSE)} :
       /\ compiler' = EndLine(IF Compiling(c) /\ ~LastOperand(c).is_reg
                                THEN Scratch(c, JUNK) ELSE c)
       /\ Compute(line.left, c)
  /\ UNCHANGED callers

PrintString ==
  /\ Reading("print$")
  /\ compiler' = EndLine(IF line.left[1] \in StringVariables
                           THEN EvalVariable(compiler, line.left[1])
                           ELSE store_string_literal_in_memory(compiler, line.left[1]))
  /\ UNCHANGED <<callers, computed>>

InputNumber ==
  /\ Reading("input")
  /\ compiler' = EndLine(Assign(Declared, line.variable, Target))
  /\ UNCHANGED <<callers, computed>>

\* A free register looks for the end of the string.
InputString ==
  /\ Reading("input$")
  /\ LET k == 2 * compiler.inp_branch_num
     IN  compiler' =
           EndLine(
             Emit([Scratch(Assign(Declared, line.variable, Target), JUNK) EXCEPT
                    !.inp_branch_num = @ + 1, !.repeats = @ \/ callers # <<>>],
                  <<Branch("INP", k), Label("INP", k + 1), Label("INP", k),
                    Branch("INP", k + 1)>>))
  /\ UNCHANGED <<callers, computed>>

\* RETURN loads the address it goes back to.
Return ==
  /\ Reading("return")
  /\ compiler' = EndLine(Scratch(compiler, JUNK))
  /\ UNCHANGED <<callers, computed>>

\* Comments, labels, jumps and everything else.
CopyLine ==
  /\ Reading("text")
  /\ compiler' = EndLine(compiler)
  /\ UNCHANGED <<callers, computed>>

(***************************************************************************)
(* eval_conditional: the condition, then the command.                      *)
(***************************************************************************)
\* What the caller does when it has the command's code.
Ending(branches, strings, scratch) ==
  [branches |-> branches, strings |-> strings, scratch |-> scratch]

\* The command is compiled as a program of its own, with the caller's number.
CompileCommand(c, ending) ==
  /\ callers' = Append(callers, [call |-> EndLine(c), ending |-> ending])
  /\ compiler' = Call(line.command, c)
  /\ UNCHANGED computed

StopInCondition(c) ==
  /\ ~Compiling(c)
  /\ compiler' = EndLine(c)
  /\ UNCHANGED <<callers, computed>>

\* The left side's register is busy while the right side is computed.
CompareTo(c, left) ==
  IF left \notin Registers THEN Undefined(c)
  ELSE Release(Eval(Take(c, left), line.right, FALSE), left)
CompareLeft(c) == IF Compiling(c) THEN CompareTo(c, LastOperand(c).n) ELSE c
Compared == CompareLeft(Eval(compiler, line.left, FALSE))

IfNumbers ==
  /\ Reading("if")
  /\ \E c \in {Compared} :
       LET b == c.branch_num
       IN  \/ StopInCondition(c)
           \/ /\ Compiling(c)
              /\ CompileCommand(
                   Emit([c EXCEPT !.repeats = @ \/ callers # <<>>],
                        <<Branch("L", b), Branch("L", b + 1), Label("L", b)>>),
                   Ending(2, 0, {}))

\* A literal gets a register, which nothing loads and nothing frees.
StringOperand(c, s) ==
  IF ~Compiling(c)             THEN c
  ELSE IF s \in StringVariables THEN EvalVariable(c, s)
  ELSE IF c.free_reg_arr = {}   THEN Undefined(c)
  ELSE PushOperand([Take(c, first_free_reg(c)) EXCEPT !.kept = @ \cup {first_free_reg(c)}],
                   Reg(first_free_reg(c)))

\* A counter and a character of each string.
TakeScratch(c) == PushOperand(ScratchTaken(c, JUNK), Reg(first_free_reg(c)))

StringsCompared ==
  IF {line.left[1], line.right[1]} \cap StringVariables = {} THEN Fail(compiler)
  ELSE TakeScratch(TakeScratch(TakeScratch(
         StringOperand(StringOperand(compiler, line.left[1]), line.right[1]))))

InString == \E i \in DOMAIN callers : callers[i].ending.strings = 1

IfStrings ==
  /\ Reading("if$")
  /\ \E c \in {StringsCompared} :
       LET k == 4 * c.string_eq_branch_num
       IN  \/ StopInCondition(c)
           \/ /\ Compiling(c)
              /\ CompileCommand(
                   Emit([c EXCEPT !.repeats = @ \/ InString],
                        <<Branch("STREQ", k), Bare("STREQ", k + 1), Label("STREQ", k),
                          Branch("STREQ", k + 2), Branch("STREQ", k + 1),
                          Branch("STREQ", k + 3), Label("STREQ", k + 2),
                          Branch("STREQ", k + 3)>>),
                   Ending(0, 1, {c.operands[i].n : i \in 3 .. 5}))

\* A mistake the checks must notice: the next IF shares a label with this one.
CountOnce(branch_num, branches) == branch_num + branches \div 2

NextBranch(branch_num, branches) == branch_num + branches

\* The label behind the command; strings take the number its own IFs left.
EndLabel(c, ending) ==
  IF ending.strings = 1 THEN Label("STREQ", 4 * c.string_eq_branch_num + 3)
                        ELSE Label("L", c.branch_num + 1)

\* The command's code is copied; its registers were the caller's as well.
EndIf ==
  /\ Compiling(compiler)
  /\ compiler.lines = <<>>
  /\ callers # <<>>
  /\ LET caller == Last(callers).call
         ending == Last(callers).ending
         c == Resumed(caller, compiler)
     IN  compiler' =
           [Emit(c, <<EndLabel(c, ending)>>) EXCEPT
             !.branch_num = NextBranch(@, ending.branches),
             !.string_eq_branch_num = @ + ending.strings,
             !.free_reg_arr = @ \cup ending.scratch,
             !.holds = [r \in Registers |-> IF r \in compiler.written THEN JUNK ELSE @[r]],
             !.written = @ \cup compiler.written,
             !.exposed = @ \cup VariablesIn(caller, compiler.written)]
  /\ callers' = Front(callers)
  /\ UNCHANGED computed

Finish ==
  /\ Compiling(compiler)
  /\ compiler.lines = <<>>
  /\ callers = <<>>
  /\ compiler' = [compiler EXCEPT !.status = "done"]
  /\ UNCHANGED <<callers, computed>>

Next ==
  \/ LetNumber
  \/ LetString
  \/ PrintNumber
  \/ PrintString
  \/ InputNumber
  \/ InputString
  \/ Return
  \/ CopyLine
  \/ IfNumbers
  \/ IfStrings
  \/ EndIf
  \/ Finish

Spec == Init /\ [][Next]_vars

(***************************************************************************)
(* Properties                                                              *)
(***************************************************************************)
TypeOK ==
  /\ compiler.status \in {"compiling", "done", "failed", "undefined"}
  /\ compiler.free_reg_arr \subseteq Registers
  /\ \A e \in Entries(compiler) : e.address \in Registers
  /\ compiler.written \cup compiler.kept \subseteq Registers
  /\ DOMAIN compiler.holds = Registers
  /\ \A i \in DOMAIN callers : callers[i].ending.scratch \subseteq Registers

InMain == callers = <<>> /\ compiler.status \in {"compiling", "done"}

\* A variable's register is busy and holds the variable's last value, through
\* every line compiled since, unless the code itself has freed it, as the left
\* operand of an operation or of a comparison, or an IF's command has used it.
VariablesKeepRegisters ==
  InMain =>
    \A v \in VariablesIn(compiler, Registers) \ compiler.exposed :
      /\ Address(compiler, v) \notin compiler.free_reg_arr
      /\ compiler.holds[Address(compiler, v)] = <<v>>

\* A line whose variables hold their values, and that the assembler can read,
\* computes what its bracketed expression says: no intermediate result is
\* overwritten while it is needed, although most registers are free by then.
SafeExpressionsComputed == computed.safe => computed.got = computed.wanted

\* Between lines, no register is busy but those given to variables and those
\* that a comparison with a string literal loses.
ScratchReleased ==
  Compiling(compiler) => Registers \ compiler.free_reg_arr \subseteq compiler.kept

\* In the finished assembly every branch to a generated label has one label to
\* go to, whatever was nested in what, unless a call numbered its labels again.
\* The branches whose label is misspelt, and only those, have none: the first
\* of an RND names a colon, and one label of a LEN and of an IF lacks it.
Misspelt(b) ==
  \/ b.family = "RND:"
  \/ b.family = "LEN" /\ b.n % 2 = 1
  \/ b.family = "STREQ" /\ b.n % 4 = 1
LabelsFor(b) ==
  {i \in DOMAIN compiler.assembly_file : compiler.assembly_file[i] = [b EXCEPT !.op = "label"]}
BranchesFindOneLabel ==
  compiler.status = "done" /\ ~compiler.repeats =>
    \A b \in {l \in ToSet(compiler.assembly_file) : l.op = "branch"} :
      Cardinality(LabelsFor(b)) = IF Misspelt(b) THEN 0 ELSE 1
==============================================================================
