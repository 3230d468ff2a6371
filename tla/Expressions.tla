------------------------------ MODULE Expressions ------------------------------
(***************************************************************************)
(* shunting_yard: brackets every operation of an arithmetic expression.    *)
(* An expression is a sequence of tokens; a bracketed one is the sequence  *)
(* <<"(", left..., operator, right..., ")">>, or an operand.               *)
(***************************************************************************)
EXTENDS Integers, SequencesExt

precedence == [o \in {"+", "-", "*"} |-> IF o = "*" THEN 2 ELSE 1]
OPERATORS == DOMAIN precedence

REJECTED == <<>>      \* the compiler exits

Stacks == [operands |-> <<>>, operators |-> <<>>, ok |-> TRUE]
Reject(s) == [s EXCEPT !.ok = FALSE]

\* The last two operands and the last operator become an operand.
Merge(s) ==
  LET n == Len(s.operands)
  IN  IF ~s.ok \/ n < 2 THEN Reject(s)
      ELSE [s EXCEPT
             !.operands = Append(SubSeq(@, 1, n - 2),
                            <<"(">> \o @[n - 1] \o <<Last(s.operators)>> \o @[n] \o <<")">>),
             !.operators = Front(@)]

MergeTimes(s, times) ==
  LET merged[k \in 0 .. times] == IF k = 0 THEN s ELSE Merge(merged[k - 1])
  IN  merged[times]

\* Every operator down to the last open bracket, or the bottom.
MergeOpen(s) ==
  MergeTimes(s, Len(s.operators) - SelectLastInSeq(s.operators, LAMBDA o : o = "("))

Push(s, token) == [s EXCEPT !.operators = Append(@, token)]

CloseBracket(s) ==
  IF Contains(s.operators, "(") THEN [MergeOpen(s) EXCEPT !.operators = Front(@)]
                                ELSE Reject(s)

\* A mistake the checks must notice: equal operators group from the right.
YieldsToStronger(s, o) ==
  /\ s.operators # <<>>
  /\ Last(s.operators) # "("
  /\ precedence[o] < precedence[Last(s.operators)]

\* The operators before `o' come first when the last one binds as tightly.
\* That one is compared once (o2), and decides for all of them.
Yields(s, o) ==
  /\ s.operators # <<>>
  /\ Last(s.operators) # "("
  /\ precedence[o] <= precedence[Last(s.operators)]

ReadOperator(s, o) == Push(IF Yields(s, o) THEN MergeOpen(s) ELSE s, o)

ReadToken(s, token) ==
  IF ~s.ok THEN s
  ELSE CASE token = "("         -> Push(s, token)
         [] token = ")"         -> CloseBracket(s)
         [] token \in OPERATORS -> ReadOperator(s, token)
         [] OTHER               -> [s EXCEPT !.operands = Append(@, <<token>>)]

\* The operators that are left at the end of the line.
EndOfTokens(s) ==
  IF Contains(s.operators, "(") THEN Reject(s) ELSE MergeTimes(s, Len(s.operators))

\* Without an operand the assertion reads an uninitialized pointer: no result.
Bracketed(s) == IF s.ok /\ s.operands # <<>> THEN s.operands[1] ELSE REJECTED

shunting_yard(tokens) ==
  LET after[i \in 0 .. Len(tokens)] ==
        IF i = 0 THEN Stacks ELSE ReadToken(after[i - 1], tokens[i])
  IN  Bracketed(EndOfTokens(after[Len(tokens)]))
==============================================================================
