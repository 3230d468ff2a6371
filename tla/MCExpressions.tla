----------------------------- MODULE MCExpressions -----------------------------
(***************************************************************************)
(* Every expression of a few operands with up to two pairs of brackets,    *)
(* and how arithmetic reads it: products first, equal operators from the   *)
(* left.                                                                   *)
(***************************************************************************)
EXTENDS Expressions

CONSTANT Operands      \* in the order in which they come

VARIABLE expression

Pairs(n) == {pair \in (1 .. n) \X (1 .. n) : pair[1] <= pair[2]}
Compatible(p, q) ==
  \/ p[2] < q[1]
  \/ q[2] < p[1]
  \/ p[1] <= q[1] /\ q[2] <= p[2]
  \/ q[1] <= p[1] /\ p[2] <= q[2]

\* The operands and operators in turn, in brackets from p[1] to p[2] for each p.
Written(operators, pairs) ==
  LET n == Len(operators) + 1
      Times(token, those) == [k \in 1 .. Cardinality(those) |-> token]
      Item(i) == Times("(", {p \in pairs : p[1] = i}) \o <<Operands[i]>>
                   \o Times(")", {p \in pairs : p[2] = i})
  IN  FlattenSeq([i \in 1 .. n |->
                    Item(i) \o (IF i < n THEN <<operators[i]>> ELSE <<>>)])

WrittenOf(n) ==
  {Written(operators, {pq[1], pq[2]}) :
     operators \in [1 .. n - 1 -> OPERATORS],
     pq \in {pq \in Pairs(n) \X Pairs(n) : Compatible(pq[1], pq[2])}}
AllWritten == UNION {WrittenOf(n) : n \in 1 .. Len(Operands)}

(***************************************************************************)
(* How an expression is read                                               *)
(***************************************************************************)
Depth(e, i) ==
  Cardinality({k \in 1 .. i : e[k] = "("}) - Cardinality({k \in 1 .. i : e[k] = ")"})
OperatorsAt(e, depth, operators) ==
  {i \in DOMAIN e : e[i] \in operators /\ Depth(e, i) = depth}

\* The operator that is computed last: the rightmost sum, or else product,
\* outside all brackets.
LastComputed(e) ==
  LET sums == OperatorsAt(e, 0, {"+", "-"})
  IN  Max(IF sums # {} THEN sums ELSE OperatorsAt(e, 0, {"*"}))

RECURSIVE Grouped(_)
Grouped(e) ==
  CASE Len(e) = 1 -> e
    [] Len(e) > 1 /\ OperatorsAt(e, 0, OPERATORS) = {} -> Grouped(SubSeq(e, 2, Len(e) - 1))
    [] OTHER ->
         LET i == LastComputed(e)
         IN  <<"(">> \o Grouped(SubSeq(e, 1, i - 1)) \o <<e[i]>>
               \o Grouped(SubSeq(e, i + 1, Len(e))) \o <<")">>

\* The operator after i between the same brackets, if there is one.
Following(e, i) ==
  {j \in i + 1 .. Len(e) :
     /\ j \in OperatorsAt(e, Depth(e, i), OPERATORS)
     /\ \A k \in i + 1 .. j - 1 :
          Depth(e, k) >= Depth(e, i) /\ k \notin OperatorsAt(e, Depth(e, i), OPERATORS)}

\* A sum whose right operand is a product of three or more.
LongProductInSum(e) ==
  \E i \in DOMAIN e : e[i] \in {"+", "-"} /\
    \E j \in Following(e, i) : e[j] = "*" /\ \E k \in Following(e, j) : e[k] = "*"

(***************************************************************************)
(* Properties                                                              *)
(***************************************************************************)
\* shunting_yard groups an expression as arithmetic reads it, whatever is
\* bracketed, unless a sum adds a product of three or more: the second `*'
\* then takes the whole sum for its left operand.
GroupsByPrecedence ==
  (shunting_yard(expression) = Grouped(expression)) <=> ~LongProductInSum(expression)
==============================================================================
