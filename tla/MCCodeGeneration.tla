--------------------------- MODULE MCCodeGeneration ---------------------------
(***************************************************************************)
(* Every program of a few lines over two lists of lines, with the code's   *)
(* own hash function.                                                      *)
(***************************************************************************)
EXTENDS CodeGeneration

CONSTANTS Length, Lines, LongLines    \* lines are named by number

MCNumberOf == [t \in {"0", "1", "9"} |-> CASE t = "0" -> 0 [] t = "1" -> 1 [] t = "9" -> 9]
MCArgumentOf == [t \in {"LEN(S$)", "LEN(literal)"} |-> IF t = "LEN(S$)" THEN "S$" ELSE "literal"]

\* The characters of a token; A and j share a bucket.
Characters(t) ==
  CASE t = "A" -> <<65>> [] t = "B" -> <<66>> [] t = "C" -> <<67>> [] t = "j" -> <<106>>
    [] t = "S$" -> <<83, 36>> [] t = "L$" -> <<76, 36>>
    [] t = "(" -> <<40>> [] t = ")" -> <<41>>
    [] t = "+" -> <<43>> [] t = "-" -> <<45>> [] t = "*" -> <<42>>
    [] t = "0" -> <<48>> [] t = "1" -> <<49>> [] t = "9" -> <<57>>
    [] t = RND -> <<82, 78, 68, 40, 57, 41>>
    [] t = "LEN(S$)" -> <<76, 69, 78, 40, 83, 36, 41>>
    [] t = "LEN(literal)" -> <<76, 69, 78, 40, 34, 72, 34, 41>>

\* hash of symbol_table.c: 32 bits, in two halves.
PRIME == 7
TABLE_SIZE == 41
MCHash(text) ==
  LET NextHash(h, c) ==
        LET low == h[2] * PRIME + c
        IN  <<(h[1] * PRIME + low \div 2 ^ 16) % 2 ^ 16, low % 2 ^ 16>>
      h == FoldLeft(NextHash, <<0, 0>>, FlattenSeq([i \in DOMAIN text |-> Characters(text[i])]))
  IN  (h[1] * (2 ^ 16 % TABLE_SIZE) + h[2]) % TABLE_SIZE

BasicLine(kind, variable, left, right, command) ==
  [kind |-> kind, variable |-> variable, left |-> left, right |-> right, command |-> command,
   has_rnd |-> RND \in ToSet(left) \cup ToSet(right)
                 \/ \E i \in DOMAIN command : command[i].has_rnd]
Let(v, tokens) == BasicLine("let", v, tokens, <<>>, <<>>)
PrintN(tokens) == BasicLine("print", "", tokens, <<>>, <<>>)
LetS(v, s) == BasicLine("let$", v, <<s>>, <<>>, <<>>)
PrintS(s) == BasicLine("print$", "", <<s>>, <<>>, <<>>)
Input(v) == BasicLine("input", v, <<>>, <<>>, <<>>)
InputS(v) == BasicLine("input$", v, <<>>, <<>>, <<>>)
If(left, right, command) == BasicLine("if", "", left, right, <<command>>)
IfS(s, t, command) == BasicLine("if$", "", <<s>>, <<t>>, <<command>>)
Text == BasicLine("text", "", <<>>, <<>>, <<>>)

MCLines == <<
  Let("A", <<"1">>),                                        \*  1
  Input("B"),
  Let("A", <<"A", "+", "1">>),
  Let("C", <<"A", "-", "B">>),
  Let("C", <<"(", "A", "+", "B", ")", "*", "C">>),          \*  5
  PrintN(<<"A", "-", "(", "B", "*", "C", ")">>),
  Let("j", <<"B">>),
  Let("B", <<"0">>),
  PrintN(<<"9", "-", "A">>),
  PrintN(<<"1">>),                                           \* 10
  PrintN(<<"A", "-", "B", "*", "A", "+", "1">>),
  LetS("S$", "literal"),
  PrintS("S$"),
  InputS("L$"),
  Let("A", <<"LEN(S$)", "+", "1">>),                        \* 15
  PrintN(<<"A", "+", RND>>),
  If(<<"A">>, <<"1">>, Text),
  If(<<"B", "+", "A">>, <<"A", "*", "B">>, Let("A", <<"1">>)),
  If(<<"1">>, <<"A">>, If(<<"1">>, <<"1">>, Text)),
  IfS("S$", "literal", Text),                               \* 20
  IfS("S$", "L$", If(<<"1">>, <<"1">>, Text)),
  If(<<"1">>, <<"1">>, IfS("literal", "S$", Text)),
  If(<<"1">>, <<"1">>, Let("C", <<"LEN(literal)">>)),
  BasicLine("return", "", <<>>, <<>>, <<>>),
  Text,                                                     \* 25
  PrintS("unclosed"),
  IfS("literal", "literal", Text),
  If(<<"B">>, <<"B", "+", "B">>, InputS("S$")),
  If(<<"9">>, <<"A">>, Text),
  PrintN(<<"A", "-">>),                                      \* 30
  Let("C", <<"B", "-", "(", "A", "+", "B", ")">>),
  Let("A", <<"j">>) >>

Commands(lines) == UNION {ToSet(l.command) : l \in lines}
MCBasicLines ==
  ToSet(MCLines) \cup Commands(ToSet(MCLines)) \cup Commands(Commands(ToSet(MCLines)))

\* All short programs, and longer ones after A and B are declared.
Chosen(numbers) == {MCLines[i] : i \in numbers}
MCPrograms ==
  [1 .. Length -> Chosen(Lines)]
    \cup ({MCLines[1]} \X {MCLines[2]} \X Chosen(Lines) \X Chosen(LongLines)
            \X Chosen(LongLines) \X Chosen(LongLines))
==============================================================================
