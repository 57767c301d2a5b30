------------------------------- MODULE SqfText -------------------------------
(***************************************************************************)
(* What the generator promises: the SQF text of a tree, defined on the     *)
(* tree alone, and how the text in the buffer compares with it.            *)
(***************************************************************************)

EXTENDS Generator

\* A node SQF has no text for ends the compiler.
Unwritable == "unwritable"

ASSUME UnwritableAssumption == Unwritable \notin DOMAIN Width

\* A parenthesis in the bytes of a pointer is a token of its own kind, to be told
\* from the one an assignment to a member leaves open.
ASSUME ParenthesisAssumption == \A g \in Garbage : \A i \in DOMAIN g : g[i] # "("

IsDeclaration(node) == node.type \in {"DECL_VARIABLE", "DECL_FUNCTION"}

Levels(depth) == IF depth < 0 THEN <<>> ELSE [i \in 1 .. depth |-> Level]

\* One statement on each line, at the depth of its braces.
StatementsText(text, nodes, depth) ==
  IF nodes = <<>> THEN <<>>
  ELSE FlattenSeq([i \in DOMAIN nodes |->
                <<"\n">> \o Levels(depth) \o text[nodes[i]][depth] \o <<";">>])
         \o <<"\n">> \o Levels(depth - 1)

ListText(text, nodes, depth) ==
  Separated([i \in DOMAIN nodes |-> text[nodes[i]][depth]], <<", ">>)

NameText(node) == IF IsDeclaration(node) THEN <<node.name>> ELSE <<>>

ParamsText(nodes) ==
  Separated([i \in DOMAIN nodes |-> <<"\"", "_">> \o NameText(nodes[i]) \o <<"\"">>], <<", ">>)

InfixText(text, node, depth) ==
  text[node.operands[1]][depth] \o <<" ", node.name, " ">> \o text[node.operands[2]][depth]

\* The text of an expression, if it is written at all: no access to a member, no
\* operator in, and an assignment only to an expression.
ExpressionText(text, node, depth) ==
  CASE node.name \in {".", "in"} -> <<>>
    [] node.name \in UnaryOperators -> <<node.name>> \o text[node.operands[1]][depth]
    [] node.name = "=" ->
         IF node.operands[1].type # "EXPRESSION" THEN <<>>
         ELSE IF node.operands[1].name = "." THEN <<"(">>
         ELSE InfixText(text, node, depth)
    [] OTHER -> <<"(">> \o InfixText(text, node, depth) \o <<")">>

\* The text of a node at an indent, from the text of the nodes below it.
NodeText(text, node, depth) ==
  CASE node.type = "ROOT" -> StatementsText(text, node.body, depth + 1)
    [] node.type = "IDENTIFIER" -> <<"_", node.name>>
    [] node.type = "CONSTANT" ->
         IF node.info = "string" THEN <<"\"", node.name, "\"">> ELSE <<node.name>>
    [] node.type = "DECL_VARIABLE" -> <<"private ", "_", node.name>>
    [] node.type = "DECL_FUNCTION" ->
         <<"private ", "_", node.name, " = ", "{", "\n">> \o Levels(depth + 1)
           \o <<"params ", "[">> \o ParamsText(node.args) \o <<"]", ";">>
           \o StatementsText(text, node.body, depth + 1) \o <<"}">>
    [] node.type = "FUNCTION_CALL" ->
         <<"[">> \o ListText(text, node.args, depth) \o <<"]", " call ", "_", node.name>>
    [] node.type \in {"ARRAY", "ARRAY_ACCESS"} -> <<Unwritable>>
    [] node.type = "KEYWORD" ->
         IF node.name = "return" /\ node.args # <<>> THEN text[node.args[1]][depth] ELSE <<>>
    [] node.type = "EXPRESSION" -> ExpressionText(text, node, depth)
    [] OTHER -> <<>>

\* The text of each node at each indent; a root is met at -1.
Text[node \in Walked] == [depth \in Int |-> NodeText(Text, node, depth)]
ProgramText == Text[program][-1]

\* The text of the program up to what cannot be written.
Writable(tokens) == SelectInSeq(tokens, LAMBDA t : t = Unwritable)

Garbled == {i \in stray : out[i] # "("}
OutWithoutGarbage == Without(out, Garbled)

\* The buffer holds the text of the program when the generator is done: every
\* statement in its order and place, and of each what SQF has a text for.  The
\* generator ends with an error in front of the first array literal or subscript
\* it meets, and only there.
WritesText ==
  LET text == ProgramText IN
  /\ status = "done" => OutWithoutGarbage = text
  /\ status = "exit" => Len(OutWithoutGarbage) + 1 = Writable(text)
  /\ status # "running" => IsPrefix(OutWithoutGarbage, text)

\* The buffer is overrun by the programs whose text, with the NUL behind it, is
\* longer than the buffer, and by no other.
OverrunsIffTooLong ==
  LET text == ProgramText
      end == IF Writable(text) = 0 THEN Len(text) ELSE Writable(text) - 1
      long == WidthOf(SubSeq(text, 1, end)) >= BufSize
  IN /\ status \in {"done", "exit"} => ~long
     /\ status = "overrun" /\ Garbled = {} => long

=============================================================================
