----------------------------- MODULE ProgramText -----------------------------
(***************************************************************************)
(* The text of a tree, with the punctuation the language asks for: what    *)
(* the statement parser has to read back.                                  *)
(***************************************************************************)

EXTENDS ParserTree

Separated(seqs, separator) ==
  FlattenSeq([i \in DOMAIN seqs |-> IF i = 1 THEN seqs[i] ELSE separator \o seqs[i]])

IsSimple(node) == node.type \notin {"KEYWORD", "DECL_FUNCTION"}

\* A statement that ends with a block or with an expression part, which takes the
\* semicolon itself, has no other semicolon.
RECURSIVE Text(_), Statements(_), FromParts(_, _, _)
Text(node) ==
  LET args == [i \in DOMAIN node.args |-> Text(node.args[i])] IN
  CASE node.type = "FUNCTION_CALL" ->
         node.words \o <<"(">> \o Separated(args, <<",">>) \o <<")">>
    [] node.type = "ARRAY_ACCESS" ->
         node.words \o <<"[">> \o Separated(args, <<",">>) \o <<"]">>
    [] node.type = "ARRAY" -> <<"[">> \o Separated(args, <<",">>) \o <<"]">>
    [] node.type = "DECL_VARIABLE" /\ Len(node.words) = 3 ->
         SubSeq(node.words, 1, 2) \o <<"[", node.words[3], "]">>
    [] node.type = "DECL_FUNCTION" -> node.words \o FromParts(node, FuncDecl, 1)
    [] node.type = "KEYWORD" ->
         <<node.words[1]>> \o FromParts(node, KeywordDecl[node.words[1]], 1)
    [] OTHER -> node.words

Statements(nodes) ==
  FlattenSeq([i \in DOMAIN nodes |->
    Text(nodes[i]) \o IF IsSimple(nodes[i]) THEN <<";">> ELSE <<>>])

\* The parts of a declaration from the arg-th argument on; an expression in
\* front of another one, or at the end, takes a semicolon.
FromParts(node, parts, arg) ==
  IF parts = <<>> THEN <<>>
  ELSE LET rest == Tail(parts) IN
    CASE Head(parts) = "EXPRESSION" ->
           Text(node.args[arg])
             \o (IF rest = <<>> \/ Head(rest) = "EXPRESSION" THEN <<";">> ELSE <<>>)
             \o FromParts(node, rest, arg + 1)
      [] Head(parts) = "EXPRESSIONS" ->
           Separated([i \in DOMAIN node.args |-> Text(node.args[i])], <<",">>)
             \o FromParts(node, rest, arg)
      [] Head(parts) = "BLOCK" -> Statements(node.body) \o FromParts(node, rest, arg)
      [] Head(parts) = "IDENTIFIER" -> <<node.words[2]>> \o FromParts(node, rest, arg)
      [] OTHER -> <<Head(parts)>> \o FromParts(node, rest, arg)

\* The text of a program, a list of statements, is accepted and gives the
\* program back: nesting, order and the parts of every statement.
GivesProgramBack ==
  /\ status \in {"running", "done"}
  /\ status = "done" => Append(Statements(tree), EndOfFile) = tokens

=============================================================================
