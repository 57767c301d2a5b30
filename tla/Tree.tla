-------------------------------- MODULE Tree --------------------------------
(***************************************************************************)
(* The nodes of the syntax tree (ast_node_t, src/include/lang.h) that the  *)
(* validator and the generator walk, by value: a list of nodes linked by   *)
(* next is a sequence.  name is the identifier, the declared name, the     *)
(* constant, the operator or the keyword; info is the type of a            *)
(* declaration or a constant, and the name of a struct.                    *)
(***************************************************************************)

EXTENDS Naturals, Sequences, SequencesExt

Node(type, name, info, operands, args, body) ==
  [type |-> type, name |-> name, info |-> info,
   operands |-> operands, args |-> args, body |-> body]

Root(body)                 == Node("ROOT", "", "", <<>>, <<>>, body)
Identifier(x)              == Node("IDENTIFIER", x, "", <<>>, <<>>, <<>>)
Constant(c, type)          == Node("CONSTANT", c, type, <<>>, <<>>, <<>>)
Array(args)                == Node("ARRAY", "", "", <<>>, args, <<>>)
ArrayAccess(x, args)       == Node("ARRAY_ACCESS", x, "", <<>>, args, <<>>)
Call(f, args)              == Node("FUNCTION_CALL", f, "", <<>>, args, <<>>)
Variable(type, x)          == Node("DECL_VARIABLE", x, type, <<>>, <<>>, <<>>)
Function(type, f, args, body) == Node("DECL_FUNCTION", f, type, <<>>, args, body)
Keyword(k, args, body)     == Node("KEYWORD", k, "", <<>>, args, body)
Struct(s, body)            == Node("KEYWORD", "struct", s, <<>>, <<>>, body)
Unary(op, l)               == Node("EXPRESSION", op, "", <<l>>, <<>>, <<>>)
Binary(l, op, r)           == Node("EXPRESSION", op, "", <<l, r>>, <<>>, <<>>)

\* ast_node_t.id, which is apart from the names of declarations, operators and
\* constants; of a keyword only a struct has one.
IdOf(node) ==
  IF node.type \in {"IDENTIFIER", "FUNCTION_CALL", "ARRAY_ACCESS"} THEN node.name
  ELSE IF node.type = "KEYWORD" THEN node.info ELSE ""

\* The operators with one operand.
UnaryOperators == {"++", "--", "!", "~"}

IsExpression(node, ops) == node.type = "EXPRESSION" /\ node.name \in ops

IsNodeOver(nodes, node) ==
  /\ node \in [type : STRING, name : STRING, info : STRING,
               operands : Seq(nodes), args : Seq(nodes), body : Seq(nodes)]
  /\ node.type = "EXPRESSION" => Len(node.operands) \in {1, 2}
  /\ IsExpression(node, {"."}) => Len(node.operands) = 2

\* The nodes below a node.
Children(node) == ToSet(node.operands) \cup ToSet(node.args) \cup ToSet(node.body)

\* A node is higher than those below it: a tree does not hang from itself.
IsHeight(nodes, height) ==
  /\ height \in [nodes -> Nat]
  /\ \A node \in nodes : \A child \in Children(node) : height[child] < height[node]

FiniteTrees(nodes) == \E height \in [nodes -> Nat] : IsHeight(nodes, height)

=============================================================================
