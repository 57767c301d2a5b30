------------------------------ MODULE NameRules ------------------------------
(***************************************************************************)
(* The rules of names the validator decides (src/src/semanter.c), over the *)
(* trees alone: a set of visible declarations grows from node to node, and *)
(* there are neither scopes nor searches.  The parameter nodes is the set  *)
(* of the nodes of the trees.                                              *)
(***************************************************************************)

EXTENDS Tree, SequencesExt

Declaration == [name : STRING, type : STRING, isFunction : BOOLEAN]

DeclarationOf(node) ==
  [name |-> node.name, type |-> node.info, isFunction |-> node.type = "DECL_FUNCTION"]

NamesOf(decls) == {d.name : d \in decls}

\* A unary operator has one operand.
OperandsOf(node) == IF node.name \in UnaryOperators THEN <<node.operands[1]>> ELSE node.operands

\* What is visible behind a node and was not before it, from what it is of the
\* nodes below: what is declared in a construct is not visible behind it.
DeclaredAt(declared, node) ==
  CASE node.type \in {"DECL_VARIABLE", "DECL_FUNCTION"} -> {DeclarationOf(node)}
    [] node.type = "EXPRESSION" /\ node.name # "." -> UNION {declared[n] : n \in ToSet(OperandsOf(node))}
    [] OTHER -> {}

Declared(nodes) ==
  LET declared[node \in nodes] == DeclaredAt(declared, node) IN declared

\* l . r, the left side of which is of type: a further access on the right goes
\* on from the field; one on the left, as in a.b.c, has no name and is rejected.
FieldsFitAt(fields, structs, node, type) ==
  LET r == node.operands[2] IN
  /\ type \in DOMAIN structs
  /\ IF IsExpression(r, {"."})
     THEN LET x == IdOf(r.operands[1])
          IN x \in DOMAIN structs[type] /\ fields[r][structs[type][x]]
     ELSE IdOf(r) \in DOMAIN structs[type]

MemberAccesses(nodes) == {n \in nodes : IsExpression(n, {"."})}

FieldsFit(nodes, structs) ==
  LET fields[node \in MemberAccesses(nodes)] ==
        [type \in STRING |-> FieldsFitAt(fields, structs, node, type)]
  IN fields

\* Each node of a list sees what is declared in front of it.
Together(follows, declared, decls, nodes) ==
  \A i \in DOMAIN nodes :
    follows[nodes[i]][decls \cup UNION {declared[nodes[j]] : j \in 1 .. i - 1}]

\* A name is declared once in all the places it is visible, and before its use,
\* a function inside its own body too.  What is in the arguments of a call, in a
\* subscript and in an array literal breaks no rule.
FollowsAt(follows, declared, fields, node, decls) ==
  CASE node.type = "ROOT" -> Together(follows, declared, decls, node.body)
    [] node.type = "KEYWORD" -> Together(follows, declared, decls, node.args \o node.body)
    [] node.type = "DECL_VARIABLE" -> node.name \notin NamesOf(decls)
    [] node.type = "DECL_FUNCTION" ->
         /\ node.name \notin NamesOf(decls)
         /\ Together(follows, declared, decls \cup {DeclarationOf(node)}, node.args \o node.body)
    [] node.type = "IDENTIFIER" -> node.name \in NamesOf(decls)
    [] node.type = "FUNCTION_CALL" -> \E d \in decls : d.name = node.name /\ d.isFunction
    [] node.type = "EXPRESSION" /\ node.name = "." ->
         \E d \in decls : d.name = IdOf(node.operands[1]) /\ fields[node][d.type]
    [] node.type = "EXPRESSION" /\ node.name # "." ->
         Together(follows, declared, decls, OperandsOf(node))
    [] OTHER -> TRUE

Follows(nodes, structs) ==
  LET follows[node \in nodes] ==
        [decls \in SUBSET Declaration |->
           FollowsAt(follows, Declared(nodes), FieldsFit(nodes, structs), node, decls)]
  IN follows

\* Nothing is visible in front of a program.
Accepts(nodes, prog) == Follows(nodes, prog.structs)[prog.root][{}]

=============================================================================
