------------------------------ MODULE MCGenerator ------------------------------
(* Instances of the generator: programs that follow the rules of names, of few
   statements and every kind of node, and a buffer some of them overrun.      *)

EXTENDS SqfText, NameRules, TLC

X == Identifier("x")
One == Constant("1", "number")
Words == Constant("w", "string")
True == Keyword("true", <<>>, <<>>)

DgenWidth ==
  [t \in {"x", "y", "f", "a", "S", "w", "1", "(", ")", "[", "]", "{", "}", ";", "_", "\"", "\n", " ",
          "+", "=", "!", "?", "."} |-> 1] @@
  [t \in {""} |-> 0] @@ [t \in {"++", "--", ", ", "in", "if"} |-> 2] @@ [t \in {" = "} |-> 3] @@
  [t \in {Level, "true"} |-> 4] @@ [t \in {" call ", "struct", "return"} |-> 6] @@ [t \in {"params "} |-> 7] @@
  [t \in {"private "} |-> 8]

\* Nothing, a byte, and some that look like a bracket and a line.
SomeBytes == {<<>>, <<"?">>, <<"]">>, <<"}", "\n">>}

Sum == Binary(X, "+", One)
Returning(node) == Keyword("return", <<node>>, <<>>)

\* An expression of each kind, and what return, a call and an operator make of it.
Terms == {X, Words, True, Sum, Array(<<One>>), ArrayAccess("x", <<One>>), Binary(X, ".", Identifier("a")),
          Unary("!", X), Binary(X, "in", X), Binary(X, "=", One), Binary(Binary(X, "=", One), "=", X)}
Expressions ==
  Terms \cup {Call("f", <<t>>) : t \in Terms} \cup {Call("f", <<X, t>>) : t \in Terms}
    \cup {Binary(t, "+", Call("f", <<u>>)) : t, u \in Terms} \cup {Returning(t) : t \in Terms}
    \cup {Binary(Binary(X, ".", Identifier("a")), "=", t) : t \in Terms}

Parameters == {<<>>, <<Variable("number", "y")>>, <<Variable("number", "y"), X>>,
               <<Binary(Variable("number", "y"), "=", One)>>, <<Words, Variable("number", "y")>>}
F(args, body) == Function("number", "f", args, body)
Y(body) == Function("number", "y", <<>>, body)
Statements == {Returning(X), Returning(Call("f", <<>>)), Keyword("if", <<X>>, <<X>>),
               Binary(Binary(X, ".", Identifier("a")), "=", One), Call("f", <<Array(<<>>), Y(<<X>>)>>)}
Bodies == {<<>>} \cup {<<s>> : s \in Statements} \cup {<<s, t>> : s, t \in Statements}

\* struct S { number a; } and a declaration in front of each program.
DgenStructs == [S |-> [a |-> "number"]]
S == Struct("S", <<Variable("number", "a")>>)
SX == Variable("S", "x")

Candidates == {<<>>} \cup
  {<<S, SX>> \o b : b \in
     {<<F(<<>>, <<>>), e>> : e \in Expressions}
       \cup {<<F(p, b)>> : p \in Parameters, b \in Bodies}
       \cup {<<F(<<>>, <<s, Y(b)>>), s>> : s \in Statements, b \in Bodies}}

\* A node and those below it.
RECURSIVE Down(_)
Down(node) ==
  LET below == node.operands \o node.args \o node.body
  IN <<node>> \o FlattenSeq([i \in DOMAIN below |-> Down(below[i])])

SmallPrograms ==
  {r \in {Root(c) : c \in Candidates} : Accepts(ToSet(Down(r)), [root |-> r, structs |-> DgenStructs])}

Below(nodes) == nodes \cup UNION {Children(n) : n \in nodes}
Below1 == Below(UNION {ToSet(p.body) : p \in SmallPrograms})
Below2 == Below(Below1)
Below3 == Below(Below2)
SmallNodes == Below(Below(Below3))

\* The length of the longest way down from a node.
RECURSIVE HeightOf(_)
HeightOf(node) == Max({0} \cup {HeightOf(child) + 1 : child \in Children(node)})

ASSUME TreesAreFinite == IsHeight(Walked, [node \in Walked |-> HeightOf(node)])

=============================================================================
