------------------------------ MODULE MCSemanter ------------------------------
(* Instances of the validator: the programs of few statements over two names,
   two structs and every construct that declares, uses or enters a scope.    *)

EXTENDS Semanter

X == Identifier("x")
Y == Identifier("y")
One == Constant("1", "number")
Dot(l, r) == Binary(l, ".", r)

\* struct S { number a; }   struct T { S s; }
DgenStructs == [S |-> [a |-> "number"], T |-> [s |-> "S"]]
Structs == <<Struct("S", <<Variable("number", "a")>>), Struct("T", <<Variable("S", "s")>>)>>

Simple == {
  Variable("number", "x"), Variable("number", "y"), X,
  Call("x", <<Y>>), Binary(Variable("number", "y"), "=", X),
  Binary(X, "+", Call("y", <<>>)), Unary("++", Y), Array(<<Y>>), ArrayAccess("y", <<X>>)}

Compound(bodies) ==
  {Keyword("if", <<X>>, b) : b \in bodies}
    \cup {Keyword("for", <<Variable("number", "y")>>, b) : b \in bodies}
    \cup {Function("number", "y", <<Variable("number", "x")>>, b) : b \in bodies}
    \cup {Function("number", "x", <<>>, b) : b \in bodies}

UpToOne(nodes) == {<<>>} \cup {<<n>> : n \in nodes}
UpToTwo(nodes) == UpToOne(nodes) \cup {<<m, n>> : m, n \in nodes}

Inner == Compound(UpToOne(Simple))

\* A function that declares, calls itself and is called; scopes three deep.
Deep == {<<Variable("number", "x"), c, s>> : s \in Simple, c \in Compound({<<i>> : i \in Inner})}

\* Two statements inside a construct behind a declaration.
Wide == {<<Variable("number", "x"), c>> : c \in Compound(UpToTwo(Simple))}

Objects == {<<Variable("S", "x")>>, <<Variable("T", "x")>>, <<Variable("number", "x")>>,
            <<Function("T", "x", <<>>, <<>>)>>, <<>>, <<Variable("T", "a")>>}
Accesses == {Dot(X, Identifier("a")), Dot(X, Identifier("s")), Dot(Call("x", <<>>), Identifier("a")),
             Dot(Dot(X, Identifier("s")), Identifier("a")), Dot(X, Dot(Identifier("s"), Identifier("a"))),
             Dot(X, Dot(Identifier("s"), Identifier("s"))), Dot(X, Dot(Identifier("a"), Identifier("a"))),
             Dot(X, One), Dot(Keyword("true", <<>>, <<>>), Identifier("a"))}

Program(body, structs) == [root |-> Root(body), structs |-> structs]
NoStructs == <<>>

SmallPrograms ==
  {Program(b, NoStructs) : b \in UpToTwo(Inner \cup Simple) \cup Deep \cup Wide}
    \cup {Program(Structs \o o \o <<Binary(a, "=", X)>>, DgenStructs) : o \in Objects, a \in Accesses}
    \cup {Program(o \o Structs, DgenStructs) : o \in Objects}

Statements == Inner \cup Simple \cup Compound({<<i>> : i \in Inner} \cup UpToTwo(Simple)) \cup ToSet(Structs)
                \cup {o[1] : o \in Objects \ {<<>>}} \cup {Binary(a, "=", X) : a \in Accesses}

Below(nodes) == nodes \cup UNION {Children(n) : n \in nodes}
Below1 == Below(Statements)
Below2 == Below(Below1)
Below3 == Below(Below2)
SmallNodes == Below(Below3)

\* The length of the longest way down from a node.
RECURSIVE HeightOf(_)
HeightOf(node) == Max({0} \cup {HeightOf(child) + 1 : child \in Children(node)})

ASSUME TreesAreFinite == IsHeight(Walked, [node \in Walked |-> HeightOf(node)])

=============================================================================
