------------------------------- MODULE MCDriver -------------------------------
(* Instances of the driver: every tree of up to five nodes with a small
   language, and every tree of up to four scopes with a small program.      *)

EXTENDS Driver, FiniteSets, TLC

Obj(kind, i) == <<kind, i>>
Bytes == The("bytes")
Ref(kind, i) == IF i = 0 THEN None ELSE Obj(kind, i)

\* A list of n objects of a kind, linked by next.
Chain(kind, n) ==
  [o \in {Obj(kind, i) : i \in 1 .. n} |-> [next |-> Ref(kind, IF o[2] = n THEN 0 ELSE o[2] + 1)]]

-----------------------------------------------------------------------------
(* Trees: every node but the first hangs in a field of an earlier one.     *)

NodeFields == {"l", "r", "next", "args", "body"}

Places(n) == {f \in [2 .. n -> (1 .. n - 1) \X NodeFields] :
                /\ \A i \in 2 .. n : f[i][1] < i
                /\ \A i, j \in 2 .. n : f[i] = f[j] => i = j}

\* The operands of an expression are there, the left one at least, and no node
\* hangs in the bytes another member of the union has in their place.
Ast(f, n) ==
  LET child(i, slot) == {j \in 2 .. n : f[j] = <<i, slot>>}
      isExpression(i) == child(i, "l") # {}
      at(i, slot) == IF child(i, slot) = {} THEN None ELSE Obj("node", CHOOSE j \in child(i, slot) : TRUE)
      operand(i, slot) == IF isExpression(i) THEN at(i, slot) ELSE Bytes
  IN [o \in {Obj("node", i) : i \in 1 .. n} |->
       [type |-> IF isExpression(o[2]) THEN "EXPRESSION" ELSE "OTHER",
        l |-> operand(o[2], "l"), r |-> operand(o[2], "r"), next |-> at(o[2], "next"),
        args |-> at(o[2], "args"), body |-> at(o[2], "body")]]

\* The first node is the root, with nothing but a body.
Asts == {Ast(f, n) : n \in {1}, f \in {<<>>}}
  \cup UNION {{Ast(f, n) : f \in {g \in Places(n) :
        /\ \A i \in 2 .. n : g[i][1] = 1 => g[i][2] = "body"
        /\ \A i \in 2 .. n : g[i][2] = "r" => \E j \in 2 .. n : g[j] = <<g[i][1], "l">>}} : n \in 2 .. 5}

-----------------------------------------------------------------------------
(* Scopes: every scope but the first is a child of an earlier one; some have
   symbols.                                                                  *)

Parents(n) == {p \in [2 .. n -> 1 .. n] : \A i \in 2 .. n : p[i] < i}

ScopesOf(p, n, symbols) ==
  LET childs(i) == {j \in 2 .. n : p[j] = i}
      first(S) == IF S = {} THEN 0 ELSE CHOOSE j \in S : \A k \in S : j <= k
  IN [o \in {Obj("scope", i) : i \in 1 .. n} |->
       [childs |-> Ref("scope", first(childs(o[2]))),
        symbols |-> IF o[2] \in symbols THEN Obj("symbol", 2 * o[2]) ELSE None,
        next |-> IF o[2] = 1 THEN None
                 ELSE Ref("scope", first({j \in childs(p[o[2]]) : j > o[2]}))]]

SymbolsOf(symbols) ==
  [o \in {Obj("symbol", i) : i \in UNION {{2 * s, 2 * s + 1} : s \in symbols}} |->
    [next |-> IF o[2] % 2 = 0 THEN Obj("symbol", o[2] + 1) ELSE None]]

\* A primitive type, and in front of it a struct with two fields if there is one.
TypesOf(structs) == [o \in DOMAIN Chain("type", 1 + structs) |->
  Chain("type", 1 + structs)[o] @@
    [fields |-> IF o[2] = structs THEN Obj("field", 1) ELSE None]]

Run(ast, scopes, symbols, structs) ==
  LET types == TypesOf(structs)
      fields == Chain("field", 2 * structs)
      primitive == Obj("type", 1 + structs)
  IN [links |-> ast @@ types @@ fields @@ scopes @@ symbols,
      language |-> {primitive, Obj("scope", 1)},
      parsed |-> (DOMAIN ast \cup DOMAIN types \cup DOMAIN fields) \ {primitive},
      validated |-> (DOMAIN scopes \cup DOMAIN symbols) \ {Obj("scope", 1)},
      ast |-> Obj("node", 1), types |-> Obj("type", 1), scope |-> Obj("scope", 1)]

NoParents == [i \in {} |-> 0]
OneNode == Ast(<<>>, 1)

SmallRuns ==
  {Run(a, ScopesOf(p, 2, {2}), SymbolsOf({2}), 1) : a \in Asts, p \in Parents(2)}
    \cup UNION {{Run(OneNode, ScopesOf(p, n, s), SymbolsOf(s), structs) :
                   p \in Parents(n), s \in SUBSET (2 .. n), structs \in 0 .. 1} : n \in 1 .. 4}

=============================================================================
