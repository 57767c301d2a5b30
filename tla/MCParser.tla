------------------------------ MODULE MCParser ------------------------------
(* Instances of the statement parser: every short token list over alphabets
   that make its functions meet, and the texts of small programs.          *)

EXTENDS ProgramText, DgenStatements

DgenNames == {"number", "S", "x"}
SomeNumbers == {"1"}
SomeStrings == {"text"}
NumberType == {"number"}

Lists(front, symbols, n) ==
  {front \o s \o <<EndOfFile>> : s \in UNION {[1 .. k -> symbols] : k \in 0 .. n}}

ShortLists == UNION {
  Lists(<<>>, {"x", "(", ")", "[", "]", ",", ";"}, 4),
  Lists(<<>>, {"number", "x", "1", "{", "}", "[", "]", ":"}, 3),
  Lists(<<"number", "x">>, {"1", "{", "}", "[", "]"}, 3),
  Lists(<<"number", "x", "(">>, {"number", "x", ",", ")", "{", "}", ";"}, 4),
  Lists(<<"if", "(", "x", ")", "{">>, {"x", ";", "}", "else", "{", "return"}, 4),
  Lists(<<"for", "(">>, {"x", ";", ")", "{", "}"}, 5),
  Lists(<<"struct", "S", "{", "}", "struct", "S", "{">>, {"number", "x", "}", ";"}, 5),
  Lists(<<"struct", "S", "{">>, {"S", "number", "x", "struct", "{", "}"}, 5),
  Lists(<<"[", "struct", "S", "{", "number", "x", "}">>, {"]", "struct", "S", "{", "}"}, 5),
  Lists(<<"switch", "(", "x", ")", "{", "case">>, {"1", ":", "{", "}"}, 5)}

-----------------------------------------------------------------------------
(* Programs.                                                               *)

Lift(type, words, args, body) ==
  [type |-> type, words |-> words, args |-> args, body |-> body]

Atoms == {Node("IDENTIFIER", <<"x">>), Node("CONSTANT", <<"text">>)}
Calls2 == {Lift("FUNCTION_CALL", <<"x">>, args, <<>>) :
             args \in UNION {[1 .. n -> Atoms] : n \in 0 .. 2}}
Terms == Atoms \cup Calls2
           \cup {Lift("ARRAY_ACCESS", <<"x">>, <<t>>, <<>>) : t \in Calls2}
           \cup {Lift("ARRAY", <<>>, <<t, u>>, <<>>) : t, u \in Atoms}
Fields == {Node("DECL_VARIABLE", <<"number", "x">>), Node("DECL_VARIABLE", <<"number", "x", "1">>)}
Simple == {Node("DECL_VARIABLE", <<"number", "x">>),
           Lift("FUNCTION_CALL", <<"x">>, <<Node("CONSTANT", <<"1">>)>>, <<>>)}

Keyword(k, args, body) == Lift("KEYWORD", <<k>>, args, body)
X == Node("IDENTIFIER", <<"x">>)

Compound(bodies) ==
  {Keyword("if", <<t>>, b) : t \in Atoms, b \in bodies}
    \cup {Keyword("else", <<>>, b) : b \in bodies}
    \cup {Keyword("for", <<f, X, X>>, b) : f \in Fields, b \in bodies}
    \cup {Keyword("case", <<Node("CONSTANT", <<"1">>)>>, b) : b \in bodies}
    \cup {Keyword("default", <<>>, b) : b \in bodies}
    \cup {Lift("DECL_FUNCTION", <<"number", "S">>, <<f, f>>, b) : f \in Fields, b \in bodies}

Bodies(nodes, n) == UNION {[1 .. k -> nodes] : k \in 0 .. n}

Leaves == Simple \cup {Keyword("return", <<X>>, <<>>)}
Inner == Compound(Bodies(Leaves, 1))
Struct == {Lift("KEYWORD", <<"struct", "S">>, <<>>, b) : b \in Bodies(Fields, 2)}

\* Declarations of the type S, behind its struct: also as a field of another one.
OfStruct == {Node("DECL_VARIABLE", <<"S", "x">>), Node("DECL_VARIABLE", <<"S", "x", "1">>)}
UsesOfStruct ==
  OfStruct \cup Compound(Bodies(OfStruct, 1))
    \cup {Lift("DECL_FUNCTION", <<"S", "x">>, <<f>>, <<>>) : f \in OfStruct}
    \cup {Lift("KEYWORD", <<"struct", "x">>, <<>>, <<f>>) : f \in OfStruct}

\* A list of statements, a list of terms, statements three deep, and a struct,
\* which is declared once, with uses of its type.
Programs == UNION {
  Bodies(Inner \cup Leaves, 2),
  {<<s>> \o b : s \in Struct, b \in Bodies(Leaves \cup UsesOfStruct, 1)},
  Bodies(Terms, 2),
  {<<c>> : c \in Compound({<<i>> : i \in Inner} \cup {<<i, X>> : i \in Inner})}}

ProgramTexts == {Append(Statements(p), EndOfFile) : p \in Programs}

\* if (x) { x; } else if (x) { x; }
ElseIf == {<<"if", "(", "x", ")", "{", "x", ";", "}", "else", "if", "(", "x", ")",
             "{", "x", ";", "}", EndOfFile>>}

=============================================================================
