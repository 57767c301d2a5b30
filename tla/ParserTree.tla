------------------------------ MODULE ParserTree ------------------------------
(***************************************************************************)
(* What the statement parser promises of the tree it builds: the words and *)
(* the structs of the tree are compared with the text it was built from.   *)
(***************************************************************************)

EXTENDS Parser

\* The parts of a declaration that ask for a call.
Asking == {"EXPRESSION", "EXPRESSIONS", "BLOCK"}

\* A node keeps its words, its arguments and its body: a declaration gives its
\* parts in this order, with one body at most, and a token follows a name.
Ordered(parts) ==
  \A i \in DOMAIN parts :
    /\ \A j \in i + 1 .. Len(parts) :
         /\ parts[i] \in Asking => parts[j] # "IDENTIFIER"
         /\ parts[i] = "BLOCK" => parts[j] \notin Asking
    /\ parts[i] = "IDENTIFIER" => i < Len(parts) /\ parts[i + 1] \in Punctuation

\* So it is with the declarations of the tables.
ASSUME OrderAssumption ==
  \A decl \in {FuncDecl} \cup {KeywordDecl[k] : k \in Keywords} : Ordered(decl)

-----------------------------------------------------------------------------
(* Trees.                                                                  *)

NodeTypes ==
  {"EXPRESSION", "CONSTANT", "IDENTIFIER", "FUNCTION_CALL", "ARRAY_ACCESS", "ARRAY",
   "OBJECT_INIT", "DECL_VARIABLE", "DECL_FUNCTION", "KEYWORD"}

NodesOver(children) ==
  [type : NodeTypes, words : Seq(Token), args : Seq(children), body : Seq(children)]

\* The trees of n levels at most.
Trees[n \in Nat] == IF n = 0 THEN {} ELSE NodesOver(Trees[n - 1])

\* The calls nest at most three deep for each token: no tree has more levels.
Height == 3 * Len(tokens)

\* What f says of each node of a list, and of each node under a node.
Each(f, nodes) == FlattenSeq([i \in DOMAIN nodes |-> f[nodes[i]]])
Under(f, node) == Each(f, node.args) \o Each(f, node.body)

\* The words of a tree of n levels at most, in the order of the text.
Words(n) == LET words[node \in Trees[n]] == node.words \o Under(words, node) IN words

IsStruct(node) == node.type = "KEYWORD" /\ node.words[1] = StructKeyword
NameOf(struct) == Last(struct.words)
HasFields(struct) == \E i \in DOMAIN struct.body : struct.body[i].type = "DECL_VARIABLE"

\* The structs of a tree, each behind those that are inside it.
Structs(n) ==
  LET structs[node \in Trees[n]] ==
        Under(structs, node) \o IF IsStruct(node) THEN <<node>> ELSE <<>>
  IN structs

-----------------------------------------------------------------------------
(* Properties.                                                             *)

\* The text has an array literal, which the holding stack may move or drop.
HasArray == \E i \in DOMAIN tokens :
  tokens[i] = "[" /\ (i = 1 \/ tokens[i - 1] \notin Names)

\* A token that the tree keeps.
Kept(token) == IF token \in Punctuation \cup {EndOfFile} THEN <<>> ELSE <<token>>

\* A text that is accepted is in the tree, every word of it, once and in its
\* place: no statement, argument or declaration is lost, repeated or moved.
KeepsEveryWord ==
  status = "done" /\ ~HasArray =>
    Each(Words(Height), tree) = FlattenSeq([i \in DOMAIN tokens |-> Kept(tokens[i])])

\* Of two structs of one name only the first has fields; an array literal may be
\* moved behind what was declared after it, and then one of the two at most.
MayFollow(struct, next) ==
  NameOf(struct) = NameOf(next) =>
    ~HasFields(next) \/ (HasArray /\ ~HasFields(struct))

\* In a text that is accepted the fields of a type come from one declaration: a
\* struct with fields has a name that was no type when its declaration ended, so
\* what the validator later looks up in a type is what its declaration says.
OneStructPerName ==
  status = "done" =>
    LET structs == Each(Structs(Height), tree)
    IN \A i \in DOMAIN structs :
         /\ HasFields(structs[i]) => NameOf(structs[i]) \notin PrimitiveTypes
         /\ \A j \in i + 1 .. Len(structs) : MayFollow(structs[i], structs[j])

\* The names of the structs in the text before pos whose body, in braces, is over.
CompleteStructs ==
  {tokens[i + 1] : i \in {k \in 1 .. pos - 1 :
     /\ tokens[k] = StructKeyword
     /\ \E end \in k + 3 .. pos - 1 : Balanced(SubSeq(tokens, k + 2, end))}}

\* A struct is a type only behind its last brace, however deep it is nested and
\* whatever is inside it: no declaration in its own body can be of it.  In a text
\* that is accepted every struct has become one.
TypesAreComplete ==
  /\ types \subseteq PrimitiveTypes \cup CompleteStructs
  /\ status = "done" => CompleteStructs \subseteq types

=============================================================================
