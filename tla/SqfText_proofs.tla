---------------------------- MODULE SqfText_proofs ----------------------------
(***************************************************************************)
(* Theorems about the text the generator writes.                           *)
(***************************************************************************)

EXTENDS SqfText, Generator_proofs

-----------------------------------------------------------------------------
(* The text of a tree.                                                     *)

Symbol == Token \cup {Unwritable}

\* The text of a node of each kind.
LEMMA TextOfKind ==
  ASSUME NEW text, NEW node, NEW depth
  PROVE  /\ node.type = "ROOT" => NodeText(text, node, depth) = StatementsText(text, node.body, depth + 1)
         /\ node.type = "IDENTIFIER" => NodeText(text, node, depth) = <<"_", node.name>>
         /\ node.type = "CONSTANT" => NodeText(text, node, depth) =
              IF node.info = "string" THEN <<"\"", node.name, "\"">> ELSE <<node.name>>
         /\ node.type = "DECL_VARIABLE" => NodeText(text, node, depth) = <<"private ", "_", node.name>>
         /\ node.type = "DECL_FUNCTION" => NodeText(text, node, depth) =
              <<"private ", "_", node.name, " = ", "{", "\n">> \o Levels(depth + 1)
                \o <<"params ", "[">> \o ParamsText(node.args) \o <<"]", ";">>
                \o StatementsText(text, node.body, depth + 1) \o <<"}">>
         /\ node.type = "FUNCTION_CALL" => NodeText(text, node, depth) =
              <<"[">> \o ListText(text, node.args, depth) \o <<"]", " call ", "_", node.name>>
         /\ node.type \in {"ARRAY", "ARRAY_ACCESS"} => NodeText(text, node, depth) = <<Unwritable>>
         /\ node.type = "KEYWORD" => NodeText(text, node, depth) =
              IF node.name = "return" /\ node.args # <<>> THEN text[node.args[1]][depth] ELSE <<>>
         /\ node.type = "EXPRESSION" => NodeText(text, node, depth) = ExpressionText(text, node, depth)
         /\ node.type \notin {"ROOT", "IDENTIFIER", "CONSTANT", "DECL_VARIABLE", "DECL_FUNCTION",
                              "FUNCTION_CALL", "ARRAY", "ARRAY_ACCESS", "KEYWORD", "EXPRESSION"}
              => NodeText(text, node, depth) = <<>>
<1>1. node.type = "ROOT" => NodeText(text, node, depth) = StatementsText(text, node.body, depth + 1)
  BY Zenon DEF NodeText
<1>2. node.type = "IDENTIFIER" => NodeText(text, node, depth) = <<"_", node.name>>
  BY Zenon DEF NodeText
<1>3. node.type = "CONSTANT" => NodeText(text, node, depth) =
        IF node.info = "string" THEN <<"\"", node.name, "\"">> ELSE <<node.name>>
  BY Zenon DEF NodeText
<1>4. node.type = "DECL_VARIABLE" => NodeText(text, node, depth) = <<"private ", "_", node.name>>
  BY Zenon DEF NodeText
<1>5. node.type = "DECL_FUNCTION" => NodeText(text, node, depth) =
        <<"private ", "_", node.name, " = ", "{", "\n">> \o Levels(depth + 1)
          \o <<"params ", "[">> \o ParamsText(node.args) \o <<"]", ";">>
          \o StatementsText(text, node.body, depth + 1) \o <<"}">>
  BY Zenon DEF NodeText
<1>6. node.type = "FUNCTION_CALL" => NodeText(text, node, depth) =
        <<"[">> \o ListText(text, node.args, depth) \o <<"]", " call ", "_", node.name>>
  BY Zenon DEF NodeText
<1>7. node.type \in {"ARRAY", "ARRAY_ACCESS"} => NodeText(text, node, depth) = <<Unwritable>>
  BY Zenon DEF NodeText
<1>8. node.type = "KEYWORD" => NodeText(text, node, depth) =
        IF node.name = "return" /\ node.args # <<>> THEN text[node.args[1]][depth] ELSE <<>>
  BY Zenon DEF NodeText
<1>9. node.type = "EXPRESSION" => NodeText(text, node, depth) = ExpressionText(text, node, depth)
  BY Zenon DEF NodeText
<1>10. node.type \notin {"ROOT", "IDENTIFIER", "CONSTANT", "DECL_VARIABLE", "DECL_FUNCTION",
                         "FUNCTION_CALL", "ARRAY", "ARRAY_ACCESS", "KEYWORD", "EXPRESSION"}
         => NodeText(text, node, depth) = <<>>
  BY Zenon DEF NodeText
<1>. QED
  BY <1>1, <1>2, <1>3, <1>4, <1>5, <1>6, <1>7, <1>8, <1>9, <1>10, Zenon

\* The text of an expression of each kind.
LEMMA TextOfExpression ==
  ASSUME NEW text, NEW node, NEW depth
  PROVE  /\ node.name \in {".", "in"} => ExpressionText(text, node, depth) = <<>>
         /\ node.name \in UnaryOperators =>
              ExpressionText(text, node, depth) = <<node.name>> \o text[node.operands[1]][depth]
         /\ node.name = "=" /\ node.operands[1].type # "EXPRESSION" => ExpressionText(text, node, depth) = <<>>
         /\ node.name = "=" /\ IsExpression(node.operands[1], {"."}) => ExpressionText(text, node, depth) = <<"(">>
         /\ node.name = "=" /\ node.operands[1].type = "EXPRESSION" /\ node.operands[1].name # "." =>
              ExpressionText(text, node, depth) = InfixText(text, node, depth)
         /\ node.name \notin {".", "in", "="} \cup UnaryOperators =>
              ExpressionText(text, node, depth) = <<"(">> \o InfixText(text, node, depth) \o <<")">>
<1>1. /\ UnaryOperators \cap {".", "in", "="} = {}
  BY Zenon DEF UnaryOperators
<1>2. node.name \in {".", "in"} => ExpressionText(text, node, depth) = <<>>
  BY <1>1, Zenon DEF ExpressionText
<1>3. node.name \in UnaryOperators =>
        ExpressionText(text, node, depth) = <<node.name>> \o text[node.operands[1]][depth]
  BY <1>1, Zenon DEF ExpressionText
<1>4. /\ node.name = "=" /\ node.operands[1].type # "EXPRESSION" => ExpressionText(text, node, depth) = <<>>
      /\ node.name = "=" /\ IsExpression(node.operands[1], {"."}) => ExpressionText(text, node, depth) = <<"(">>
      /\ node.name = "=" /\ node.operands[1].type = "EXPRESSION" /\ node.operands[1].name # "." =>
           ExpressionText(text, node, depth) = InfixText(text, node, depth)
  BY <1>1, Zenon DEF ExpressionText, IsExpression
<1>5. node.name \notin {".", "in", "="} \cup UnaryOperators =>
        ExpressionText(text, node, depth) = <<"(">> \o InfixText(text, node, depth) \o <<")">>
  BY <1>1, Zenon DEF ExpressionText
<1>. QED
  BY <1>2, <1>3, <1>4, <1>5, Zenon

\* The nodes below one that is walked.
LEMMA ChildrenWalked ==
  ASSUME NEW node \in Walked
  PROVE  /\ node.body \in Seq(Nodes) /\ node.args \in Seq(Nodes)
         /\ node.type = "ROOT" \/ node \in Nodes
         /\ \A i \in DOMAIN node.body : node.body[i] \in Children(node) \cap Nodes
         /\ \A i \in DOMAIN node.args : node.args[i] \in Children(node) \cap Nodes
         /\ node.args # <<>> => node.args[1] \in Children(node) \cap Nodes
         /\ node.type = "EXPRESSION" => node.operands[1] \in Children(node) \cap Nodes
         /\ node.type = "EXPRESSION" /\ node.name \notin UnaryOperators =>
              node.operands[2] \in Children(node) \cap Nodes
<1>1. IsNodeOver(Nodes, node)
  BY NodesAssumption, ProgramsAssumption, Zenon DEF Walked
<1>2. /\ node.operands \in Seq(Nodes) /\ node.args \in Seq(Nodes) /\ node.body \in Seq(Nodes)
      /\ node.type = "EXPRESSION" => Len(node.operands) \in {1, 2}
  BY <1>1 DEF IsNodeOver
<1>3. node \in Programs => node.type = "ROOT"
  BY ProgramsAssumption, Zenon
<1>4. node.type = "ROOT" \/ node \in Nodes
  BY <1>3 DEF Walked
<1>5. node.type = "EXPRESSION" => node \in Nodes
  BY <1>4
<1>6. node.type = "EXPRESSION" /\ node.name \notin UnaryOperators => Len(node.operands) = 2
  BY <1>5, NodesAssumption, Zenon
<1>7. \A s \in Seq(Nodes) : /\ \A i \in DOMAIN s : s[i] \in ToSet(s) \cap Nodes
                            /\ s # <<>> => 1 \in DOMAIN s
                            /\ Len(s) \in {1, 2} => 1 \in DOMAIN s
                            /\ Len(s) = 2 => 2 \in DOMAIN s
  BY DEF ToSet
<1>8. /\ ToSet(node.operands) \subseteq Children(node)
      /\ ToSet(node.args) \subseteq Children(node)
      /\ ToSet(node.body) \subseteq Children(node)
  BY DEF Children
<1>. QED
  BY <1>2, <1>4, <1>6, <1>7, <1>8, Zenon

\* The text of a node is made of the texts of the nodes below it.
LEMMA TextFromBelow ==
  ASSUME NEW node \in Walked, NEW depth, NEW f, NEW g, \A child \in Children(node) \cap Nodes : f[child] = g[child]
  PROVE  NodeText(f, node, depth) = NodeText(g, node, depth)
<1>1. ASSUME NEW nodes \in Seq(Nodes), \A i \in DOMAIN nodes : f[nodes[i]] = g[nodes[i]], NEW e
      PROVE  /\ StatementsText(f, nodes, e) = StatementsText(g, nodes, e)
             /\ ListText(f, nodes, e) = ListText(g, nodes, e)
  <2>1. \A i \in DOMAIN nodes : <<"\n">> \o Levels(e) \o f[nodes[i]][e] \o <<";">>
                                    = <<"\n">> \o Levels(e) \o g[nodes[i]][e] \o <<";">>
    BY <1>1, Zenon
  <2>2. [i \in DOMAIN nodes |-> f[nodes[i]][e]] = [i \in DOMAIN nodes |-> g[nodes[i]][e]]
    BY <1>1
  <2>3. [i \in DOMAIN nodes |-> <<"\n">> \o Levels(e) \o f[nodes[i]][e] \o <<";">>]
          = [i \in DOMAIN nodes |-> <<"\n">> \o Levels(e) \o g[nodes[i]][e] \o <<";">>]
    BY <2>1, Zenon
  <2>4. StatementsText(f, nodes, e) = StatementsText(g, nodes, e)
    BY <2>3, Zenon DEF StatementsText
  <2>5. ListText(f, nodes, e) = ListText(g, nodes, e)
    BY <2>2, Zenon DEF ListText
  <2>. QED
    BY <2>4, <2>5
<1>2. \A e : /\ StatementsText(f, node.body, e) = StatementsText(g, node.body, e)
             /\ ListText(f, node.args, e) = ListText(g, node.args, e)
  BY <1>1, ChildrenWalked
<1>3. node.args # <<>> => f[node.args[1]] = g[node.args[1]]
  BY ChildrenWalked
<1>4. ASSUME node.type = "EXPRESSION"
      PROVE  ExpressionText(f, node, depth) = ExpressionText(g, node, depth)
  <2>1. f[node.operands[1]] = g[node.operands[1]]
    BY <1>4, ChildrenWalked
  <2>2. node.name \notin UnaryOperators => InfixText(f, node, depth) = InfixText(g, node, depth)
    <3>1. node.name \notin UnaryOperators => f[node.operands[2]] = g[node.operands[2]]
      BY <1>4, ChildrenWalked
    <3>. QED
      BY <2>1, <3>1, Zenon DEF InfixText
  <2>3. UnaryOperators \cap {".", "in", "="} = {}
    BY Zenon DEF UnaryOperators
  <2>4. CASE node.name \in UnaryOperators
    BY <2>1, <2>4, TextOfExpression, Zenon
  <2>5. CASE node.name \notin UnaryOperators
    BY <2>2, <2>5, Zenon DEF ExpressionText
  <2>. QED
    BY <2>4, <2>5
<1>5. CASE node.type = "EXPRESSION"
  <2>1. \A t : NodeText(t, node, depth) = ExpressionText(t, node, depth)
    BY <1>5, TextOfKind, ZenonT(60)
  <2>. QED
    BY <1>4, <1>5, <2>1, Zenon
<1>6. CASE node.type = "ROOT"
  <2>1. \A t : NodeText(t, node, depth) = StatementsText(t, node.body, depth + 1)
    BY <1>6, Zenon DEF NodeText
  <2>. QED
    BY <1>2, <2>1, Zenon
<1>7. CASE node.type = "DECL_FUNCTION"
  <2>1. \A t : NodeText(t, node, depth) =
                 <<"private ", "_", node.name, " = ", "{", "\n">> \o Levels(depth + 1)
                   \o <<"params ", "[">> \o ParamsText(node.args) \o <<"]", ";">>
                   \o StatementsText(t, node.body, depth + 1) \o <<"}">>
    BY <1>7, Zenon DEF NodeText
  <2>2. StatementsText(f, node.body, depth + 1) = StatementsText(g, node.body, depth + 1)
    BY <1>2
  <2>. QED
    BY <2>1, <2>2, Zenon
<1>8. CASE node.type = "FUNCTION_CALL"
  <2>1. \A t : NodeText(t, node, depth) = <<"[">> \o ListText(t, node.args, depth) \o <<"]", " call ", "_", node.name>>
    BY <1>8, Zenon DEF NodeText
  <2>2. ListText(f, node.args, depth) = ListText(g, node.args, depth)
    BY <1>2
  <2>. QED
    BY <2>1, <2>2, Zenon
<1>9. CASE node.type = "KEYWORD"
  <2>1. \A t : NodeText(t, node, depth) =
                 IF node.name = "return" /\ node.args # <<>> THEN t[node.args[1]][depth] ELSE <<>>
    BY <1>9, Zenon DEF NodeText
  <2>. QED
    BY <1>3, <2>1, Zenon
<1>10. CASE node.type \notin {"EXPRESSION", "ROOT", "DECL_FUNCTION", "FUNCTION_CALL", "KEYWORD"}
  BY <1>10, Zenon DEF NodeText
<1>. QED
  BY <1>5, <1>6, <1>7, <1>8, <1>9, <1>10, Zenon

\* What the handlers write is of tokens.
LEMMA FixedTexts ==
  /\ <<"\n">> \in Seq(Token) /\ <<";">> \in Seq(Token) /\ <<", ">> \in Seq(Token)
  /\ <<"\"">> \in Seq(Token) /\ <<"\"", "_">> \in Seq(Token) /\ <<"params ", "[">> \in Seq(Token)
  /\ <<"[">> \in Seq(Token) /\ <<"]">> \in Seq(Token) /\ <<"(">> \in Seq(Token)
  /\ <<")">> \in Seq(Token) /\ <<"]", ";">> \in Seq(Token) /\ <<" = ", "{", "\n">> \in Seq(Token)
  /\ <<"}">> \in Seq(Token) /\ <<>> \in Seq(Token)
  /\ \A name \in Token :
       /\ <<name>> \in Seq(Token) /\ <<"_", name>> \in Seq(Token) /\ <<"\"", name, "\"">> \in Seq(Token)
       /\ <<"private ", "_", name>> \in Seq(Token) /\ <<" call ", "_", name>> \in Seq(Token) /\ <<" ", name, " ">> \in Seq(Token)
  /\ \A depth \in Int : Levels(depth) \in Seq(Token)
<1>1. /\ \A a \in Token : <<a>> \in Seq(Token)
      /\ \A a, b \in Token : <<a, b>> \in Seq(Token)
      /\ \A a, b, c \in Token : <<a, b, c>> \in Seq(Token)
      /\ <<>> \in Seq(Token)
  OBVIOUS
<1>2. Fixed \subseteq Token
  BY WidthAssumption DEF Token
<1>3. {"\n", "(", ")", "[", "]", "{", "}", ";", "_", "\"", " ", ", ", " = ", "private ", "params ", " call "} \subseteq Fixed
  BY Zenon DEF Fixed, NewLine
<1>4. {"\n", "(", ")", "[", "]", "{", "}", ";", "_", "\"", " ", ", ", " = ", "private ", "params ", " call "} \subseteq Token
  BY <1>2, <1>3, Zenon
<1>5. /\ <<"\n">> \in Seq(Token) /\ <<";">> \in Seq(Token) /\ <<", ">> \in Seq(Token)
      /\ <<"\"">> \in Seq(Token) /\ <<"\"", "_">> \in Seq(Token) /\ <<"params ", "[">> \in Seq(Token)
      /\ <<"[">> \in Seq(Token) /\ <<"]">> \in Seq(Token) /\ <<"(">> \in Seq(Token)
      /\ <<")">> \in Seq(Token) /\ <<"]", ";">> \in Seq(Token) /\ <<" = ", "{", "\n">> \in Seq(Token)
      /\ <<"}">> \in Seq(Token) /\ <<>> \in Seq(Token)
  BY <1>1, <1>4, Zenon
<1>6. \A name \in Token :
        /\ <<name>> \in Seq(Token) /\ <<"_", name>> \in Seq(Token) /\ <<"\"", name, "\"">> \in Seq(Token)
        /\ <<"private ", "_", name>> \in Seq(Token) /\ <<" call ", "_", name>> \in Seq(Token) /\ <<" ", name, " ">> \in Seq(Token)
  BY <1>1, <1>4, Zenon
<1>7. \A depth \in Int : Levels(depth) \in Seq(Token)
  <2>1. PICK l \in Token : l = Level
    BY FixedTokens, Zenon
  <2>2. \A depth \in Int : (IF depth < 0 THEN <<>> ELSE [i \in 1 .. depth |-> l]) \in Seq(Token)
    OBVIOUS
  <2>. QED
    BY <2>1, <2>2, Zenon DEF Levels
<1>. QED
  BY <1>5, <1>6, <1>7, Zenon

\* A longer list of tokens, in two parts.
LEMMA FourTokens ==
  ASSUME NEW a, NEW b, NEW c, NEW d
  PROVE  <<a, b, c, d>> = <<a>> \o <<b, c, d>>
<1>. DEFINE V == {a, b, c, d}
<1>1. <<a>> \in Seq(V) /\ <<b, c, d>> \in Seq(V) /\ <<a, b, c, d>> \in Seq(V)
  OBVIOUS
<1>2. /\ Len(<<a>> \o <<b, c, d>>) = 4
      /\ (<<a>> \o <<b, c, d>>)[1] = a /\ (<<a>> \o <<b, c, d>>)[2] = b
      /\ (<<a>> \o <<b, c, d>>)[3] = c /\ (<<a>> \o <<b, c, d>>)[4] = d
  OBVIOUS
<1>. QED
  BY <1>1, <1>2

\* Six.
LEMMA SixTokens ==
  \A a, b, c, d, e, f : <<a, b, c, d, e, f>> = <<a, b, c>> \o <<d, e, f>>
<1>1. ASSUME NEW a, NEW b, NEW c, NEW d, NEW e, NEW f
      PROVE  <<a, b, c, d, e, f>> = <<a, b, c>> \o <<d, e, f>>
  OBVIOUS
<1>. QED
  BY <1>1, Zenon

\* Texts of symbols.
LEMMA JoinedTexts ==
  /\ \A s, t \in Seq(Symbol) : s \o t \in Seq(Symbol)
  /\ Seq(Token) \subseteq Seq(Symbol)
  /\ <<Unwritable>> \in Seq(Symbol)
  /\ \A node \in Nodes : node.name \in Token
<1>1. \A s, t \in Seq(Symbol) : s \o t \in Seq(Symbol)
  OBVIOUS
<1>2. Token \subseteq Symbol /\ Unwritable \in Symbol
  BY DEF Symbol
<1>3. Seq(Token) \subseteq Seq(Symbol) /\ <<Unwritable>> \in Seq(Symbol)
  BY <1>2
<1>4. \A node \in Nodes : node.name \in Token
  BY NodeFacts, Zenon DEF Common, Inert
<1>. QED
  BY <1>1, <1>3, <1>4

\* Texts with something between them.
LEMMA SeparatedType ==
  ASSUME NEW V, NEW seqs \in Seq(Seq(V)), NEW separator \in Seq(V)
  PROVE  Separated(seqs, separator) \in Seq(V)
<1>. DEFINE pieces == [i \in DOMAIN seqs |-> IF i = 1 THEN seqs[i] ELSE separator \o seqs[i]]
<1>1. pieces \in Seq(Seq(V))
  <2>1. \A i \in DOMAIN seqs : (IF i = 1 THEN seqs[i] ELSE separator \o seqs[i]) \in Seq(V)
    OBVIOUS
  <2>2. DOMAIN seqs = 1 .. Len(seqs) /\ Len(seqs) \in Nat
    OBVIOUS
  <2>3. pieces \in [1 .. Len(seqs) -> Seq(V)]
    BY <2>1, <2>2
  <2>4. \A W : \A n \in Nat : \A f \in [1 .. n -> W] : f \in Seq(W)
    OBVIOUS
  <2>. HIDE DEF pieces
  <2>. QED
    BY <2>2, <2>3, <2>4, Zenon
<1>2. Separated(seqs, separator) = FlattenSeq(pieces)
  BY DEF Separated
<1>3. <<>> \in Seq(V)
  OBVIOUS
<1>. HIDE DEF pieces
<1>4. FlattenSeq(pieces) \in Seq(V)
  BY <1>1, <1>3, FlattenAppend
<1>. QED
  BY <1>2, <1>4

\* Tables of the texts of the nodes.
Tables == [Walked -> [Int -> Seq(Symbol)]]

\* The parts a text is made of are texts.
LEMMA PartsType ==
  ASSUME NEW text \in Tables, NEW nodes \in Seq(Nodes), NEW depth \in Int
  PROVE  /\ StatementsText(text, nodes, depth) \in Seq(Symbol)
         /\ ListText(text, nodes, depth) \in Seq(Symbol)
         /\ ParamsText(nodes) \in Seq(Symbol)
<1>. DEFINE lines == [i \in DOMAIN nodes |-> <<"\n">> \o Levels(depth) \o text[nodes[i]][depth] \o <<";">>]
            list == [i \in DOMAIN nodes |-> text[nodes[i]][depth]]
            params == [i \in DOMAIN nodes |-> <<"\"", "_">> \o NameText(nodes[i]) \o <<"\"">>]
<1>1. <<"\n">> \in Seq(Symbol) /\ <<";">> \in Seq(Symbol) /\ <<", ">> \in Seq(Symbol)
      /\ <<"\"">> \in Seq(Symbol) /\ <<"\"", "_">> \in Seq(Symbol) /\ <<>> \in Seq(Symbol)
  BY FixedTexts, JoinedTexts, Zenon
<1>2. Levels(depth) \in Seq(Symbol) /\ Levels(depth - 1) \in Seq(Symbol)
  <2>1. depth - 1 \in Int
    OBVIOUS
  <2>. QED
    BY <2>1, FixedTexts, JoinedTexts, Zenon
<1>3. ASSUME NEW i \in 1 .. Len(nodes)
      PROVE  /\ <<"\n">> \o Levels(depth) \o text[nodes[i]][depth] \o <<";">> \in Seq(Symbol)
             /\ text[nodes[i]][depth] \in Seq(Symbol)
             /\ <<"\"", "_">> \o NameText(nodes[i]) \o <<"\"">> \in Seq(Symbol)
  <2>1. nodes[i] \in Nodes
    OBVIOUS
  <2>2. text[nodes[i]][depth] \in Seq(Symbol)
    BY <2>1 DEF Tables, Walked
  <2>3. NameText(nodes[i]) \in Seq(Symbol)
    <3>1. nodes[i].name \in Token
      BY <2>1, JoinedTexts
    <3>2. <<nodes[i].name>> \in Seq(Symbol)
      BY <3>1, FixedTexts, JoinedTexts, Zenon
    <3>. QED
      BY <1>1, <3>2, Zenon DEF NameText
  <2>. QED
    BY <1>1, <1>2, <2>2, <2>3, JoinedTexts, Zenon
<1>4. lines \in Seq(Seq(Symbol)) /\ list \in Seq(Seq(Symbol)) /\ params \in Seq(Seq(Symbol))
  <2>0. DOMAIN nodes = 1 .. Len(nodes)
    OBVIOUS
  <2>1. /\ lines = [i \in DOMAIN nodes |-> lines[i]] /\ \A i \in 1 .. Len(nodes) : lines[i] \in Seq(Symbol)
    BY <1>3, <2>0, Zenon
  <2>2. /\ list = [i \in DOMAIN nodes |-> list[i]] /\ \A i \in 1 .. Len(nodes) : list[i] \in Seq(Symbol)
    BY <1>3, <2>0, Zenon
  <2>3. /\ params = [i \in DOMAIN nodes |-> params[i]] /\ \A i \in 1 .. Len(nodes) : params[i] \in Seq(Symbol)
    BY <1>3, <2>0, Zenon
  <2>. HIDE DEF lines, list, params
  <2>. QED
    BY <2>1, <2>2, <2>3, EachNode
<1>5. StatementsText(text, nodes, depth) =
        IF nodes = <<>> THEN <<>> ELSE FlattenSeq(lines) \o <<"\n">> \o Levels(depth - 1)
  BY DEF StatementsText
<1>6. ListText(text, nodes, depth) = Separated(list, <<", ">>) /\ ParamsText(nodes) = Separated(params, <<", ">>)
  BY DEF ListText, ParamsText
<1>. HIDE DEF lines, list, params
<1>7. FlattenSeq(lines) \in Seq(Symbol)
  BY <1>1, <1>4, FlattenAppend
<1>8. Separated(list, <<", ">>) \in Seq(Symbol) /\ Separated(params, <<", ">>) \in Seq(Symbol)
  <2>1. PICK comma \in Seq(Symbol) : comma = <<", ">>
    BY <1>1, Zenon
  <2>2. Separated(list, comma) \in Seq(Symbol) /\ Separated(params, comma) \in Seq(Symbol)
    BY <1>4, SeparatedType
  <2>. QED
    BY <2>1, <2>2, Zenon
<1>. QED
  BY <1>1, <1>2, <1>5, <1>6, <1>7, <1>8, JoinedTexts, Zenon

\* The text of a node is one.
LEMMA NodeTextType ==
  ASSUME NEW text \in Tables, NEW node \in Walked, NEW depth \in Int
  PROVE  NodeText(text, node, depth) \in Seq(Symbol)
<1>1. /\ node.body \in Seq(Nodes) /\ node.args \in Seq(Nodes)
      /\ node.type = "ROOT" \/ node \in Nodes
      /\ node.args # <<>> => node.args[1] \in Walked
      /\ node.type = "EXPRESSION" => node.operands[1] \in Walked
      /\ node.type = "EXPRESSION" /\ node.name \notin UnaryOperators => node.operands[2] \in Walked
  BY ChildrenWalked DEF Walked
<1>2. \A child \in Walked : text[child][depth] \in Seq(Symbol)
  BY DEF Tables
<1>3. depth + 1 \in Int
  OBVIOUS
<1>4. /\ StatementsText(text, node.body, depth + 1) \in Seq(Symbol)
      /\ ListText(text, node.args, depth) \in Seq(Symbol)
      /\ ParamsText(node.args) \in Seq(Symbol)
      /\ Levels(depth + 1) \in Seq(Symbol)
  BY <1>1, <1>3, PartsType, FixedTexts, JoinedTexts
<1>5. node.type # "ROOT" => node.name \in Token
  BY <1>1, JoinedTexts
<1>6. node.name \in Token =>
        /\ <<node.name>> \in Seq(Symbol) /\ <<"_", node.name>> \in Seq(Symbol)
        /\ <<"\"", node.name, "\"">> \in Seq(Symbol) /\ <<"private ", "_", node.name>> \in Seq(Symbol)
        /\ <<" call ", "_", node.name>> \in Seq(Symbol) /\ <<" ", node.name, " ">> \in Seq(Symbol)
  BY FixedTexts, JoinedTexts, Zenon
<1>7. /\ <<"params ", "[">> \in Seq(Symbol) /\ <<"[">> \in Seq(Symbol) /\ <<"]">> \in Seq(Symbol)
      /\ <<"(">> \in Seq(Symbol) /\ <<")">> \in Seq(Symbol) /\ <<"]", ";">> \in Seq(Symbol)
      /\ <<" = ", "{", "\n">> \in Seq(Symbol) /\ <<"}">> \in Seq(Symbol) /\ <<>> \in Seq(Symbol)
      /\ <<Unwritable>> \in Seq(Symbol)
  BY FixedTexts, JoinedTexts, Zenon
<1>8. CASE node.type \in {"ROOT", "IDENTIFIER", "CONSTANT", "DECL_VARIABLE"}
  <2>1. CASE node.type = "ROOT"
    <3>1. NodeText(text, node, depth) = StatementsText(text, node.body, depth + 1)
      BY <2>1, Zenon DEF NodeText
    <3>. QED
      BY <1>4, <3>1
  <2>2. CASE node.type = "IDENTIFIER"
    BY <1>5, <1>6, <2>2, Zenon DEF NodeText
  <2>3. CASE node.type = "CONSTANT"
    <3>1. NodeText(text, node, depth) = <<"\"", node.name, "\"">> \/ NodeText(text, node, depth) = <<node.name>>
      BY <2>3, Zenon DEF NodeText
    <3>. QED
      BY <1>5, <1>6, <2>3, <3>1, Zenon
  <2>4. CASE node.type = "DECL_VARIABLE"
    BY <1>5, <1>6, <2>4, Zenon DEF NodeText
  <2>. QED
    BY <1>8, <2>1, <2>2, <2>3, <2>4, Zenon
<1>9. CASE node.type = "DECL_FUNCTION"
  <2>1. NodeText(text, node, depth) =
          <<"private ", "_", node.name, " = ", "{", "\n">> \o Levels(depth + 1)
            \o <<"params ", "[">> \o ParamsText(node.args) \o <<"]", ";">>
            \o StatementsText(text, node.body, depth + 1) \o <<"}">>
    BY <1>9, Zenon DEF NodeText
  <2>2. <<"private ", "_", node.name, " = ", "{", "\n">> = <<"private ", "_", node.name>> \o <<" = ", "{", "\n">>
    <3>1. PICK a, b, c, d, e, f : /\ a = "private " /\ b = "_" /\ c = node.name
                                  /\ d = " = " /\ e = "{" /\ f = "\n"
      BY Zenon
    <3>2. <<a, b, c, d, e, f>> = <<a, b, c>> \o <<d, e, f>>
      BY SixTokens
    <3>. QED
      BY <3>1, <3>2, Zenon
  <2>3. node.name \in Token
    BY <1>5, <1>9
  <2>4. <<"private ", "_", node.name, " = ", "{", "\n">> \in Seq(Symbol)
    BY <1>6, <1>7, <2>2, <2>3, JoinedTexts, Zenon
  <2>5. PICK a, b, c, d, e, f, g \in Seq(Symbol) :
          /\ a = <<"private ", "_", node.name, " = ", "{", "\n">> /\ b = Levels(depth + 1)
          /\ c = <<"params ", "[">> /\ d = ParamsText(node.args) /\ e = <<"]", ";">>
          /\ f = StatementsText(text, node.body, depth + 1) /\ g = <<"}">>
    BY <1>4, <1>7, <2>4, Zenon
  <2>6. a \o b \o c \o d \o e \o f \o g \in Seq(Symbol)
    OBVIOUS
  <2>. QED
    BY <2>1, <2>5, <2>6, Zenon
<1>10. CASE node.type = "FUNCTION_CALL"
  <2>1. NodeText(text, node, depth) = <<"[">> \o ListText(text, node.args, depth) \o <<"]", " call ", "_", node.name>>
    BY <1>10, Zenon DEF NodeText
  <2>2. <<"]", " call ", "_", node.name>> = <<"]">> \o <<" call ", "_", node.name>>
    BY FourTokens, Zenon
  <2>3. node.name \in Token
    BY <1>5, <1>10
  <2>4. <<"]", " call ", "_", node.name>> \in Seq(Symbol)
    BY <1>6, <1>7, <2>2, <2>3, JoinedTexts, Zenon
  <2>5. \A a, b, c \in Seq(Symbol) : a \o b \o c \in Seq(Symbol)
    OBVIOUS
  <2>6. <<"[">> \in Seq(Symbol) /\ ListText(text, node.args, depth) \in Seq(Symbol)
    BY <1>4, <1>7, Zenon
  <2>. QED
    BY ONLY <2>1, <2>4, <2>5, <2>6, ZenonT(60)
<1>11. CASE node.type \in {"ARRAY", "ARRAY_ACCESS"}
  BY <1>7, <1>11, Zenon DEF NodeText
<1>12. CASE node.type = "KEYWORD"
  <2>1. NodeText(text, node, depth) =
          IF node.name = "return" /\ node.args # <<>> THEN text[node.args[1]][depth] ELSE <<>>
    BY <1>12, Zenon DEF NodeText
  <2>. QED
    BY <1>1, <1>2, <1>7, <2>1, Zenon
<1>13. CASE node.type = "EXPRESSION"
  <2>1. NodeText(text, node, depth) = ExpressionText(text, node, depth)
    BY <1>13, Zenon DEF NodeText
  <2>2. node.name \in Token /\ text[node.operands[1]][depth] \in Seq(Symbol)
    BY <1>1, <1>2, <1>5, <1>13
  <2>3. ASSUME node.name \notin UnaryOperators
        PROVE  InfixText(text, node, depth) \in Seq(Symbol)
    <3>1. text[node.operands[2]][depth] \in Seq(Symbol)
      BY <1>1, <1>2, <1>13, <2>3
    <3>. QED
      BY <1>6, <2>2, <3>1, JoinedTexts, Zenon DEF InfixText
  <2>4. CASE node.name \in UnaryOperators
    <3>1. ExpressionText(text, node, depth) = <<node.name>> \o text[node.operands[1]][depth]
      BY <2>4, TextOfExpression, Zenon
    <3>. QED
      BY <1>6, <2>1, <2>2, <3>1, JoinedTexts, Zenon
  <2>5. CASE node.name \notin UnaryOperators
    <3>1. ExpressionText(text, node, depth) \in
            {<<>>, <<"(">>, InfixText(text, node, depth), <<"(">> \o InfixText(text, node, depth) \o <<")">>}
      BY <2>5, Zenon DEF ExpressionText
    <3>. QED
      BY <1>7, <2>1, <2>3, <2>5, <3>1, JoinedTexts, Zenon
  <2>. QED
    BY <2>4, <2>5
<1>14. CASE node.type \notin {"ROOT", "IDENTIFIER", "CONSTANT", "DECL_VARIABLE", "DECL_FUNCTION",
                              "FUNCTION_CALL", "ARRAY", "ARRAY_ACCESS", "KEYWORD", "EXPRESSION"}
  BY <1>7, <1>14, TextOfKind, ZenonT(60)
<1>. QED
  BY <1>8, <1>9, <1>10, <1>11, <1>12, <1>13, <1>14, Zenon

\* Each node has the text the definition says.
TextsSettled ==
  Text \in Tables /\ \A node \in Walked, depth \in Int : Text[node][depth] = NodeText(Text, node, depth)

\* In finite trees it has.
LEMMA TextDefined ==
  ASSUME FiniteTrees(Walked)
  PROVE  TextsSettled
<1>. DEFINE V == [Int -> Seq(Symbol)]
            Step == [p \in Walked \X [Walked -> V] |-> [depth \in Int |-> NodeText(p[2], p[1], depth)]]
<1>1. PICK height \in [Walked -> Nat] : IsHeight(Walked, height)
  BY DEF FiniteTrees
<1>2. Step \in [Walked \X [Walked -> V] -> V]
  <2>1. \A p \in Walked \X [Walked -> V] : p[1] \in Walked /\ p[2] \in Tables
    BY DEF Tables
  <2>2. \A p \in Walked \X [Walked -> V] : [depth \in Int |-> NodeText(p[2], p[1], depth)] \in V
    BY <2>1, NodeTextType
  <2>. QED
    BY <2>2
<1>3. \A n \in Walked, f \in [Walked -> V] : Step[<<n, f>>] = [depth \in Int |-> NodeText(f, n, depth)]
  OBVIOUS
<1>4. ASSUME NEW n \in Walked, NEW f \in [Walked -> V], NEW g \in [Walked -> V],
             \A m \in Walked : height[m] < height[n] => f[m] = g[m]
      PROVE  Step[<<n, f>>] = Step[<<n, g>>]
  <2>1. \A child \in Children(n) : height[child] < height[n]
    BY <1>1 DEF IsHeight
  <2>2. \A child \in Children(n) \cap Nodes : f[child] = g[child]
    BY <1>4, <2>1 DEF Walked
  <2>3. \A depth \in Int : NodeText(f, n, depth) = NodeText(g, n, depth)
    BY <2>2, TextFromBelow
  <2>4. /\ Step[<<n, f>>] = [depth \in Int |-> NodeText(f, n, depth)]
        /\ Step[<<n, g>>] = [depth \in Int |-> NodeText(g, n, depth)]
    BY <1>3
  <2>. HIDE DEF Step
  <2>. QED
    BY <2>3, <2>4, Zenon
<1>5. V # {}
  <2>1. <<>> \in Seq(Symbol)
    OBVIOUS
  <2>2. [depth \in Int |-> <<>>] \in V
    BY <2>1
  <2>. QED
    BY <2>2
<1>6. PICK f \in [Walked -> V] : \A n \in Walked : f[n] = Step[<<n, f>>]
  <2>. HIDE DEF Step, V
  <2>1. \A n \in Walked : \A f, g \in [Walked -> V] :
          (\A m \in Walked : height[m] < height[n] => f[m] = g[m]) => Step[<<n, f>>] = Step[<<n, g>>]
    BY <1>4, Zenon
  <2>2. Descends(Walked, V, height, Step)
    BY <2>1, Zenon DEF Descends
  <2>3. \E f \in [Walked -> V] : Solves(f, Walked, Step)
    BY <1>1, <1>2, <1>5, <2>2, RecursionExists
  <2>. QED
    BY <2>3, Zenon DEF Solves
<1>. DEFINE Is(t) == t = [node \in Walked |-> [depth \in Int |-> NodeText(t, node, depth)]]
<1>7. Is(f)
  <2>1. \A n \in Walked : f[n] = [depth \in Int |-> NodeText(f, n, depth)]
    BY <1>3, <1>6, Zenon
  <2>2. f = [n \in Walked |-> f[n]]
    OBVIOUS
  <2>. HIDE DEF Step
  <2>. QED
    BY <2>1, <2>2
<1>8. Text = CHOOSE t : Is(t)
  BY DEF Text
<1>9. Is(Text)
  <2>. HIDE DEF Is
  <2>. QED
    BY <1>7, <1>8
<1>10. \A node \in Walked, depth \in Int : Text[node][depth] = NodeText(Text, node, depth)
  <2>1. \A node \in Walked : Text[node] = [depth \in Int |-> NodeText(Text, node, depth)]
    BY <1>9
  <2>. QED
    BY <2>1
<1>11. ASSUME NEW node \in Walked
       PROVE  Text[node] = f[node]
  <2>. DEFINE S == {k \in Nat : \A n \in Walked : height[n] < k => Text[n] = f[n]}
  <2>0. \A n \in Walked : height[n] \in Nat
    OBVIOUS
  <2>1. 0 \in S
    BY <2>0
  <2>2. ASSUME NEW k \in Nat, k \in S
        PROVE  k + 1 \in S
    <3>1. ASSUME NEW n \in Walked, height[n] < k + 1
          PROVE  Text[n] = f[n]
      <4>1. \A child \in Children(n) : height[child] < height[n]
        BY <1>1 DEF IsHeight
      <4>2. \A child \in Children(n) \cap Nodes : Text[child] = f[child]
        <5>1. ASSUME NEW child \in Children(n) \cap Nodes
              PROVE  Text[child] = f[child]
          <6>1. child \in Walked /\ height[child] < height[n]
            BY <4>1 DEF Walked
          <6>2. height[child] < k
            BY <2>0, <3>1, <6>1
          <6>. QED
            BY <2>2, <6>1, <6>2
        <5>. QED
          BY <5>1
      <4>3. \A depth \in Int : NodeText(Text, n, depth) = NodeText(f, n, depth)
        BY <4>2, TextFromBelow
      <4>4. /\ Text[n] = [depth \in Int |-> NodeText(Text, n, depth)]
            /\ f[n] = [depth \in Int |-> NodeText(f, n, depth)]
        BY <1>7, <1>9
      <4>. HIDE DEF Is, Step
      <4>. QED
        BY <4>3, <4>4
    <3>. QED
      BY <3>1
  <2>. HIDE DEF S
  <2>3. height[node] + 1 \in S
    BY <2>0, <2>1, <2>2, SetInduction
  <2>4. height[node] < height[node] + 1
    BY <2>0
  <2>. QED
    BY <2>3, <2>4 DEF S
<1>12. Text = f
  <2>1. Text = [n \in Walked |-> Text[n]]
    BY <1>9
  <2>2. f = [n \in Walked |-> f[n]]
    OBVIOUS
  <2>. HIDE DEF Is
  <2>. QED
    BY <1>11, <2>1, <2>2, Zenon
<1>. QED
  BY <1>10, <1>12 DEF Tables, TextsSettled

-----------------------------------------------------------------------------
(* What the tasks of the active calls are going to write.                  *)

\* The indent, and what is written.
State == [indent : Int, text : Seq(Symbol)]
With(indent_, text) == [indent |-> indent_, text |-> text]

TaskText(task, depth) ==
  CASE task.do = "put" -> task.text
    [] task.do = "generate" -> Text[task.node][depth]
    [] task.do = "param" -> NameText(task.node)
    [] task.do = "print" -> Levels(depth)
    [] OTHER -> <<>>

Deeper(task) == IF task.do = "indent" THEN task.by ELSE 0

\* A task writes its text behind the others.
Does ==
  {p \in State \X Task \X State :
     /\ p[3].text = p[1].text \o TaskText(p[2], p[1].indent)
     /\ p[3].indent = p[1].indent + Deeper(p[2])}

\* Tasks that write a text, and change the indent to another.
Writes(depth, tasks, text, end) ==
  /\ depth \in Int /\ end \in Int /\ tasks \in Seq(Task) /\ text \in Seq(Symbol)
  /\ \A before \in Seq(Symbol) :
       Leads(Does, State, With(depth, before), tasks, With(end, before \o text))

\* One task.
LEMMA WritesTask ==
  ASSUME NEW depth \in Int, NEW task \in Task, TaskText(task, depth) \in Seq(Symbol), Deeper(task) \in Int
  PROVE  Writes(depth, <<task>>, TaskText(task, depth), depth + Deeper(task))
<1>. DEFINE text == TaskText(task, depth)
            end == depth + Deeper(task)
<1>1. end \in Int /\ <<task>> \in Seq(Task)
  OBVIOUS
<1>2. ASSUME NEW before \in Seq(Symbol)
      PROVE  Leads(Does, State, With(depth, before), <<task>>, With(end, before \o text))
  <2>1. before \o text \in Seq(Symbol)
    OBVIOUS
  <2>2. With(depth, before) \in State /\ With(end, before \o text) \in State
    BY <1>1, <2>1 DEF With, State
  <2>3. /\ With(depth, before).text = before /\ With(depth, before).indent = depth
        /\ With(end, before \o text).text = before \o text /\ With(end, before \o text).indent = end
    BY DEF With
  <2>4. <<With(depth, before), task, With(end, before \o text)>> \in Does
    <3>1. PICK q \in State, r \in State : q = With(depth, before) /\ r = With(end, before \o text)
      BY <2>2
    <3>2. r.text = q.text \o TaskText(task, q.indent) /\ r.indent = q.indent + Deeper(task)
      BY <2>3, <3>1
    <3>3. <<q, task, r>> \in Does
      BY <3>2 DEF Does
    <3>. QED
      BY <3>1, <3>3
  <2>. HIDE DEF text, end
  <2>. QED
    <3>1. \A q, r \in State, t \in Task : <<q, t, r>> \in Does => Leads(Does, State, q, <<t>>, r)
      BY LeadsShort
    <3>. QED
      BY <2>2, <2>4, <3>1, Zenon
<1>. QED
  BY <1>1, <1>2 DEF Writes

\* Each kind of task.
LEMMA WritesOne ==
  ASSUME TextsSettled, NEW depth \in Int
  PROVE  /\ \A node \in Walked : Writes(depth, <<Gen(node)>>, Text[node][depth], depth)
         /\ \A text \in Seq(Token) : Writes(depth, <<Put(text)>>, text, depth)
         /\ \A node \in Nodes : Writes(depth, <<Param(node)>>, NameText(node), depth)
         /\ \A by \in {1, -1} : Writes(depth, <<Indent(by)>>, <<>>, depth + by)
         /\ Writes(depth, <<PrintIndent>>, Levels(depth), depth)
<1>0. depth + 0 = depth
  OBVIOUS
<1>1. ASSUME NEW task \in Task, NEW text \in Seq(Symbol), NEW end, TaskText(task, depth) = text,
             Deeper(task) \in Int, depth + Deeper(task) = end
      PROVE  Writes(depth, <<task>>, text, end)
  BY <1>1, WritesTask
<1>2. ASSUME NEW node \in Walked
      PROVE  Writes(depth, <<Gen(node)>>, Text[node][depth], depth)
  <2>1. Gen(node) \in Task
    BY TaskKinds
  <2>2. TaskText(Gen(node), depth) = Text[node][depth] /\ Deeper(Gen(node)) = 0
    BY DEF TaskText, Gen, Deeper
  <2>3. Text[node][depth] \in Seq(Symbol)
    BY DEF TextsSettled, Tables
  <2>. QED
    BY <1>0, <1>1, <2>1, <2>2, <2>3
<1>3. ASSUME NEW text \in Seq(Token)
      PROVE  Writes(depth, <<Put(text)>>, text, depth)
  <2>1. Put(text) \in Task
    BY TaskKinds
  <2>2. TaskText(Put(text), depth) = text /\ Deeper(Put(text)) = 0
    BY DEF TaskText, Put, Deeper
  <2>3. text \in Seq(Symbol)
    BY JoinedTexts
  <2>. QED
    BY <1>0, <1>1, <2>1, <2>2, <2>3
<1>4. ASSUME NEW node \in Nodes
      PROVE  Writes(depth, <<Param(node)>>, NameText(node), depth)
  <2>1. Param(node) \in Task
    BY TaskKinds
  <2>2. TaskText(Param(node), depth) = NameText(node) /\ Deeper(Param(node)) = 0
    BY DEF TaskText, Param, Deeper
  <2>3. NameText(node) \in Seq(Symbol)
    <3>1. node.name \in Token
      BY JoinedTexts
    <3>2. <<node.name>> \in Seq(Symbol) /\ <<>> \in Seq(Symbol)
      BY <3>1, FixedTexts, JoinedTexts, Zenon
    <3>. QED
      BY <3>2, Zenon DEF NameText
  <2>. QED
    BY <1>0, <1>1, <2>1, <2>2, <2>3
<1>5. ASSUME NEW by \in {1, -1}
      PROVE  Writes(depth, <<Indent(by)>>, <<>>, depth + by)
  <2>1. Indent(by) \in Task
    BY TaskKinds
  <2>2. TaskText(Indent(by), depth) = <<>> /\ Deeper(Indent(by)) = by
    BY DEF TaskText, Indent, Deeper
  <2>3. <<>> \in Seq(Symbol) /\ by \in Int
    OBVIOUS
  <2>. QED
    BY <1>1, <2>1, <2>2, <2>3
<1>6. Writes(depth, <<PrintIndent>>, Levels(depth), depth)
  <2>1. PrintIndent \in Task
    BY TaskKinds
  <2>2. TaskText(PrintIndent, depth) = Levels(depth) /\ Deeper(PrintIndent) = 0
    BY DEF TaskText, PrintIndent, Deeper
  <2>3. Levels(depth) \in Seq(Symbol)
    BY FixedTexts, JoinedTexts
  <2>. QED
    BY <1>0, <1>1, <2>1, <2>2, <2>3
<1>. QED
  BY <1>2, <1>3, <1>4, <1>5, <1>6, Zenon

\* No task, and one list of tasks behind another.
LEMMA WritesConcat ==
  /\ \A depth \in Int : Writes(depth, <<>>, <<>>, depth)
  /\ \A depth, middle, end, some, more, text, rest :
       Writes(depth, some, text, middle) /\ Writes(middle, more, rest, end)
         => Writes(depth, some \o more, text \o rest, end)
<1>1. ASSUME NEW depth \in Int
      PROVE  Writes(depth, <<>>, <<>>, depth)
  <2>1. PICK none : none = <<>> /\ none \in Seq(Task) /\ none \in Seq(Symbol) /\ \A s \in Seq(Symbol) : s \o none = s
    <3>1. <<>> \in Seq(Task) /\ <<>> \in Seq(Symbol) /\ \A s \in Seq(Symbol) : s \o <<>> = s
      OBVIOUS
    <3>. QED
      BY <3>1, Zenon
  <2>2. \A before \in Seq(Symbol) : With(depth, before) \in State
    BY DEF With, State
  <2>3. \A q \in State : Leads(Does, State, q, none, q)
    BY <2>1, LeadsShort
  <2>. QED
    BY <2>1, <2>2, <2>3, Zenon DEF Writes
<1>2. ASSUME NEW depth, NEW middle, NEW end, NEW some, NEW more, NEW text, NEW rest,
             Writes(depth, some, text, middle), Writes(middle, more, rest, end)
      PROVE  Writes(depth, some \o more, text \o rest, end)
  <2>1. /\ some \in Seq(Task) /\ more \in Seq(Task) /\ text \in Seq(Symbol) /\ rest \in Seq(Symbol)
        /\ depth \in Int /\ end \in Int
    BY <1>2 DEF Writes
  <2>2. some \o more \in Seq(Task) /\ text \o rest \in Seq(Symbol)
    BY <2>1
  <2>3. ASSUME NEW before \in Seq(Symbol)
        PROVE  Leads(Does, State, With(depth, before), some \o more, With(end, before \o (text \o rest)))
    <3>1. before \o text \in Seq(Symbol) /\ (before \o text) \o rest = before \o (text \o rest)
      BY <2>1, ConcatAssociative, SMTT(60)
    <3>2. /\ Leads(Does, State, With(depth, before), some, With(middle, before \o text))
          /\ Leads(Does, State, With(middle, before \o text), more, With(end, (before \o text) \o rest))
      BY <1>2, <3>1 DEF Writes
    <3>3. Leads(Does, State, With(depth, before), some \o more, With(end, (before \o text) \o rest))
      BY <2>1, <3>2, LeadsConcat
    <3>. QED
      BY <3>1, <3>3
  <2>. QED
    BY <2>1, <2>2, <2>3 DEF Writes
<1>. QED
  BY <1>1, <1>2

\* Two tasks.
LEMMA WritesTwo ==
  ASSUME NEW p, NEW q, NEW r, NEW a, NEW b, NEW s, NEW t, Writes(p, <<a>>, s, q), Writes(q, <<b>>, t, r)
  PROVE  Writes(p, <<a, b>>, s \o t, r)
<1>1. Writes(p, <<a>> \o <<b>>, s \o t, r)
  BY WritesConcat, Zenon
<1>. QED
  BY <1>1, Two, Zenon

\* Three.
LEMMA WritesThree ==
  ASSUME NEW p, NEW q, NEW r, NEW z, NEW a, NEW b, NEW c, NEW s, NEW t, NEW u,
         Writes(p, <<a>>, s, q), Writes(q, <<b>>, t, r), Writes(r, <<c>>, u, z)
  PROVE  Writes(p, <<a, b, c>>, s \o t \o u, z)
<1>1. Writes(p, <<a, b>>, s \o t, r)
  BY WritesTwo
<1>2. Writes(p, <<a, b>> \o <<c>>, s \o t \o u, z)
  BY <1>1, WritesConcat, Zenon
<1>. QED
  BY <1>2, Three, Zenon

\* Four.
LEMMA WritesFour ==
  ASSUME NEW p, NEW q, NEW r, NEW y, NEW z, NEW a, NEW b, NEW c, NEW d, NEW s, NEW t, NEW u, NEW v,
         Writes(p, <<a>>, s, q), Writes(q, <<b>>, t, r), Writes(r, <<c>>, u, y), Writes(y, <<d>>, v, z)
  PROVE  Writes(p, <<a, b, c, d>>, s \o t \o u \o v, z)
<1>1. Writes(p, <<a, b, c>>, s \o t \o u, y)
  BY WritesThree
<1>2. Writes(p, <<a, b, c>> \o <<d>>, s \o t \o u \o v, z)
  BY <1>1, WritesConcat, Zenon
<1>. QED
  BY <1>2, Four, Zenon

\* A sequence that is not empty has a last element.
LEMMA LastBehind ==
  ASSUME NEW V, NEW s \in Seq(V), NEW n \in Nat, Len(s) = n + 1
  PROVE  \E f \in Seq(V), e \in V : Len(f) = n /\ e = s[n + 1] /\ s = Append(f, e) /\ \A i \in 1 .. n : f[i] = s[i]
<1>1. s # <<>>
  OBVIOUS
<1>2. /\ Front(s) \in Seq(V) /\ Last(s) \in V /\ Len(Front(s)) = n
      /\ Last(s) = s[n + 1] /\ \A i \in 1 .. n : Front(s)[i] = s[i]
  BY <1>1, FrontLast, SMTT(60)
<1>3. PICK f \in Seq(V), e \in V : /\ Len(f) = n /\ e = s[n + 1]
                                   /\ \A i \in 1 .. n : f[i] = s[i]
  BY <1>2
<1>4. Append(f, e) = s
  BY <1>3
<1>. QED
  BY <1>3, <1>4

\* Lists of tasks one behind the other, each of which comes back to the indent.
LEMMA WritesFlat ==
  ASSUME NEW depth \in Int
  PROVE  \A n \in Nat : \A seqs \in Seq(Seq(Task)), texts \in Seq(Seq(Symbol)) :
           Len(seqs) = n /\ Len(texts) = n /\ (\A i \in 1 .. n : Writes(depth, seqs[i], texts[i], depth))
             => Writes(depth, FlattenSeq(seqs), FlattenSeq(texts), depth)
<1>. DEFINE S == {n \in Nat : \A seqs \in Seq(Seq(Task)), texts \in Seq(Seq(Symbol)) :
                    Len(seqs) = n /\ Len(texts) = n /\ (\A i \in 1 .. n : Writes(depth, seqs[i], texts[i], depth))
                      => Writes(depth, FlattenSeq(seqs), FlattenSeq(texts), depth)}
<1>1. 0 \in S
  <2>1. ASSUME NEW seqs \in Seq(Seq(Task)), NEW texts \in Seq(Seq(Symbol)), Len(seqs) = 0, Len(texts) = 0
        PROVE  Writes(depth, FlattenSeq(seqs), FlattenSeq(texts), depth)
    <3>1. seqs = <<>> /\ texts = <<>>
      BY <2>1
    <3>2. FlattenSeq(<<>>) = <<>>
      <4>1. <<>> \in Seq(Task)
        OBVIOUS
      <4>. QED
        BY <4>1, FlattenAppend
    <3>3. Writes(depth, <<>>, <<>>, depth)
      BY WritesConcat
    <3>. QED
      BY <3>1, <3>2, <3>3, Zenon
  <2>. QED
    BY <2>1
<1>2. ASSUME NEW n \in Nat, n \in S
      PROVE  n + 1 \in S
  <2>1. ASSUME NEW seqs \in Seq(Seq(Task)), NEW texts \in Seq(Seq(Symbol)), Len(seqs) = n + 1, Len(texts) = n + 1,
               \A i \in 1 .. n + 1 : Writes(depth, seqs[i], texts[i], depth)
        PROVE  Writes(depth, FlattenSeq(seqs), FlattenSeq(texts), depth)
    <3>1. PICK s \in Seq(Seq(Task)), tasks \in Seq(Task) :
            Len(s) = n /\ tasks = seqs[n + 1] /\ seqs = Append(s, tasks) /\ \A i \in 1 .. n : s[i] = seqs[i]
      <4>1. n \in Nat /\ seqs \in Seq(Seq(Task)) /\ Len(seqs) = n + 1
        BY <2>1
      <4>. QED
        BY ONLY <4>1, LastBehind, ZenonT(60)
    <3>2. PICK t \in Seq(Seq(Symbol)), text \in Seq(Symbol) :
            Len(t) = n /\ text = texts[n + 1] /\ texts = Append(t, text) /\ \A i \in 1 .. n : t[i] = texts[i]
      <4>1. n \in Nat /\ texts \in Seq(Seq(Symbol)) /\ Len(texts) = n + 1
        BY <2>1
      <4>. QED
        BY ONLY <4>1, LastBehind, ZenonT(60)
    <3>3. seqs = Append(s, tasks) /\ texts = Append(t, text)
      BY <3>1, <3>2
    <3>4. \A i \in 1 .. n : Writes(depth, s[i], t[i], depth)
      <4>1. \A i \in 1 .. n : i \in 1 .. n + 1
        OBVIOUS
      <4>. QED
        BY <2>1, <3>1, <3>2, <4>1
    <3>5. Writes(depth, FlattenSeq(s), FlattenSeq(t), depth)
      BY <1>2, <3>1, <3>2, <3>4
    <3>6. Writes(depth, tasks, text, depth)
      <4>1. n + 1 \in 1 .. n + 1
        OBVIOUS
      <4>. QED
        BY <2>1, <3>1, <3>2, <4>1
    <3>7. FlattenSeq(Append(s, tasks)) = FlattenSeq(s) \o tasks /\ FlattenSeq(Append(t, text)) = FlattenSeq(t) \o text
      BY FlattenAppend
    <3>8. Writes(depth, FlattenSeq(s) \o tasks, FlattenSeq(t) \o text, depth)
      BY <3>5, <3>6, WritesConcat
    <3>. QED
      BY <3>3, <3>7, <3>8
  <2>. QED
    BY <2>1
<1>. HIDE DEF S
<1>3. Nat \subseteq S
  BY <1>1, <1>2, SetInduction
<1>. QED
  BY <1>3 DEF S

\* One list of tasks for each node.
LEMMA WritesEach ==
  ASSUME NEW depth \in Int, NEW nodes \in Seq(Nodes), NEW f, NEW t,
         f = [i \in DOMAIN nodes |-> f[i]], t = [i \in DOMAIN nodes |-> t[i]],
         \A i \in 1 .. Len(nodes) : Writes(depth, f[i], t[i], depth)
  PROVE  /\ f \in Seq(Seq(Task)) /\ t \in Seq(Seq(Symbol)) /\ Len(f) = Len(nodes) /\ Len(t) = Len(nodes)
         /\ Writes(depth, FlattenSeq(f), FlattenSeq(t), depth)
<1>1. \A i \in 1 .. Len(nodes) : f[i] \in Seq(Task) /\ t[i] \in Seq(Symbol)
  BY DEF Writes
<1>2. f \in Seq(Seq(Task)) /\ t \in Seq(Seq(Symbol)) /\ DOMAIN f = 1 .. Len(nodes) /\ DOMAIN t = 1 .. Len(nodes)
  BY <1>1, EachNode
<1>3. Len(f) = Len(nodes) /\ Len(t) = Len(nodes) /\ Len(nodes) \in Nat
  BY <1>2
<1>4. Writes(depth, FlattenSeq(f), FlattenSeq(t), depth)
  BY <1>2, <1>3, WritesFlat
<1>. QED
  BY <1>2, <1>3, <1>4

\* And something between them.
LEMMA WritesSeparated ==
  ASSUME NEW depth \in Int, NEW nodes \in Seq(Nodes), NEW f, NEW t, NEW separator, NEW s,
         f = [i \in DOMAIN nodes |-> f[i]], t = [i \in DOMAIN nodes |-> t[i]],
         \A i \in 1 .. Len(nodes) : Writes(depth, f[i], t[i], depth),
         Writes(depth, separator, s, depth)
  PROVE  Writes(depth, Separated(f, separator), Separated(t, s), depth)
<1>. DEFINE g == [i \in DOMAIN f |-> IF i = 1 THEN f[i] ELSE separator \o f[i]]
            u == [i \in DOMAIN t |-> IF i = 1 THEN t[i] ELSE s \o t[i]]
<1>1. DOMAIN f = DOMAIN nodes /\ DOMAIN t = DOMAIN nodes /\ DOMAIN nodes = 1 .. Len(nodes)
  OBVIOUS
<1>2. ASSUME NEW i \in 1 .. Len(nodes)
      PROVE  Writes(depth, g[i], u[i], depth)
  <2>1. Writes(depth, f[i], t[i], depth) /\ Writes(depth, separator \o f[i], s \o t[i], depth)
    BY WritesConcat
  <2>2. /\ g[i] = IF i = 1 THEN f[i] ELSE separator \o f[i]
        /\ u[i] = IF i = 1 THEN t[i] ELSE s \o t[i]
    BY <1>1
  <2>. QED
    BY <2>1, <2>2
<1>3. g = [i \in DOMAIN nodes |-> g[i]] /\ u = [i \in DOMAIN nodes |-> u[i]]
  BY <1>1
<1>4. Separated(f, separator) = FlattenSeq(g) /\ Separated(t, s) = FlattenSeq(u)
  BY DEF Separated
<1>. HIDE DEF g, u
<1>5. Writes(depth, FlattenSeq(g), FlattenSeq(u), depth)
  BY <1>2, <1>3, WritesEach
<1>. QED
  BY <1>4, <1>5

\* What the texts of the handlers write.
LEMMA FixedWrites ==
  ASSUME TextsSettled, NEW depth \in Int
  PROVE  /\ Writes(depth, <<Break>>, <<"\n">>, depth) /\ Writes(depth, <<Semicolon>>, <<";">>, depth)
         /\ Writes(depth, <<Comma>>, <<", ">>, depth)
         /\ Writes(depth, <<Quote>>, <<"\"">>, depth) /\ Writes(depth, <<QuoteBar>>, <<"\"", "_">>, depth)
         /\ Writes(depth, <<ParamsOpening>>, <<"params ", "[">>, depth)
         /\ Writes(depth, <<ArrayOpening>>, <<"[">>, depth) /\ Writes(depth, <<ArrayClosing>>, <<"]">>, depth)
         /\ Writes(depth, <<OperationOpening>>, <<"(">>, depth)
         /\ Writes(depth, <<OperationClosing>>, <<")">>, depth)
         /\ Writes(depth, <<Put(BodyOpening)>>, <<" = ", "{", "\n">>, depth)
         /\ Writes(depth, <<Put(BodyClosing)>>, <<"}">>, depth)
<1>1. \A text \in Seq(Token) : Writes(depth, <<Put(text)>>, text, depth)
  BY WritesOne
<1>2. /\ Break = Put(<<"\n">>) /\ Semicolon = Put(<<";">>) /\ Comma = Put(<<", ">>)
      /\ Quote = Put(<<"\"">>) /\ QuoteBar = Put(<<"\"", "_">>) /\ ParamsOpening = Put(<<"params ", "[">>)
      /\ ArrayOpening = Put(<<"[">>) /\ ArrayClosing = Put(<<"]">>)
      /\ OperationOpening = Put(<<"(">>) /\ OperationClosing = Put(<<")">>)
      /\ BodyOpening = <<" = ", "{", "\n">> /\ BodyClosing = <<"}">>
  BY Zenon DEF Break, Semicolon, Comma, Quote, QuoteBar, ParamsOpening, ArrayOpening, ArrayClosing,
               OperationOpening, OperationClosing, BodyOpening, BodyClosing
<1>3. /\ <<"\n">> \in Seq(Token) /\ <<";">> \in Seq(Token) /\ <<", ">> \in Seq(Token)
      /\ <<"\"">> \in Seq(Token) /\ <<"\"", "_">> \in Seq(Token) /\ <<"params ", "[">> \in Seq(Token)
      /\ <<"[">> \in Seq(Token) /\ <<"]">> \in Seq(Token) /\ <<"(">> \in Seq(Token)
      /\ <<")">> \in Seq(Token) /\ <<" = ", "{", "\n">> \in Seq(Token) /\ <<"}">> \in Seq(Token)
  BY FixedTexts, Zenon
<1>. QED
  BY <1>1, <1>2, <1>3, Zenon

AreTexts(s, t, u) == s \in Seq(Symbol) /\ t \in Seq(Symbol) /\ u \in Seq(Symbol)

AreParts(p, c, d, e, f, g, h, i) ==
  AreTexts(p, c, d) /\ AreTexts(e, f, g) /\ AreTexts(h, i, h)

\* Joining texts.
LEMMA Joins ==
  /\ \A s \in Seq(Symbol) : <<>> \o s = s /\ s \o <<>> = s
  /\ \A s, t, u : AreTexts(s, t, u) => (s \o t) \o u = s \o (t \o u)
<1>1. \A s \in Seq(Symbol) : <<>> \o s = s /\ s \o <<>> = s
  OBVIOUS
<1>2. \A s, t, u : AreTexts(s, t, u) => (s \o t) \o u = s \o (t \o u)
  BY ConcatAssociative DEF AreTexts
<1>. QED
  BY <1>1, <1>2

\* Joining the texts of a function.
LEMMA JoinsMany ==
  ASSUME NEW p, NEW c, NEW d, NEW e, NEW f, NEW g, NEW h, NEW i, AreParts(p, c, d, e, f, g, h, i)
  PROVE  p \o (c \o d \o e \o f) \o g \o h \o i = p \o c \o d \o e \o (f \o g) \o h \o i
<1>0. /\ p \in Seq(Symbol) /\ c \in Seq(Symbol) /\ d \in Seq(Symbol) /\ e \in Seq(Symbol)
      /\ f \in Seq(Symbol) /\ g \in Seq(Symbol)
  BY DEF AreParts, AreTexts
<1>1. c \o d \in Seq(Symbol) /\ c \o d \o e \in Seq(Symbol) /\ p \o c \o d \o e \in Seq(Symbol)
  BY <1>0, JoinedTexts, Zenon
<1>2. PICK x, y, z \in Seq(Symbol) : x = c \o d /\ y = c \o d \o e /\ z = p \o c \o d \o e \o f
  BY <1>0, <1>1, JoinedTexts, Zenon
<1>3. PICK w \in Seq(Symbol) : w = p \o c \o d \o e
  BY <1>1, Zenon
<1>4. AreTexts(p, c, d) /\ AreTexts(p, x, e) /\ AreTexts(p, y, f) /\ AreTexts(w, f, g)
  BY <1>0 DEF AreTexts
<1>5. /\ (p \o c) \o d = p \o (c \o d) /\ (p \o x) \o e = p \o (x \o e)
      /\ (p \o y) \o f = p \o (y \o f) /\ (w \o f) \o g = w \o (f \o g)
  <2>0. \A s, t, u : AreTexts(s, t, u) => (s \o t) \o u = s \o (t \o u)
    BY Joins
  <2>1. (p \o c) \o d = p \o (c \o d)
    BY <1>4, <2>0, SMTT(60)
  <2>2. (p \o x) \o e = p \o (x \o e)
    BY <1>4, <2>0, SMTT(60)
  <2>3. (p \o y) \o f = p \o (y \o f)
    BY <1>4, <2>0, SMTT(60)
  <2>4. (w \o f) \o g = w \o (f \o g)
    BY <1>4, <2>0, SMTT(60)
  <2>. QED
    BY <2>1, <2>2, <2>3, <2>4, Zenon
<1>6. p \o (c \o d \o e \o f) \o g = w \o (f \o g)
  BY <1>2, <1>3, <1>5, Zenon
<1>. QED
  BY <1>3, <1>6, Zenon

\* sqf_gen_list.
LEMMA ListWrites ==
  ASSUME TextsSettled, NEW depth \in Int, NEW nodes \in Seq(Nodes)
  PROVE  Writes(depth, List(nodes), StatementsText(Text, nodes, depth + 1), depth)
<1>. DEFINE deeper == depth + 1
            f == [i \in DOMAIN nodes |-> <<Break, PrintIndent, Gen(nodes[i]), Semicolon>>]
            t == [i \in DOMAIN nodes |-> <<"\n">> \o Levels(deeper) \o Text[nodes[i]][deeper] \o <<";">>]
<1>1. deeper \in Int /\ deeper + -1 = depth /\ deeper - 1 = depth
  OBVIOUS
<1>2. CASE nodes = <<>>
  <2>1. List(nodes) = <<>> /\ StatementsText(Text, nodes, depth + 1) = <<>>
    BY <1>2, Zenon DEF List, StatementsText
  <2>2. Writes(depth, <<>>, <<>>, depth)
    BY WritesConcat
  <2>. QED
    BY <2>1, <2>2, Zenon
<1>3. CASE nodes # <<>>
  <2>1. List(nodes) = <<Indent(1)>> \o FlattenSeq(f) \o <<Indent(-1), Break, PrintIndent>>
    BY <1>3, Zenon DEF List, Break, Semicolon
  <2>2. StatementsText(Text, nodes, depth + 1) = FlattenSeq(t) \o <<"\n">> \o Levels(depth)
    BY <1>1, <1>3, Zenon DEF StatementsText
  <2>3. ASSUME NEW i \in 1 .. Len(nodes)
        PROVE  Writes(deeper, <<Break, PrintIndent, Gen(nodes[i]), Semicolon>>,
                      <<"\n">> \o Levels(deeper) \o Text[nodes[i]][deeper] \o <<";">>, deeper)
    <3>1. nodes[i] \in Walked
      BY DEF Walked
    <3>. HIDE DEF deeper
    <3>2. Writes(deeper, <<Break>>, <<"\n">>, deeper) /\ Writes(deeper, <<Semicolon>>, <<";">>, deeper)
      BY <1>1, FixedWrites, Zenon
    <3>3. Writes(deeper, <<PrintIndent>>, Levels(deeper), deeper) /\ Writes(deeper, <<Gen(nodes[i])>>, Text[nodes[i]][deeper], deeper)
      BY <1>1, <3>1, WritesOne
    <3>. QED
      BY <3>2, <3>3, WritesFour, Zenon
  <2>4. Writes(deeper, FlattenSeq(f), FlattenSeq(t), deeper)
    <3>0. DOMAIN nodes = 1 .. Len(nodes)
      OBVIOUS
    <3>1. /\ \A i \in 1 .. Len(nodes) : f[i] = <<Break, PrintIndent, Gen(nodes[i]), Semicolon>>
          /\ \A i \in 1 .. Len(nodes) : t[i] = <<"\n">> \o Levels(deeper) \o Text[nodes[i]][deeper] \o <<";">>
          /\ f = [i \in DOMAIN nodes |-> f[i]] /\ t = [i \in DOMAIN nodes |-> t[i]]
      BY <3>0, Zenon
    <3>. HIDE DEF f, t, deeper
    <3>2. \A i \in 1 .. Len(nodes) : Writes(deeper, f[i], t[i], deeper)
      BY <2>3, <3>1, Zenon
    <3>. QED
      BY <1>1, <3>1, <3>2, WritesEach
  <2>5. Writes(depth, <<Indent(1)>>, <<>>, deeper)
    BY WritesOne
  <2>6. Writes(deeper, <<Indent(-1), Break, PrintIndent>>, <<>> \o <<"\n">> \o Levels(depth), depth)
    <3>1. Writes(deeper, <<Indent(-1)>>, <<>>, depth)
      <4>. HIDE DEF deeper
      <4>1. \A by \in {1, -1} : Writes(deeper, <<Indent(by)>>, <<>>, deeper + by)
        BY <1>1, WritesOne
      <4>2. Writes(deeper, <<Indent(-1)>>, <<>>, deeper + -1)
        BY <4>1
      <4>. QED
        BY <1>1, <4>2
    <3>2. Writes(depth, <<Break>>, <<"\n">>, depth)
      BY FixedWrites, Zenon
    <3>3. Writes(depth, <<PrintIndent>>, Levels(depth), depth)
      BY WritesOne
    <3>. HIDE DEF deeper
    <3>. QED
      BY <3>1, <3>2, <3>3, WritesThree, Zenon
  <2>. HIDE DEF f, t, deeper
  <2>7. Writes(depth, List(nodes), (<<>> \o FlattenSeq(t)) \o (<<>> \o <<"\n">> \o Levels(depth)), depth)
    <3>1. Writes(depth, <<Indent(1)>> \o FlattenSeq(f), <<>> \o FlattenSeq(t), deeper)
      BY <2>4, <2>5, WritesConcat, Zenon
    <3>2. Writes(depth, (<<Indent(1)>> \o FlattenSeq(f)) \o <<Indent(-1), Break, PrintIndent>>,
                 (<<>> \o FlattenSeq(t)) \o (<<>> \o <<"\n">> \o Levels(depth)), depth)
      <4>1. PICK some, more, text, rest :
              /\ some = <<Indent(1)>> \o FlattenSeq(f) /\ more = <<Indent(-1), Break, PrintIndent>>
              /\ text = <<>> \o FlattenSeq(t) /\ rest = <<>> \o <<"\n">> \o Levels(depth)
        BY Zenon
      <4>2. Writes(depth, some, text, deeper) /\ Writes(deeper, more, rest, depth)
        BY <2>6, <3>1, <4>1, Zenon
      <4>3. Writes(depth, some \o more, text \o rest, depth)
        BY <4>2, WritesConcat
      <4>. QED
        BY <4>1, <4>3, Zenon
    <3>. QED
      BY <2>1, <3>2, Zenon
  <2>8. FlattenSeq(t) \in Seq(Symbol) /\ <<"\n">> \in Seq(Symbol) /\ Levels(depth) \in Seq(Symbol)
    BY <2>4, FixedTexts, JoinedTexts, Zenon DEF Writes
  <2>9. (<<>> \o FlattenSeq(t)) \o (<<>> \o <<"\n">> \o Levels(depth)) = FlattenSeq(t) \o <<"\n">> \o Levels(depth)
    <3>1. <<>> \o FlattenSeq(t) = FlattenSeq(t) /\ <<>> \o <<"\n">> = <<"\n">>
      BY <2>8, Joins, Zenon
    <3>2. PICK line \in Seq(Symbol) : line = <<"\n">>
      BY <2>8, Zenon
    <3>3. AreTexts(FlattenSeq(t), line, Levels(depth))
      BY <2>8 DEF AreTexts
    <3>4. (FlattenSeq(t) \o line) \o Levels(depth) = FlattenSeq(t) \o (line \o Levels(depth))
      BY <3>3, Joins
    <3>. QED
      BY <3>1, <3>2, <3>4, Zenon
  <2>. QED
    BY <2>2, <2>7, <2>9, Zenon
<1>. QED
  BY <1>2, <1>3

\* sqf_gen_params.
LEMMA ParamsWrites ==
  ASSUME TextsSettled, NEW depth \in Int, NEW nodes \in Seq(Nodes)
  PROVE  Writes(depth, Params(nodes), Levels(depth + 1) \o <<"params ", "[">> \o ParamsText(nodes) \o <<"]">>, depth)
<1>. DEFINE deeper == depth + 1
            f == [i \in DOMAIN nodes |-> <<QuoteBar, Param(nodes[i]), Quote>>]
            t == [i \in DOMAIN nodes |-> <<"\"", "_">> \o NameText(nodes[i]) \o <<"\"">>]
<1>1. deeper \in Int /\ deeper + -1 = depth
  OBVIOUS
<1>2. Params(nodes) = <<Indent(1), PrintIndent, Indent(-1), ParamsOpening>>
                        \o Separated(f, <<Comma>>) \o <<ArrayClosing>>
  BY Zenon DEF Params, QuoteBar, Quote, Comma, ParamsOpening, ArrayClosing
<1>3. ParamsText(nodes) = Separated(t, <<", ">>)
  BY Zenon DEF ParamsText
<1>4. ASSUME NEW i \in 1 .. Len(nodes)
      PROVE  Writes(depth, <<QuoteBar, Param(nodes[i]), Quote>>, <<"\"", "_">> \o NameText(nodes[i]) \o <<"\"">>, depth)
  <2>1. nodes[i] \in Nodes
    OBVIOUS
  <2>2. Writes(depth, <<QuoteBar>>, <<"\"", "_">>, depth) /\ Writes(depth, <<Quote>>, <<"\"">>, depth)
    BY FixedWrites, Zenon
  <2>3. Writes(depth, <<Param(nodes[i])>>, NameText(nodes[i]), depth)
    BY <2>1, WritesOne
  <2>. QED
    BY <2>2, <2>3, WritesThree, Zenon
<1>5. Writes(depth, Separated(f, <<Comma>>), Separated(t, <<", ">>), depth)
  <2>0. DOMAIN nodes = 1 .. Len(nodes)
    OBVIOUS
  <2>1. /\ \A i \in 1 .. Len(nodes) : f[i] = <<QuoteBar, Param(nodes[i]), Quote>>
        /\ \A i \in 1 .. Len(nodes) : t[i] = <<"\"", "_">> \o NameText(nodes[i]) \o <<"\"">>
        /\ f = [i \in DOMAIN nodes |-> f[i]] /\ t = [i \in DOMAIN nodes |-> t[i]]
    BY <2>0, Zenon
  <2>. HIDE DEF f, t
  <2>2. \A i \in 1 .. Len(nodes) : Writes(depth, f[i], t[i], depth)
    BY <1>4, <2>1, Zenon
  <2>3. PICK comma : comma = <<", ">> /\ Writes(depth, <<Comma>>, comma, depth)
    BY FixedWrites, Zenon
  <2>4. Writes(depth, Separated(f, <<Comma>>), Separated(t, comma), depth)
    BY <2>1, <2>2, <2>3, WritesSeparated
  <2>. QED
    BY <2>3, <2>4, Zenon
<1>6. Writes(depth, <<Indent(1), PrintIndent, Indent(-1), ParamsOpening>>,
             <<>> \o Levels(deeper) \o <<>> \o <<"params ", "[">>, depth)
  <2>1. Writes(depth, <<Indent(1)>>, <<>>, deeper)
    BY WritesOne
  <2>. HIDE DEF deeper
  <2>2. \A by \in {1, -1} : Writes(deeper, <<Indent(by)>>, <<>>, deeper + by)
    BY <1>1, WritesOne
  <2>3. Writes(deeper, <<Indent(-1)>>, <<>>, deeper + -1)
    BY <2>2
  <2>4. Writes(deeper, <<Indent(-1)>>, <<>>, depth)
    BY <1>1, <2>3
  <2>5. Writes(deeper, <<PrintIndent>>, Levels(deeper), deeper)
    BY <1>1, WritesOne
  <2>6. Writes(depth, <<ParamsOpening>>, <<"params ", "[">>, depth)
    BY FixedWrites, Zenon
  <2>. QED
    BY <2>1, <2>4, <2>5, <2>6, WritesFour, Zenon
<1>7. Writes(depth, <<ArrayClosing>>, <<"]">>, depth)
  BY FixedWrites, Zenon
<1>8. Levels(deeper) \in Seq(Symbol)
  BY <1>1, FixedTexts, JoinedTexts
<1>. HIDE DEF f, t, deeper
<1>9. <<>> \o Levels(deeper) \o <<>> = Levels(deeper)
  BY <1>8, Joins, Zenon
<1>10. Writes(depth, Params(nodes), <<>> \o Levels(deeper) \o <<>> \o <<"params ", "[">> \o Separated(t, <<", ">>) \o <<"]">>, depth)
  BY <1>2, <1>5, <1>6, <1>7, WritesConcat, Zenon
<1>11. Writes(depth, Params(nodes), Levels(deeper) \o <<"params ", "[">> \o ParamsText(nodes) \o <<"]">>, depth)
  BY <1>3, <1>9, <1>10, Zenon
<1>. QED
  BY <1>11 DEF deeper

\* sqf_gen_array.
LEMMA ArrayWrites ==
  ASSUME TextsSettled, NEW depth \in Int, NEW nodes \in Seq(Nodes)
  PROVE  Writes(depth, ArrayOf(nodes), <<"[">> \o ListText(Text, nodes, depth) \o <<"]">>, depth)
<1>. DEFINE f == [i \in DOMAIN nodes |-> <<Gen(nodes[i])>>]
            t == [i \in DOMAIN nodes |-> Text[nodes[i]][depth]]
<1>1. ArrayOf(nodes) = <<ArrayOpening>> \o Separated(f, <<Comma>>) \o <<ArrayClosing>>
  BY Zenon DEF ArrayOf, Comma, ArrayOpening, ArrayClosing
<1>2. ListText(Text, nodes, depth) = Separated(t, <<", ">>)
  BY Zenon DEF ListText
<1>3. Writes(depth, Separated(f, <<Comma>>), Separated(t, <<", ">>), depth)
  <2>1. \A i \in 1 .. Len(nodes) : nodes[i] \in Walked
    BY DEF Walked
  <2>2. \A i \in 1 .. Len(nodes) : Writes(depth, <<Gen(nodes[i])>>, Text[nodes[i]][depth], depth)
    BY <2>1, WritesOne
  <2>3. DOMAIN nodes = 1 .. Len(nodes)
    OBVIOUS
  <2>4. /\ \A i \in 1 .. Len(nodes) : f[i] = <<Gen(nodes[i])>> /\ t[i] = Text[nodes[i]][depth]
        /\ f = [i \in DOMAIN nodes |-> f[i]] /\ t = [i \in DOMAIN nodes |-> t[i]]
    BY <2>3, Zenon
  <2>. HIDE DEF f, t
  <2>5. \A i \in 1 .. Len(nodes) : Writes(depth, f[i], t[i], depth)
    BY <2>2, <2>4, Zenon
  <2>6. PICK comma : comma = <<", ">> /\ Writes(depth, <<Comma>>, comma, depth)
    BY FixedWrites, Zenon
  <2>7. Writes(depth, Separated(f, <<Comma>>), Separated(t, comma), depth)
    BY <2>4, <2>5, <2>6, WritesSeparated
  <2>. QED
    BY <2>6, <2>7, Zenon
<1>. HIDE DEF f, t
<1>4. PICK opens, closes : /\ opens = <<"[">> /\ closes = <<"]">>
                           /\ Writes(depth, <<ArrayOpening>>, opens, depth)
                           /\ Writes(depth, <<ArrayClosing>>, closes, depth)
  BY FixedWrites, Zenon
<1>5. PICK list : list = Separated(t, <<", ">>)
  OBVIOUS
<1>6. Writes(depth, <<ArrayOpening>> \o Separated(f, <<Comma>>), opens \o list, depth)
  BY <1>3, <1>4, <1>5, WritesConcat
<1>7. Writes(depth, <<ArrayOpening>> \o Separated(f, <<Comma>>) \o <<ArrayClosing>>, opens \o list \o closes, depth)
  BY <1>4, <1>6, WritesConcat
<1>. QED
  BY <1>1, <1>2, <1>4, <1>5, <1>7, Zenon

\* The texts with a name in them.
LEMMA NameWrites ==
  ASSUME TextsSettled, NEW depth \in Int, NEW name \in Token
  PROVE  /\ Writes(depth, <<Put(<<name>>)>>, <<name>>, depth)
         /\ Writes(depth, <<Put(<<"_", name>>)>>, <<"_", name>>, depth)
         /\ Writes(depth, <<Put(<<"private ", "_", name>>)>>, <<"private ", "_", name>>, depth)
         /\ Writes(depth, <<Put(<<" call ", "_", name>>)>>, <<" call ", "_", name>>, depth)
         /\ Writes(depth, <<Put(<<"\"", name, "\"">>)>>, <<"\"", name, "\"">>, depth)
         /\ Writes(depth, <<Put(<<" ", name, " ">>)>>, <<" ", name, " ">>, depth)
<1>1. \A text \in Seq(Token) : Writes(depth, <<Put(text)>>, text, depth)
  BY WritesOne
<1>2. /\ <<name>> \in Seq(Token) /\ <<"_", name>> \in Seq(Token) /\ <<"\"", name, "\"">> \in Seq(Token)
      /\ <<"private ", "_", name>> \in Seq(Token) /\ <<" call ", "_", name>> \in Seq(Token)
      /\ <<" ", name, " ">> \in Seq(Token)
  BY FixedTexts, Zenon
<1>. QED
  BY <1>1, <1>2, Zenon

\* sqf_gen_func_decl.
LEMMA FunctionWrites ==
  ASSUME TextsSettled, NEW depth \in Int, NEW node \in Nodes, node.type = "DECL_FUNCTION"
  PROVE  Writes(depth, <<Put(<<"private ", "_", node.name>>), Put(<<" = ", "{", "\n">>)>>
                         \o Params(node.args) \o <<Put(<<";">>)>> \o List(node.body) \o <<Put(<<"}">>)>>,
                NodeText(Text, node, depth), depth)
<1>. DEFINE declares == Put(<<"private ", "_", node.name>>)
            opens == Put(<<" = ", "{", "\n">>)
            closes == Put(<<"}">>)
<1>1. node.name \in Token /\ node.args \in Seq(Nodes) /\ node.body \in Seq(Nodes) /\ depth + 1 \in Int
  BY NodeFacts, JoinedTexts
<1>2. PICK a, b, c, d, e, f, g, h, i :
        /\ a = <<"private ", "_", node.name>> /\ b = <<" = ", "{", "\n">>
        /\ c = Levels(depth + 1) /\ d = <<"params ", "[">> /\ e = ParamsText(node.args) /\ f = <<"]">>
        /\ g = <<";">> /\ h = StatementsText(Text, node.body, depth + 1) /\ i = <<"}">>
  BY Zenon
<1>3. Writes(depth, <<declares>>, a, depth)
  BY <1>1, <1>2, NameWrites, Zenon
<1>4. Writes(depth, <<opens>>, b, depth) /\ Writes(depth, <<closes>>, i, depth)
  BY <1>2, FixedWrites, Zenon DEF BodyOpening, BodyClosing
<1>5. Writes(depth, <<Semicolon>>, g, depth)
  BY <1>2, FixedWrites, Zenon
<1>6. Writes(depth, Params(node.args), c \o d \o e \o f, depth)
  BY <1>1, <1>2, ParamsWrites, Zenon
<1>7. Writes(depth, List(node.body), h, depth)
  BY <1>1, <1>2, ListWrites, Zenon
<1>. HIDE DEF declares, opens, closes
<1>8. Writes(depth, <<declares, opens>>, a \o b, depth)
  BY <1>3, <1>4, WritesTwo
<1>9. PICK p : p = a \o b
  OBVIOUS
<1>10. Writes(depth, <<declares, opens>> \o Params(node.args), p \o (c \o d \o e \o f), depth)
  BY <1>6, <1>8, <1>9, WritesConcat
<1>11. Writes(depth, <<declares, opens>> \o Params(node.args) \o <<Semicolon>>, p \o (c \o d \o e \o f) \o g, depth)
  BY <1>5, <1>10, WritesConcat
<1>12. Writes(depth, <<declares, opens>> \o Params(node.args) \o <<Semicolon>> \o List(node.body),
              p \o (c \o d \o e \o f) \o g \o h, depth)
  BY <1>7, <1>11, WritesConcat
<1>13. Writes(depth, <<declares, opens>> \o Params(node.args) \o <<Semicolon>> \o List(node.body) \o <<closes>>,
              p \o (c \o d \o e \o f) \o g \o h \o i, depth)
  BY <1>4, <1>12, WritesConcat
<1>14. NodeText(Text, node, depth) = p \o c \o d \o e \o (f \o g) \o h \o i
  <2>1. NodeText(Text, node, depth) =
          <<"private ", "_", node.name, " = ", "{", "\n">> \o Levels(depth + 1)
            \o <<"params ", "[">> \o ParamsText(node.args) \o <<"]", ";">>
            \o StatementsText(Text, node.body, depth + 1) \o <<"}">>
    BY Zenon DEF NodeText
  <2>2. <<"private ", "_", node.name, " = ", "{", "\n">> = <<"private ", "_", node.name>> \o <<" = ", "{", "\n">>
    <3>1. PICK u, v, w, x, y, z : /\ u = "private " /\ v = "_" /\ w = node.name
                                  /\ x = " = " /\ y = "{" /\ z = "\n"
      BY Zenon
    <3>2. <<u, v, w, x, y, z>> = <<u, v, w>> \o <<x, y, z>>
      BY SixTokens
    <3>. QED
      BY <3>1, <3>2, Zenon
  <2>3. <<"]", ";">> = <<"]">> \o <<";">>
    BY Two, Zenon
  <2>. QED
    BY <1>2, <1>9, <2>1, <2>2, <2>3, Zenon
<1>15. /\ c \in Seq(Symbol) /\ d \in Seq(Symbol) /\ e \in Seq(Symbol) /\ f \in Seq(Symbol)
       /\ p \in Seq(Symbol) /\ g \in Seq(Symbol)
  <2>1. c \in Seq(Symbol) /\ d \in Seq(Symbol) /\ f \in Seq(Symbol)
    BY <1>1, <1>2, FixedTexts, JoinedTexts, Zenon
  <2>2. e \in Seq(Symbol)
    <3>1. Text \in Tables
      BY DEF TextsSettled
    <3>. QED
      BY <1>1, <1>2, <3>1, PartsType, Zenon
  <2>3. p \in Seq(Symbol) /\ g \in Seq(Symbol)
    BY <1>5, <1>8, <1>9, Zenon DEF Writes
  <2>. QED
    BY <2>1, <2>2, <2>3
<1>16. p \o (c \o d \o e \o f) \o g \o h \o i = p \o c \o d \o e \o (f \o g) \o h \o i
  <2>1. h \in Seq(Symbol) /\ i \in Seq(Symbol)
    BY <1>4, <1>7, Zenon DEF Writes
  <2>2. AreParts(p, c, d, e, f, g, h, i)
    BY <1>15, <2>1, Zenon DEF AreParts, AreTexts
  <2>. QED
    BY ONLY <2>2, JoinsMany
<1>. QED
  BY <1>13, <1>14, <1>16, Zenon DEF declares, opens, closes, Semicolon

\* sqf_gen_call.
LEMMA CallWrites ==
  ASSUME TextsSettled, NEW depth \in Int, NEW node \in Nodes, node.type = "FUNCTION_CALL"
  PROVE  Writes(depth, ArrayOf(node.args) \o <<Put(<<" call ", "_", node.name>>)>>, NodeText(Text, node, depth), depth)
<1>1. node.name \in Token /\ node.args \in Seq(Nodes)
  BY NodeFacts, JoinedTexts
<1>2. PICK s, t, u, name : /\ s = <<"[">> \o ListText(Text, node.args, depth) /\ t = <<"]">>
                           /\ u = <<" call ", "_", node.name>> /\ name = Put(<<" call ", "_", node.name>>)
  BY Zenon
<1>3. Writes(depth, ArrayOf(node.args), s \o t, depth) /\ Writes(depth, <<name>>, u, depth)
  BY <1>1, <1>2, ArrayWrites, NameWrites, Zenon
<1>4. Writes(depth, ArrayOf(node.args) \o <<name>>, (s \o t) \o u, depth)
  BY <1>3, WritesConcat
<1>5. NodeText(Text, node, depth) = s \o (t \o u)
  <2>1. NodeText(Text, node, depth) = <<"[">> \o ListText(Text, node.args, depth) \o <<"]", " call ", "_", node.name>>
    BY Zenon DEF NodeText
  <2>2. <<"]", " call ", "_", node.name>> = <<"]">> \o <<" call ", "_", node.name>>
    BY FourTokens, Zenon
  <2>. QED
    BY <1>2, <2>1, <2>2, Zenon
<1>6. AreTexts(s, t, u)
  <2>1. /\ <<"[">> \in Seq(Symbol) /\ <<"]">> \in Seq(Symbol) /\ <<" call ", "_", node.name>> \in Seq(Symbol)
    BY <1>1, FixedTexts, JoinedTexts, Zenon
  <2>2. ListText(Text, node.args, depth) \in Seq(Symbol)
    <3>1. Text \in Tables
      BY DEF TextsSettled
    <3>. QED
      BY <1>1, <3>1, PartsType, Zenon
  <2>. QED
    BY <1>2, <2>1, <2>2, JoinedTexts, Zenon DEF AreTexts
<1>7. (s \o t) \o u = s \o (t \o u)
  BY <1>6, Joins
<1>. QED
  BY <1>2, <1>4, <1>5, <1>7, Zenon

\* The operands of a node and an operator between them, in parentheses or not.
LEMMA OperandsWrite ==
  ASSUME TextsSettled, NEW depth \in Int, NEW l \in Nodes, NEW r \in Nodes, NEW op \in Token
  PROVE  /\ Writes(depth, <<Gen(l), Put(<<" ", op, " ">>), Gen(r)>>,
                   Text[l][depth] \o <<" ", op, " ">> \o Text[r][depth], depth)
         /\ Writes(depth, <<Put(<<"(">>)>> \o <<Gen(l), Put(<<" ", op, " ">>), Gen(r)>> \o <<Put(<<")">>)>>,
                   <<"(">> \o (Text[l][depth] \o <<" ", op, " ">> \o Text[r][depth]) \o <<")">>, depth)
         /\ Writes(depth, <<Put(<<op>>), Gen(l)>>, <<op>> \o Text[l][depth], depth)
<1>1. l \in Walked /\ r \in Walked
  BY DEF Walked
<1>2. PICK tasks, text, opens, closes :
        /\ tasks = <<Gen(l), Put(<<" ", op, " ">>), Gen(r)>>
        /\ text = Text[l][depth] \o <<" ", op, " ">> \o Text[r][depth]
        /\ opens = <<"(">> /\ closes = <<")">>
  BY Zenon
<1>3. /\ Writes(depth, <<Gen(l)>>, Text[l][depth], depth) /\ Writes(depth, <<Gen(r)>>, Text[r][depth], depth)
  BY <1>1, WritesOne
<1>4. /\ Writes(depth, <<Put(<<" ", op, " ">>)>>, <<" ", op, " ">>, depth)
      /\ Writes(depth, <<Put(<<op>>)>>, <<op>>, depth)
  BY NameWrites, Zenon
<1>5. Writes(depth, tasks, text, depth)
  BY <1>2, <1>3, <1>4, WritesThree, Zenon
<1>6. Writes(depth, <<Put(<<op>>), Gen(l)>>, <<op>> \o Text[l][depth], depth)
  BY <1>3, <1>4, WritesTwo, Zenon
<1>7. Writes(depth, <<OperationOpening>>, opens, depth) /\ Writes(depth, <<OperationClosing>>, closes, depth)
  BY <1>2, FixedWrites, Zenon
<1>8. Writes(depth, <<OperationOpening>> \o tasks, opens \o text, depth)
  BY <1>5, <1>7, WritesConcat
<1>9. Writes(depth, <<OperationOpening>> \o tasks \o <<OperationClosing>>, opens \o text \o closes, depth)
  BY <1>7, <1>8, WritesConcat
<1>. QED
  BY <1>2, <1>5, <1>6, <1>9, Zenon DEF OperationOpening, OperationClosing

-----------------------------------------------------------------------------
(* The tasks that remain write what is missing in the buffer.              *)

\* The state of the buffer, and the one at the end.
Reached == With(indent, OutWithoutGarbage)
Finished == With(-1, ProgramText)

\* A node SQF has no text for is at hand.
Stuck == todo # <<>> /\ Head(todo).do = "generate" /\ Here.type \in {"ARRAY", "ARRAY_ACCESS"}

TextInv ==
  /\ Reached \in State
  /\ todo \in Seq(Task)
  /\ Leads(Does, State, Reached, todo, Finished)
  /\ status = "exit" => Stuck

\* A state has an indent and a text.
LEMMA StateParts ==
  \A indent_, text :
    /\ With(indent_, text).indent = indent_ /\ With(indent_, text).text = text
    /\ With(indent_, text) \in State <=> indent_ \in Int /\ text \in Seq(Symbol)
  BY DEF With, State

\* What the task at hand does to the state.
LEMMA NextTask ==
  ASSUME TextInv, todo # <<>>
  PROVE  LET next == With(indent + Deeper(Head(todo)), OutWithoutGarbage \o TaskText(Head(todo), indent))
         IN /\ Head(todo) \in Task /\ Tail(todo) \in Seq(Task) /\ indent \in Int /\ OutWithoutGarbage \in Seq(Symbol)
            /\ next \in State
            /\ Leads(Does, State, next, Tail(todo), Finished)
<1>. DEFINE task == Head(todo)
<1>1. task \in Task /\ Tail(todo) \in Seq(Task)
  BY DEF TextInv
<1>2. indent \in Int /\ OutWithoutGarbage \in Seq(Symbol)
  BY StateParts DEF TextInv, Reached
<1>3. PICK m \in State : <<Reached, Head(todo), m>> \in Does /\ Leads(Does, State, m, Tail(todo), Finished)
  BY LeadsFirst DEF TextInv
<1>. HIDE DEF task
<1>4. PICK q, t : q = Reached /\ t = task
  OBVIOUS
<1>5. m.text = q.text \o TaskText(t, q.indent) /\ m.indent = q.indent + Deeper(t)
  <2>1. <<q, t, m>> \in Does
    BY <1>3, <1>4 DEF task
  <2>. QED
    BY <2>1 DEF Does
<1>6. m.text = OutWithoutGarbage \o TaskText(task, indent) /\ m.indent = indent + Deeper(task)
  BY <1>4, <1>5, StateParts DEF Reached
<1>7. m = With(m.indent, m.text)
  BY DEF State, With
<1>8. m = With(indent + Deeper(task), OutWithoutGarbage \o TaskText(task, indent))
  BY <1>6, <1>7, Zenon
<1>. QED
  BY <1>1, <1>2, <1>3, <1>8, Zenon DEF task

\* A step that does the task at hand.
LEMMA TaskKeeps ==
  ASSUME TextInv, todo # <<>>, Instead(<<>>), program' = program, status' # "exit",
         OutWithoutGarbage' = OutWithoutGarbage \o TaskText(Head(todo), indent),
         indent' = indent + Deeper(Head(todo))
  PROVE  TextInv'
<1>1. todo' = Tail(todo) /\ todo' \in Seq(Task)
  <2>1. Tail(todo) \in Seq(Task)
    BY NextTask
  <2>2. <<>> \o Tail(todo) = Tail(todo)
    BY <2>1
  <2>. QED
    BY <2>1, <2>2 DEF Instead
<1>2. Reached' = With(indent + Deeper(Head(todo)), OutWithoutGarbage \o TaskText(Head(todo), indent))
  BY Zenon DEF Reached, With
<1>3. Finished' = Finished
  BY DEF Finished, ProgramText, With
<1>4. Reached' \in State /\ Leads(Does, State, Reached', todo', Finished')
  BY <1>1, <1>2, <1>3, NextTask, Zenon
<1>. QED
  BY <1>1, <1>4 DEF TextInv

\* A visit that leaves tasks which write the text of the node.
LEMMA VisitWrites ==
  ASSUME TextInv, NEW type, NEW tasks, Visit(type, tasks), Writes(indent, tasks, Text[Here][indent], indent)
  PROVE  TextInv'
<1>1. status = "running" /\ todo # <<>> /\ Head(todo).do = "generate"
  BY DEF Visit, Visits, Doing
<1>2. program' = program /\ out' = out /\ stray' = stray /\ indent' = indent /\ status' = status
      /\ todo' = tasks \o Tail(todo)
  BY DEF Visit, Instead
<1>3. TaskText(Head(todo), indent) = Text[Here][indent] /\ Deeper(Head(todo)) = 0
  BY <1>1 DEF TaskText, Deeper, Here
<1>4. PICK text, m : text = Text[Here][indent] /\ m = With(indent, OutWithoutGarbage \o text)
  OBVIOUS
<1>5. Tail(todo) \in Seq(Task) /\ indent \in Int /\ OutWithoutGarbage \in Seq(Symbol) /\ tasks \in Seq(Task)
  BY <1>1, NextTask DEF Writes
<1>6. Leads(Does, State, m, Tail(todo), Finished)
  <2>1. indent + 0 = indent
    BY <1>5
  <2>. QED
    BY <1>1, <1>3, <1>4, <2>1, NextTask, Zenon
<1>7. Leads(Does, State, Reached, tasks, m)
  BY <1>4, <1>5 DEF Writes, Reached
<1>8. Leads(Does, State, Reached, tasks \o Tail(todo), Finished)
  BY <1>5, <1>6, <1>7, LeadsConcat
<1>9. Reached' = Reached /\ Finished' = Finished /\ tasks \o Tail(todo) \in Seq(Task)
  BY <1>2, <1>5 DEF Reached, Finished, ProgramText, OutWithoutGarbage, Garbled, With
<1>. QED
  BY <1>1, <1>2, <1>8, <1>9 DEF TextInv

\* What is in the buffer beside the garbage, with one text more.
LEMMA GarbledGrows ==
  ASSUME out \in Seq(Token), stray \subseteq 1 .. Len(out), NEW text \in Seq(Token), out' = out \o text
  PROVE  /\ stray' = stray => OutWithoutGarbage' = OutWithoutGarbage \o text
         /\ stray' = stray \cup (Len(out) + 1 .. Len(out) + Len(text)) /\ (\A i \in DOMAIN text : text[i] # "(")
              => OutWithoutGarbage' = OutWithoutGarbage
         /\ stray' = stray \cup {Len(out) + 1} /\ text = <<"(">>
              => OutWithoutGarbage' = OutWithoutGarbage \o text
<1>. DEFINE new == Len(out) + 1 .. Len(out) + Len(text)
<1>1. PICK round : round = "("
  OBVIOUS
<1>2. /\ Len(out) \in Nat /\ Len(text) \in Nat /\ Len(out \o text) = Len(out) + Len(text)
      /\ \A i \in 1 .. Len(out) : (out \o text)[i] = out[i]
      /\ \A i \in 1 .. Len(text) : (out \o text)[Len(out) + i] = text[i]
  OBVIOUS
<1>3. Garbled = {i \in stray : out[i] # round} /\ Garbled' = {i \in stray' : (out \o text)[i] # round}
  BY <1>1, Zenon DEF Garbled
<1>4. DOMAIN out \cap new = {} /\ \A i \in new : i \notin 1 .. Len(out)
  BY <1>2
<1>5. \A i \in stray : (out \o text)[i] = out[i]
  BY <1>2
<1>6. ASSUME \A i \in new : i \notin Garbled'
      PROVE  Without(out \o text, Garbled') = Without(out, Garbled') \o text
  BY <1>6, WithoutConcat
<1>7. ASSUME Garbled' = Garbled
      PROVE  OutWithoutGarbage' = OutWithoutGarbage \o text
  <2>1. \A i \in new : i \notin Garbled'
    BY <1>3, <1>4, <1>7
  <2>. QED
    BY <1>6, <1>7, <2>1, Zenon DEF OutWithoutGarbage
<1>8. ASSUME stray' = stray
      PROVE  OutWithoutGarbage' = OutWithoutGarbage \o text
  <2>1. Garbled' = Garbled
    BY <1>3, <1>5, <1>8
  <2>. QED
    BY <1>7, <2>1
<1>9. ASSUME stray' = stray \cup new, \A i \in DOMAIN text : text[i] # round
      PROVE  OutWithoutGarbage' = OutWithoutGarbage
  <2>1. \A i \in new : (out \o text)[i] # round
    <3>1. \A i \in new : i - Len(out) \in 1 .. Len(text) /\ Len(out) + (i - Len(out)) = i
      BY <1>2
    <3>2. DOMAIN text = 1 .. Len(text)
      OBVIOUS
    <3>. QED
      BY <1>2, <1>9, <3>1, <3>2, SMTT(60)
  <2>2. Garbled' = Garbled \cup new
    BY <1>3, <1>5, <1>9, <2>1
  <2>3. Without(out \o text, Garbled \cup new) = Without(out, Garbled \cup new)
    <3>1. \A i \in Len(out) + 1 .. Len(out) + Len(text) : i \in Garbled \cup new
      OBVIOUS
    <3>. HIDE DEF new
    <3>. QED
      BY <3>1, WithoutConcat
  <2>4. Without(out, Garbled \cup new) = Without(out, Garbled)
    <3>. HIDE DEF new
    <3>. QED
      BY <1>4, WithoutOthers
  <2>. QED
    BY <2>2, <2>3, <2>4, Zenon DEF OutWithoutGarbage
<1>10. ASSUME stray' = stray \cup {Len(out) + 1}, text = <<round>>
       PROVE  OutWithoutGarbage' = OutWithoutGarbage \o text
  <2>1. (out \o text)[Len(out) + 1] = round
    <3>1. Len(text) = 1 /\ text[1] = round
      BY <1>10
    <3>. QED
      BY <1>2, <3>1
  <2>2. Garbled' = Garbled
    BY <1>3, <1>5, <1>10, <2>1
  <2>. QED
    BY <1>7, <2>2
<1>. HIDE DEF new
<1>11. (\A i \in DOMAIN text : text[i] # "(") => (\A i \in DOMAIN text : text[i] # round)
  BY <1>1, Zenon
<1>. QED
  BY <1>1, <1>8, <1>9, <1>10, <1>11, Zenon DEF new

-----------------------------------------------------------------------------
(* Each action writes what the tree says.                                  *)

\* A call of generator_put that ends a task.
LEMMA WriteKeeps ==
  ASSUME GenInv, TextInv, status = "running", todo # <<>>, Instead(<<>>), program' = program, indent' = indent,
         Deeper(Head(todo)) = 0, NEW text \in Seq(Token), Write(text),
         \/ stray' = stray /\ TaskText(Head(todo), indent) = text
         \/ /\ stray' = stray \cup (Len(out) + 1 .. Len(out) + Len(text)) /\ \A i \in DOMAIN text : text[i] # "("
            /\ TaskText(Head(todo), indent) = <<>>
  PROVE  TextInv'
<1>1. out \in Seq(Token) /\ stray \subseteq 1 .. Len(out) /\ out' = out \o text
  BY DEF GenInv, Books, Write
<1>2. status' # "exit"
  BY DEF Write
<1>3. /\ stray' = stray => OutWithoutGarbage' = OutWithoutGarbage \o text
      /\ stray' = stray \cup (Len(out) + 1 .. Len(out) + Len(text)) /\ (\A i \in DOMAIN text : text[i] # "(")
           => OutWithoutGarbage' = OutWithoutGarbage
  BY <1>1, GarbledGrows
<1>4. indent + 0 = indent /\ OutWithoutGarbage \o <<>> = OutWithoutGarbage
  <2>1. indent \in Int /\ OutWithoutGarbage \in Seq(Symbol)
    BY NextTask
  <2>2. \A s \in Seq(Symbol) : s \o <<>> = s
    BY Joins
  <2>. QED
    BY <2>1, <2>2
<1>5. OutWithoutGarbage' = OutWithoutGarbage \o TaskText(Head(todo), indent)
  BY <1>3, <1>4, Zenon
<1>6. indent' = indent + Deeper(Head(todo))
  BY <1>4, Zenon
<1>. QED
  BY <1>2, <1>5, <1>6, TaskKeeps

\* A text of the handlers.
LEMMA PutTextWrites ==
  ASSUME GenInv, TextInv, PutText
  PROVE  TextInv'
<1>1. status = "running" /\ todo # <<>> /\ Head(todo).do = "put"
  BY DEF PutText, Doing
<1>2. Head(todo) \in Task
  BY <1>1, NextTask
<1>3. PICK text \in Seq(Token) : text = Head(todo).text
  BY <1>1, <1>2 DEF Task
<1>4. Write(text) /\ program' = program /\ stray' = stray /\ indent' = indent /\ Instead(<<>>)
  BY <1>3 DEF PutText
<1>5. TaskText(Head(todo), indent) = text /\ Deeper(Head(todo)) = 0
  BY <1>1, <1>3 DEF TaskText, Deeper
<1>. QED
  BY <1>1, <1>4, <1>5, WriteKeeps

\* The name of a parameter, or garbage.
LEMMA PutParamWrites ==
  ASSUME GenInv, TextInv, PutParam
  PROVE  TextInv'
<1>1. status = "running" /\ todo # <<>> /\ Head(todo).do = "param"
  BY DEF PutParam, Doing
<1>2. Here \in Nodes /\ Here.name \in Token
  <2>1. Head(todo) \in Task
    BY <1>1, NextTask
  <2>2. Here \in Nodes
    BY <1>1, <2>1 DEF Task, Here
  <2>. QED
    BY <2>2, JoinedTexts
<1>3. TaskText(Head(todo), indent) = NameText(Here) /\ Deeper(Head(todo)) = 0
  BY <1>1 DEF TaskText, Deeper, Here
<1>4. program' = program /\ indent' = indent /\ Instead(<<>>)
  BY DEF PutParam
<1>. DEFINE isGarbage == Here.type \in {"EXPRESSION", "CONSTANT", "KEYWORD"}
<1>5. PICK name \in IF IsDeclaration(Here) THEN {<<Here.name>>} ELSE IF isGarbage THEN Garbage ELSE {<<>>} :
        /\ Write(name)
        /\ stray' = IF isGarbage THEN stray \cup (Len(out) + 1 .. Len(out) + Len(name)) ELSE stray
  BY Zenon DEF PutParam, IsDeclaration
<1>6. IsDeclaration(Here) => ~isGarbage
  BY Zenon DEF IsDeclaration
<1>7. /\ IsDeclaration(Here) => NameText(Here) = <<Here.name>>
      /\ ~IsDeclaration(Here) => NameText(Here) = <<>>
  BY Zenon DEF NameText
<1>8. /\ \A g \in Garbage : g \in Seq(Token) /\ \A i \in DOMAIN g : g[i] # "("
      /\ <<Here.name>> \in Seq(Token) /\ <<>> \in Seq(Token)
  <2>1. \A g \in Garbage : g \in Seq(Token)
    BY GarbageAssumption DEF Token
  <2>. QED
    BY <1>2, <2>1, ParenthesisAssumption, FixedTexts, Zenon
<1>. HIDE DEF isGarbage
<1>9. /\ name \in Seq(Token)
      /\ \/ stray' = stray /\ TaskText(Head(todo), indent) = name
         \/ /\ stray' = stray \cup (Len(out) + 1 .. Len(out) + Len(name)) /\ \A i \in DOMAIN name : name[i] # "("
            /\ TaskText(Head(todo), indent) = <<>>
  <2>1. CASE IsDeclaration(Here)
    <3>1. name = <<Here.name>> /\ stray' = stray
      BY <1>5, <1>6, <2>1, Zenon
    <3>. QED
      BY <1>3, <1>7, <1>8, <2>1, <3>1, Zenon
  <2>2. CASE ~IsDeclaration(Here) /\ isGarbage
    <3>1. name \in Garbage /\ stray' = stray \cup (Len(out) + 1 .. Len(out) + Len(name))
      BY <1>5, <2>2, Zenon
    <3>. QED
      BY <1>3, <1>7, <1>8, <2>2, <3>1, Zenon
  <2>3. CASE ~IsDeclaration(Here) /\ ~isGarbage
    <3>1. name = <<>> /\ stray' = stray
      BY <1>5, <2>3, Zenon
    <3>. QED
      BY <1>3, <1>7, <1>8, <2>3, <3>1, Zenon
  <2>. QED
    BY <2>1, <2>2, <2>3, Zenon
<1>. QED
  BY <1>1, <1>3, <1>4, <1>5, <1>9, WriteKeeps

\* The indent of the next lines.
LEMMA ChangeIndentWrites ==
  ASSUME GenInv, TextInv, ChangeIndent
  PROVE  TextInv'
<1>1. status = "running" /\ todo # <<>> /\ Head(todo).do = "indent"
  BY DEF ChangeIndent, Doing
<1>2. /\ indent' = indent + Head(todo).by /\ Instead(<<>>) /\ program' = program /\ status' # "exit"
      /\ OutWithoutGarbage' = OutWithoutGarbage
  BY <1>1 DEF ChangeIndent, OutWithoutGarbage, Garbled
<1>3. TaskText(Head(todo), indent) = <<>> /\ Deeper(Head(todo)) = Head(todo).by
  BY <1>1 DEF TaskText, Deeper
<1>4. OutWithoutGarbage \o <<>> = OutWithoutGarbage
  <2>1. OutWithoutGarbage \in Seq(Symbol)
    BY <1>1, NextTask
  <2>. QED
    BY <2>1, Joins, Zenon
<1>5. OutWithoutGarbage' = OutWithoutGarbage \o TaskText(Head(todo), indent)
  BY <1>2, <1>3, <1>4, Zenon
<1>. QED
  BY <1>1, <1>2, <1>3, <1>5, TaskKeeps

\* The levels in front of a line.
LEMMA PrintLevelsWrites ==
  ASSUME GenInv, TextInv, PrintLevels
  PROVE  TextInv'
<1>1. status = "running" /\ todo # <<>> /\ Head(todo).do = "print"
  BY DEF PrintLevels, Doing
<1>2. program' = program /\ indent' = indent /\ stray' = stray /\ Instead(<<>>)
  BY DEF PrintLevels
<1>3. TaskText(Head(todo), indent) = Levels(indent) /\ Deeper(Head(todo)) = 0
  BY <1>1 DEF TaskText, Deeper
<1>4. indent \in Int /\ OutWithoutGarbage \in Seq(Symbol) /\ indent + 0 = indent
  BY <1>1, NextTask
<1>5. CASE indent < 0
  <2>1. Levels(indent) = <<>>
    BY <1>5, Zenon DEF Levels
  <2>2. OutWithoutGarbage' = OutWithoutGarbage /\ status' # "exit"
    BY <1>1, <1>2, <1>5 DEF PrintLevels, OutWithoutGarbage, Garbled
  <2>3. OutWithoutGarbage' = OutWithoutGarbage \o TaskText(Head(todo), indent)
    BY <1>3, <1>4, <2>1, <2>2, Joins, Zenon
  <2>. QED
    BY <1>1, <1>2, <1>3, <1>4, <2>2, <2>3, TaskKeeps
<1>6. CASE ~(indent < 0)
  <2>1. PICK text \in Seq(Token) : text = Levels(indent)
    BY <1>4, FixedTexts
  <2>2. Write(text)
    BY <1>6, <2>1, Zenon DEF PrintLevels, Levels
  <2>. QED
    BY <1>1, <1>2, <1>3, <2>1, <2>2, WriteKeeps
<1>. QED
  BY <1>5, <1>6

\* The handler of the root.
LEMMA GenBlockWrites ==
  ASSUME TextsSettled, GenInv, TextInv, GenBlock
  PROVE  TextInv'
<1>1. PICK tasks : Visit("ROOT", tasks) /\ tasks = List(Here.body)
  BY Zenon DEF GenBlock
<1>2. Doing("generate") /\ Here.type = "ROOT" /\ todo # <<>>
  BY <1>1 DEF Visit, Visits, Doing
<1>3. Here \in Programs /\ Here \in Walked /\ Here.body \in Seq(Nodes) /\ indent \in Int
  <2>1. Here \in Programs
    BY <1>2, Visited
  <2>2. Here.body \in Seq(Nodes)
    BY <2>1, ProgramsAssumption DEF IsNodeOver
  <2>3. indent \in Int
    BY <1>2, NextTask
  <2>. QED
    BY <2>1, <2>2, <2>3 DEF Walked
<1>4. Writes(indent, List(Here.body), StatementsText(Text, Here.body, indent + 1), indent)
  BY <1>3, ListWrites
<1>5. Text[Here][indent] = StatementsText(Text, Here.body, indent + 1)
  <2>1. Text[Here][indent] = NodeText(Text, Here, indent)
    BY <1>3 DEF TextsSettled
  <2>. QED
    BY <1>2, <2>1, TextOfKind, ZenonT(60)
<1>6. Writes(indent, tasks, Text[Here][indent], indent)
  BY <1>1, <1>4, <1>5, Zenon
<1>. QED
  BY <1>1, <1>6, VisitWrites

\* An assignment to a member: a parenthesis, and nothing else.
LEMMA GenMemberAssignmentWrites ==
  ASSUME TextsSettled, GenInv, TextInv, GenMemberAssignment
  PROVE  TextInv'
<1>1. /\ status = "running" /\ todo # <<>> /\ Head(todo).do = "generate" /\ Doing("generate")
      /\ Here.type = "EXPRESSION" /\ Here.name = "=" /\ IsExpression(Target, {"."})
  BY Zenon DEF GenMemberAssignment, IsAssignment, IsExpression, Doing
<1>2. PICK text \in Seq(Token) : text = <<"(">>
  BY FixedTexts, Zenon
<1>3. /\ Write(text) /\ stray' = stray \cup {Len(out) + 1} /\ todo' = <<Gen(Target)>> \o Tail(todo)
      /\ program' = program /\ indent' = indent
  BY <1>2, Zenon DEF GenMemberAssignment, Instead
<1>4. Here \in Nodes /\ Here \in Walked /\ Target \in Nodes /\ Target \in Walked
  <2>1. Here \in Nodes
    BY <1>1, Visited
  <2>2. Target \in Nodes
    BY <1>1, <2>1, NodeFacts DEF Target
  <2>. QED
    BY <2>1, <2>2 DEF Walked
<1>5. /\ indent \in Int /\ OutWithoutGarbage \in Seq(Symbol) /\ Tail(todo) \in Seq(Task)
      /\ indent + 0 = indent
  BY <1>1, NextTask
<1>6. Text[Here][indent] = text /\ Text[Target][indent] = <<>>
  <2>1. Text[Here][indent] = NodeText(Text, Here, indent) /\ Text[Target][indent] = NodeText(Text, Target, indent)
    BY <1>4, <1>5 DEF TextsSettled
  <2>2. NodeText(Text, Here, indent) = text
    <3>1. NodeText(Text, Here, indent) = ExpressionText(Text, Here, indent)
      BY <1>1, TextOfKind, Zenon
    <3>2. ExpressionText(Text, Here, indent) = <<"(">>
      BY <1>1, TextOfExpression, Zenon DEF Target
    <3>. QED
      BY <1>2, <3>1, <3>2, Zenon
  <2>3. Target.type = "EXPRESSION" /\ Target.name \in {".", "in"}
    BY <1>1, Zenon DEF IsExpression
  <2>4. NodeText(Text, Target, indent) = <<>>
    <3>1. NodeText(Text, Target, indent) = ExpressionText(Text, Target, indent)
      BY <2>3, TextOfKind, Zenon
    <3>2. ExpressionText(Text, Target, indent) = <<>>
      BY <2>3, TextOfExpression, Zenon
    <3>. QED
      BY <3>1, <3>2, Zenon
  <2>. QED
    BY <2>1, <2>2, <2>4, Zenon
<1>7. TaskText(Head(todo), indent) = text /\ Deeper(Head(todo)) = 0
  BY <1>1, <1>6 DEF TaskText, Deeper, Here
<1>8. PICK next, written : next = With(indent, written) /\ written = OutWithoutGarbage \o text
  OBVIOUS
<1>9. next \in State /\ Leads(Does, State, next, Tail(todo), Finished)
  BY <1>1, <1>5, <1>7, <1>8, NextTask, Zenon
<1>10. Writes(indent, <<Gen(Target)>>, <<>>, indent)
  BY <1>4, <1>5, <1>6, WritesOne, Zenon
<1>11. written \in Seq(Symbol) /\ written \o <<>> = written
  <2>1. written \in Seq(Symbol)
    BY <1>8, <1>9, StateParts
  <2>. QED
    BY <2>1, Joins, Zenon
<1>12. <<Gen(Target)>> \in Seq(Task) /\ Leads(Does, State, next, <<Gen(Target)>>, next)
  BY <1>8, <1>10, <1>11, Zenon DEF Writes
<1>13. Leads(Does, State, next, todo', Finished)
  BY <1>3, <1>5, <1>9, <1>12, LeadsConcat
<1>14. todo' \in Seq(Task)
  BY <1>3, <1>5, <1>12
<1>15. OutWithoutGarbage' = written
  <2>1. out \in Seq(Token) /\ stray \subseteq 1 .. Len(out) /\ out' = out \o text
    BY <1>3 DEF GenInv, Books, Write
  <2>2. stray' = stray \cup {Len(out) + 1} /\ text = <<"(">> => OutWithoutGarbage' = OutWithoutGarbage \o text
    BY <2>1, GarbledGrows
  <2>. QED
    BY <1>2, <1>3, <1>8, <2>2, Zenon
<1>16. Reached' = next /\ Finished' = Finished
  BY <1>3, <1>8, <1>15 DEF Reached, Finished, ProgramText, With
<1>17. status' # "exit"
  BY <1>1, <1>3 DEF Write
<1>. QED
  BY <1>9, <1>13, <1>14, <1>16, <1>17 DEF TextInv

\* The text of a node that is visited.
LEMMA TextOfHere ==
  ASSUME TextsSettled, GenInv, TextInv, Doing("generate"), Here.type # "ROOT"
  PROVE  /\ Here \in Nodes /\ Here.name \in Token /\ indent \in Int
         /\ Text[Here][indent] = NodeText(Text, Here, indent)
<1>1. Here \in Nodes /\ Here \in Walked
  BY Visited DEF Walked
<1>2. indent \in Int
  BY NextTask DEF Doing
<1>3. Here.name \in Token
  BY <1>1, JoinedTexts
<1>. QED
  BY <1>1, <1>2, <1>3 DEF TextsSettled

\* The handlers of expressions.
LEMMA ExpressionsWrite ==
  ASSUME TextsSettled, GenInv, TextInv, GenNothing \/ GenOperation \/ GenAssignment
  PROVE  TextInv'
<1>1. PICK tasks :
        /\ Visit("EXPRESSION", tasks)
        /\ \/ tasks = <<>> /\ Here.name \in {".", "in"}
           \/ /\ Here.name \notin {".", "in", "="}
              /\ tasks = IF Here.name \in UnaryOperators
                         THEN <<Put(<<Here.name>>), Gen(Here.operands[1])>>
                         ELSE <<Put(<<"(">>)>> \o Operands(Here.name) \o <<Put(<<")">>)>>
           \/ /\ Here.name = "=" /\ ~IsExpression(Here.operands[1], {"."})
              /\ tasks = IF Here.operands[1].type = "EXPRESSION" THEN Operands("=") ELSE <<>>
  <2>1. CASE GenNothing
    BY <2>1, Zenon DEF GenNothing, IsExpression
  <2>2. CASE GenOperation
    BY <2>2, Zenon DEF GenOperation
  <2>3. CASE GenAssignment
    BY <2>3, Zenon DEF GenAssignment, IsAssignment, IsExpression, Target
  <2>. QED
    BY <2>1, <2>2, <2>3, Zenon
<1>2. Here.type = "EXPRESSION" /\ Here.type # "ROOT" /\ Doing("generate")
  BY <1>1, Zenon DEF Visit, Visits
<1>3. Here \in Nodes /\ Here.name \in Token /\ indent \in Int /\ Text[Here][indent] = NodeText(Text, Here, indent)
  BY <1>2, TextOfHere
<1>4. NodeText(Text, Here, indent) = ExpressionText(Text, Here, indent)
  BY <1>2, TextOfKind, Zenon
<1>5. Here.operands[1] \in Nodes /\ (Here.name \notin UnaryOperators => Here.operands[2] \in Nodes)
  BY <1>2, <1>3, NodeFacts
<1>6. /\ Here.name \in {".", "in"} => ExpressionText(Text, Here, indent) = <<>>
      /\ Here.name \in UnaryOperators =>
           ExpressionText(Text, Here, indent) = <<Here.name>> \o Text[Here.operands[1]][indent]
      /\ Here.name = "=" /\ Here.operands[1].type # "EXPRESSION" => ExpressionText(Text, Here, indent) = <<>>
      /\ Here.name = "=" /\ Here.operands[1].type = "EXPRESSION" /\ Here.operands[1].name # "." =>
           ExpressionText(Text, Here, indent) = InfixText(Text, Here, indent)
      /\ Here.name \notin {".", "in", "="} \cup UnaryOperators =>
           ExpressionText(Text, Here, indent) = <<"(">> \o InfixText(Text, Here, indent) \o <<")">>
  BY TextOfExpression, Zenon
<1>7. Writes(indent, <<>>, <<>>, indent)
  BY <1>3, WritesConcat
<1>8. Writes(indent, <<Put(<<Here.name>>), Gen(Here.operands[1])>>, <<Here.name>> \o Text[Here.operands[1]][indent], indent)
  BY <1>3, <1>5, OperandsWrite, Zenon
<1>9. ASSUME Here.name \notin UnaryOperators
      PROVE  /\ Writes(indent, Operands(Here.name), InfixText(Text, Here, indent), indent)
             /\ Writes(indent, <<Put(<<"(">>)>> \o Operands(Here.name) \o <<Put(<<")">>)>>,
                       <<"(">> \o InfixText(Text, Here, indent) \o <<")">>, indent)
  BY <1>3, <1>5, <1>9, OperandsWrite, Zenon DEF Operands, InfixText
<1>10. "=" \notin UnaryOperators
  BY Zenon DEF UnaryOperators
<1>11. Writes(indent, tasks, ExpressionText(Text, Here, indent), indent)
  <2>1. CASE tasks = <<>> /\ Here.name \in {".", "in"}
    BY <1>6, <1>7, <2>1, Zenon
  <2>2. CASE /\ Here.name \notin {".", "in", "="}
             /\ tasks = IF Here.name \in UnaryOperators
                        THEN <<Put(<<Here.name>>), Gen(Here.operands[1])>>
                        ELSE <<Put(<<"(">>)>> \o Operands(Here.name) \o <<Put(<<")">>)>>
    <3>1. CASE Here.name \in UnaryOperators
      BY <1>6, <1>8, <2>2, <3>1, Zenon
    <3>2. CASE Here.name \notin UnaryOperators
      <4>1. Here.name \notin {".", "in", "="} \cup UnaryOperators
        BY <2>2, <3>2, Zenon
      <4>2. ExpressionText(Text, Here, indent) = <<"(">> \o InfixText(Text, Here, indent) \o <<")">>
        BY <1>6, <4>1, Zenon
      <4>. QED
        BY <1>9, <2>2, <3>2, <4>2, Zenon
    <3>. QED
      BY <3>1, <3>2, Zenon
  <2>3. CASE /\ Here.name = "=" /\ ~IsExpression(Here.operands[1], {"."})
             /\ tasks = IF Here.operands[1].type = "EXPRESSION" THEN Operands("=") ELSE <<>>
    <3>1. CASE Here.operands[1].type = "EXPRESSION"
      <4>1. Here.operands[1].name # "."
        BY <2>3, <3>1, Zenon DEF IsExpression
      <4>. QED
        BY <1>6, <1>9, <1>10, <2>3, <3>1, <4>1, Zenon
    <3>2. CASE Here.operands[1].type # "EXPRESSION"
      BY <1>6, <1>7, <2>3, <3>2, Zenon
    <3>. QED
      BY <3>1, <3>2, Zenon
  <2>. QED
    BY <1>1, <2>1, <2>2, <2>3, Zenon
<1>12. Writes(indent, tasks, Text[Here][indent], indent)
  BY <1>3, <1>4, <1>11, Zenon
<1>. QED
  BY <1>1, <1>12, VisitWrites

\* The handlers of the other nodes below a root.
LEMMA NodesWrite ==
  ASSUME TextsSettled, GenInv, TextInv,
         \/ GenKeyword \/ GenVariable \/ GenFunction \/ GenIdentifier \/ GenConstant \/ GenCall
  PROVE  TextInv'
<1>1. PICK type, tasks :
        /\ Visit(type, tasks)
        /\ \/ /\ type = "KEYWORD"
              /\ tasks = IF Here.name = "return" /\ Here.args # <<>> THEN <<Gen(Here.args[1])>> ELSE <<>>
           \/ type = "DECL_VARIABLE" /\ tasks = <<Put(<<"private ", "_", Here.name>>)>>
           \/ /\ type = "DECL_FUNCTION"
              /\ tasks = <<Put(<<"private ", "_", Here.name>>), Put(<<" = ", "{", "\n">>)>>
                           \o Params(Here.args) \o <<Put(<<";">>)>> \o List(Here.body) \o <<Put(<<"}">>)>>
           \/ type = "IDENTIFIER" /\ tasks = <<Put(<<"_", Here.name>>)>>
           \/ /\ type = "CONSTANT"
              /\ tasks = <<Put(IF Here.info = "string" THEN <<"\"", Here.name, "\"">> ELSE <<Here.name>>)>>
           \/ type = "FUNCTION_CALL" /\ tasks = ArrayOf(Here.args) \o <<Put(<<" call ", "_", Here.name>>)>>
  BY Zenon DEF GenKeyword, GenVariable, GenFunction, GenIdentifier, GenConstant, GenCall
<1>2. Here.type = type /\ Doing("generate")
  BY <1>1, Zenon DEF Visit, Visits
<1>3. Here.type # "ROOT"
  BY <1>1, <1>2, Zenon
<1>4. Here \in Nodes /\ Here.name \in Token /\ indent \in Int /\ Text[Here][indent] = NodeText(Text, Here, indent)
  BY <1>2, <1>3, TextOfHere
<1>5. Writes(indent, tasks, NodeText(Text, Here, indent), indent)
  <2>1. CASE /\ type = "KEYWORD"
             /\ tasks = IF Here.name = "return" /\ Here.args # <<>> THEN <<Gen(Here.args[1])>> ELSE <<>>
    <3>0. Here.type = "KEYWORD"
      BY <1>2, <2>1, Zenon
    <3>1. NodeText(Text, Here, indent) =
            IF Here.name = "return" /\ Here.args # <<>> THEN Text[Here.args[1]][indent] ELSE <<>>
      BY ONLY <3>0, Zenon DEF NodeText
    <3>2. Here.args # <<>> => Here.args[1] \in Walked
      <4>1. Here.args \in Seq(Nodes)
        BY <1>4, NodeFacts
      <4>. QED
        BY <4>1 DEF Walked
    <3>3. /\ \A node \in Walked : Writes(indent, <<Gen(node)>>, Text[node][indent], indent)
          /\ Writes(indent, <<>>, <<>>, indent)
      BY <1>4, WritesOne, WritesConcat
    <3>. QED
      BY <2>1, <3>1, <3>2, <3>3, Zenon
  <2>2. CASE type = "DECL_VARIABLE" /\ tasks = <<Put(<<"private ", "_", Here.name>>)>>
    <3>0. Here.type = "DECL_VARIABLE"
      BY <1>2, <2>2, Zenon
    <3>1. NodeText(Text, Here, indent) = <<"private ", "_", Here.name>>
      BY ONLY <3>0, Zenon DEF NodeText
    <3>. QED
      BY <1>4, <2>2, <3>1, NameWrites, Zenon
  <2>3. CASE /\ type = "DECL_FUNCTION"
             /\ tasks = <<Put(<<"private ", "_", Here.name>>), Put(<<" = ", "{", "\n">>)>>
                          \o Params(Here.args) \o <<Put(<<";">>)>> \o List(Here.body) \o <<Put(<<"}">>)>>
    BY <1>2, <1>4, <2>3, FunctionWrites, Zenon
  <2>4. CASE type = "IDENTIFIER" /\ tasks = <<Put(<<"_", Here.name>>)>>
    <3>0. Here.type = "IDENTIFIER"
      BY <1>2, <2>4, Zenon
    <3>1. NodeText(Text, Here, indent) = <<"_", Here.name>>
      BY ONLY <3>0, Zenon DEF NodeText
    <3>. QED
      BY <1>4, <2>4, <3>1, NameWrites, Zenon
  <2>5. CASE /\ type = "CONSTANT"
             /\ tasks = <<Put(IF Here.info = "string" THEN <<"\"", Here.name, "\"">> ELSE <<Here.name>>)>>
    <3>0. Here.type = "CONSTANT"
      BY <1>2, <2>5, Zenon
    <3>1. NodeText(Text, Here, indent) = IF Here.info = "string" THEN <<"\"", Here.name, "\"">> ELSE <<Here.name>>
      BY ONLY <3>0, Zenon DEF NodeText
    <3>2. CASE Here.info = "string"
      BY <1>4, <2>5, <3>1, <3>2, NameWrites, Zenon
    <3>3. CASE Here.info # "string"
      BY <1>4, <2>5, <3>1, <3>3, NameWrites, Zenon
    <3>. QED
      BY <3>2, <3>3
  <2>6. CASE type = "FUNCTION_CALL" /\ tasks = ArrayOf(Here.args) \o <<Put(<<" call ", "_", Here.name>>)>>
    BY <1>2, <1>4, <2>6, CallWrites, Zenon
  <2>. QED
    BY <1>1, <2>1, <2>2, <2>3, <2>4, <2>5, <2>6, Zenon
<1>6. Writes(indent, tasks, Text[Here][indent], indent)
  BY <1>4, <1>5, Zenon
<1>. QED
  BY <1>1, <1>6, VisitWrites

\* Before the first step the whole text is missing.
LEMMA InitTextInv ==
  ASSUME TextsSettled, Init
  PROVE  TextInv
<1>1. program \in Walked /\ indent = -1 /\ -1 \in Int /\ todo = <<Gen(program)>> /\ status = "running"
  BY DEF Init, Walked
<1>2. OutWithoutGarbage = <<>>
  <2>1. Without(<<>>, Garbled) = <<>>
    BY WithoutNone
  <2>. QED
    BY <2>1, Zenon DEF OutWithoutGarbage, Init
<1>3. Writes(indent, todo, ProgramText, indent)
  BY <1>1, WritesOne, Zenon DEF ProgramText
<1>4. <<>> \in Seq(Symbol) /\ <<>> \o ProgramText = ProgramText /\ todo \in Seq(Task)
  <2>1. ProgramText \in Seq(Symbol) /\ todo \in Seq(Task)
    BY <1>3 DEF Writes
  <2>2. <<>> \in Seq(Symbol)
    OBVIOUS
  <2>. QED
    BY <2>1, <2>2, Joins, Zenon
<1>5. Leads(Does, State, Reached, todo, Finished)
  BY <1>1, <1>2, <1>3, <1>4, Zenon DEF Writes, Reached, Finished
<1>6. Reached \in State
  BY <1>1, <1>2, <1>4, StateParts, Zenon DEF Reached
<1>. QED
  BY <1>1, <1>4, <1>5, <1>6 DEF TextInv

\* Every step writes what the tree says.
LEMMA NextTextInv ==
  ASSUME TextsSettled, GenInv, TextInv, [Next]_vars
  PROVE  TextInv'
<1>1. CASE PutText
  BY <1>1, PutTextWrites
<1>2. CASE PutParam
  BY <1>2, PutParamWrites
<1>3. CASE ChangeIndent
  BY <1>3, ChangeIndentWrites
<1>4. CASE PrintLevels
  BY <1>4, PrintLevelsWrites
<1>5. CASE GenBlock
  BY <1>5, GenBlockWrites
<1>6. CASE GenKeyword \/ GenVariable \/ GenFunction \/ GenIdentifier \/ GenConstant \/ GenCall
  BY <1>6, NodesWrite
<1>7. CASE GenNothing \/ GenOperation \/ GenAssignment
  BY <1>7, ExpressionsWrite
<1>8. CASE GenMemberAssignment
  BY <1>8, GenMemberAssignmentWrites
<1>9. CASE GenUnknown
  <2>1. /\ todo # <<>> /\ Head(todo).do = "generate" /\ Here.type \in {"ARRAY", "ARRAY_ACCESS"}
        /\ UNCHANGED <<program, todo, out, used, indent, stray>>
    BY <1>9 DEF GenUnknown, Visits, Doing
  <2>. QED
    BY <2>1 DEF TextInv, Reached, Finished, ProgramText, OutWithoutGarbage, Garbled, Stuck, With, Here
<1>10. CASE Return
  <2>1. status' = "done" /\ UNCHANGED <<program, todo, out, used, indent, stray>>
    BY <1>10 DEF Return
  <2>. QED
    BY <2>1 DEF TextInv, Reached, Finished, ProgramText, OutWithoutGarbage, Garbled, With
<1>11. CASE UNCHANGED vars
  BY <1>11 DEF TextInv, Reached, Finished, ProgramText, OutWithoutGarbage, Garbled, Stuck, With, Here, vars
<1>. QED
  BY <1>1, <1>2, <1>3, <1>4, <1>5, <1>6, <1>7, <1>8, <1>9, <1>10, <1>11 DEF Next, Over

-----------------------------------------------------------------------------
(* The text written and the text of the program.                           *)

\* The first place in a text that cannot be written.
LEMMA FirstUnwritable ==
  ASSUME NEW text \in Seq(Symbol)
  PROVE  \/ Writable(text) = 0 /\ \A i \in 1 .. Len(text) : text[i] # Unwritable
         \/ /\ Writable(text) \in 1 .. Len(text) /\ text[Writable(text)] = Unwritable
            /\ \A i \in 1 .. Writable(text) - 1 : text[i] # Unwritable
<1>. DEFINE I == {i \in 1 .. Len(text) : text[i] = Unwritable}
<1>1. Writable(text) = IF I # {} THEN Min(I) ELSE 0
  BY DEF Writable, SelectInSeq
<1>2. CASE I = {}
  BY <1>1, <1>2
<1>3. CASE I # {}
  <2>1. I \subseteq Nat
    OBVIOUS
  <2>. HIDE DEF I
  <2>2. IsWellFoundedOn({p \in Nat \X Nat : p[1] < p[2]}, Nat)
    BY NatLessThanWellFounded DEF OpToRel
  <2>3. PICK x \in I : \A y \in I : ~(<<y, x>> \in {p \in Nat \X Nat : p[1] < p[2]})
    BY <1>3, <2>1, <2>2, WFMin
  <2>4. \A y \in I : x <= y
    <3>1. ASSUME NEW y \in I
          PROVE  x <= y
      <4>1. x \in Nat /\ y \in Nat
        BY <2>1
      <4>2. ~(y < x)
        <5>1. ~(<<y, x>> \in {p \in Nat \X Nat : p[1] < p[2]})
          BY <2>3
        <5>. QED
          BY <4>1, <5>1
      <4>. QED
        BY <4>1, <4>2
    <3>. QED
      BY <3>1
  <2>5. Min(I) \in I /\ \A y \in I : Min(I) <= y
    BY <2>4 DEF Min
  <2>6. PICK w \in I : w = Writable(text) /\ \A y \in I : w <= y
    BY <1>1, <1>3, <2>5
  <2>7. w \in 1 .. Len(text) /\ text[w] = Unwritable /\ \A i \in 1 .. w - 1 : text[i] # Unwritable
    BY <2>6 DEF I
  <2>. QED
    BY <2>6, <2>7
<1>. QED
  BY <1>2, <1>3

\* What a task writes is a text.
LEMMA TaskTextType ==
  ASSUME TextsSettled, NEW task \in Task, NEW depth \in Int
  PROVE  TaskText(task, depth) \in Seq(Symbol)
<1>1. CASE task.do = "put"
  <2>1. task.text \in Seq(Token)
    BY <1>1 DEF Task
  <2>. QED
    BY <1>1, <2>1, JoinedTexts DEF TaskText
<1>2. CASE task.do = "generate"
  <2>1. task.node \in Walked
    BY <1>2 DEF Task
  <2>. QED
    BY <1>2, <2>1 DEF TaskText, TextsSettled, Tables
<1>3. CASE task.do = "param"
  <2>1. task.node \in Nodes
    BY <1>3 DEF Task
  <2>2. NameText(task.node) \in Seq(Symbol)
    <3>1. <<task.node.name>> \in Seq(Symbol) /\ <<>> \in Seq(Symbol)
      BY <2>1, FixedTexts, JoinedTexts, Zenon
    <3>. QED
      BY <3>1, Zenon DEF NameText
  <2>. QED
    BY <1>3, <2>2 DEF TaskText
<1>4. CASE task.do = "print"
  BY <1>4, FixedTexts, JoinedTexts DEF TaskText
<1>5. CASE task.do \notin {"put", "generate", "param", "print"}
  <2>1. TaskText(task, depth) = <<>>
    BY <1>5, Zenon DEF TaskText
  <2>2. <<>> \in Seq(Symbol)
    OBVIOUS
  <2>. QED
    BY <2>1, <2>2, Zenon
<1>. QED
  BY <1>1, <1>2, <1>3, <1>4, <1>5

\* Tasks take nothing back.
LEMMA LeadsFurther ==
  ASSUME TextsSettled, NEW q \in State, NEW r, NEW tasks \in Seq(Task), Leads(Does, State, q, tasks, r)
  PROVE  \E rest \in Seq(Symbol) : r.text = q.text \o rest
<1>1. PICK f \in [0 .. Len(tasks) -> State] : Along(f, Does, State, q, tasks, r)
  BY DEF Leads
<1>2. /\ f[0] = q /\ f[Len(tasks)] = r /\ Len(tasks) \in Nat
      /\ \A i \in 1 .. Len(tasks) : <<f[i - 1], tasks[i], f[i]>> \in Does
  BY <1>1 DEF Along
<1>3. q.text \in Seq(Symbol) /\ \A s \in State : s.text \in Seq(Symbol) /\ s.indent \in Int
  BY DEF State
<1>4. ASSUME NEW k \in Nat, k + 1 <= Len(tasks)
      PROVE  \E more \in Seq(Symbol) : f[k + 1].text = f[k].text \o more
  <2>1. PICK i \in 1 .. Len(tasks) : i = k + 1 /\ i - 1 = k
    BY <1>2, <1>4
  <2>2. f[k] \in State /\ tasks[i] \in Task
    BY <1>2, <1>4, <2>1
  <2>3. <<f[k], tasks[i], f[i]>> \in Does
    BY <1>2, <2>1
  <2>4. PICK a, t, b : a = f[k] /\ t = tasks[i] /\ b = f[i] /\ <<a, t, b>> \in Does
    BY <2>3
  <2>5. b.text = a.text \o TaskText(t, a.indent)
    BY <2>4 DEF Does
  <2>6. TaskText(t, a.indent) \in Seq(Symbol)
    BY <1>3, <2>2, <2>4, TaskTextType
  <2>. QED
    BY <2>1, <2>4, <2>5, <2>6
<1>. DEFINE S == {k \in Nat : k <= Len(tasks) => \E rest \in Seq(Symbol) : f[k].text = q.text \o rest}
<1>5. 0 \in S
  <2>1. <<>> \in Seq(Symbol) /\ q.text \o <<>> = q.text
    BY <1>3
  <2>. QED
    BY <1>2, <2>1
<1>6. ASSUME NEW k \in Nat, k \in S
      PROVE  k + 1 \in S
  <2>. SUFFICES ASSUME k + 1 <= Len(tasks)
                PROVE  \E rest \in Seq(Symbol) : f[k + 1].text = q.text \o rest
    BY SMTT(60)
  <2>1. PICK rest \in Seq(Symbol) : f[k].text = q.text \o rest
    BY <1>2, <1>6, SMTT(60)
  <2>2. PICK more \in Seq(Symbol) : f[k + 1].text = f[k].text \o more
    BY <1>4
  <2>3. PICK p, t, u : p = q.text /\ t = rest /\ u = more /\ AreTexts(p, t, u)
    BY <1>3 DEF AreTexts
  <2>4. (p \o t) \o u = p \o (t \o u)
    <3>1. \A v, w, x : AreTexts(v, w, x) => (v \o w) \o x = v \o (w \o x)
      BY Joins
    <3>2. AreTexts(p, t, u)
      BY <2>3
    <3>. QED
      BY ONLY <3>1, <3>2, SMTT(60)
  <2>5. f[k + 1].text = q.text \o (rest \o more)
    BY <2>1, <2>2, <2>3, <2>4, Zenon
  <2>. QED
    BY <2>5, JoinedTexts, Zenon
<1>. HIDE DEF S
<1>7. Nat \subseteq S
  BY <1>5, <1>6, SetInduction
<1>8. Len(tasks) \in S /\ Len(tasks) <= Len(tasks)
  BY <1>2, <1>7
<1>9. \E rest \in Seq(Symbol) : f[Len(tasks)].text = q.text \o rest
  BY <1>8, Zenon DEF S
<1>. QED
  BY <1>2, <1>9, Zenon

\* A text with tokens alone in front of it.
LEMMA BehindTokens ==
  ASSUME NEW s \in Seq(Token), NEW t \in Seq(Symbol)
  PROVE  LET text == s \o t
             end == IF Writable(text) = 0 THEN Len(text) ELSE Writable(text) - 1
         IN /\ IsPrefix(s, text)
            /\ \E more \in Seq(Token) : SubSeq(text, 1, end) = s \o more
            /\ (\E rest \in Seq(Symbol) : t = <<Unwritable>> \o rest)
                 => Len(s) + 1 = Writable(text) /\ SubSeq(text, 1, end) = s
            /\ t = <<>> => SubSeq(text, 1, end) = s
<1>. DEFINE text == s \o t
            end == IF Writable(text) = 0 THEN Len(text) ELSE Writable(text) - 1
<1>1. /\ s \in Seq(Symbol) /\ text \in Seq(Symbol) /\ Len(s) \in Nat /\ Len(t) \in Nat /\ Len(text) = Len(s) + Len(t)
      /\ \A i \in 1 .. Len(s) : text[i] = s[i]
      /\ \A i \in 1 .. Len(t) : text[Len(s) + i] = t[i]
  <2>1. s \in Seq(Symbol)
    BY JoinedTexts
  <2>. QED
    BY <2>1
<1>2. \A i \in 1 .. Len(s) : text[i] # Unwritable
  <2>1. Unwritable \notin Token
    BY UnwritableAssumption DEF Token
  <2>2. \A i \in 1 .. Len(s) : s[i] \in Token
    OBVIOUS
  <2>. QED
    BY <1>1, <2>1, <2>2
<1>. HIDE DEF text
<1>3. \/ Writable(text) = 0 /\ \A i \in 1 .. Len(text) : text[i] # Unwritable
      \/ /\ Writable(text) \in 1 .. Len(text) /\ text[Writable(text)] = Unwritable
         /\ \A i \in 1 .. Writable(text) - 1 : text[i] # Unwritable
  BY <1>1, FirstUnwritable
<1>4. end \in Len(s) .. Len(text) /\ \A i \in 1 .. end : text[i] # Unwritable
  BY <1>1, <1>2, <1>3
<1>. HIDE DEF end
<1>5. PICK n \in Nat : n = end /\ Len(s) <= n /\ n <= Len(text)
  BY <1>1, <1>4
<1>6. PICK head \in Seq(Token) : head = SubSeq(text, 1, n) /\ Len(head) = n /\ \A i \in 1 .. n : head[i] = text[i]
  <2>1. /\ SubSeq(text, 1, n) \in Seq(Symbol) /\ Len(SubSeq(text, 1, n)) = n
        /\ \A i \in 1 .. n : SubSeq(text, 1, n)[i] = text[i]
    BY <1>1, <1>5, LowestProperties
  <2>2. \A i \in 1 .. n : text[i] \in Token
    BY <1>1, <1>4, <1>5 DEF Symbol
  <2>3. SubSeq(text, 1, n) \in Seq(Token)
    BY <2>1, <2>2
  <2>. QED
    BY <2>1, <2>3
<1>7. head = s \o SubSeq(head, Len(s) + 1, n) /\ SubSeq(head, Len(s) + 1, n) \in Seq(Token)
  <2>1. PICK more \in Seq(Token) : /\ more = SubSeq(head, Len(s) + 1, n) /\ Len(more) = n - Len(s)
                                   /\ \A i \in 1 .. n - Len(s) : more[i] = head[Len(s) + i]
    <3>1. Len(s) \in 0 .. Len(head) /\ Len(head) = n
      BY <1>1, <1>5, <1>6
    <3>2. /\ SubSeq(head, Len(s) + 1, Len(head)) \in Seq(Token)
          /\ Len(SubSeq(head, Len(s) + 1, Len(head))) = Len(head) - Len(s)
          /\ \A i \in 1 .. Len(head) - Len(s) : SubSeq(head, Len(s) + 1, Len(head))[i] = head[Len(s) + i]
      BY <3>1, UpperProperties
    <3>. QED
      BY <3>1, <3>2
  <2>2. Len(s \o more) = n /\ s \o more \in Seq(Token) /\ \A i \in 1 .. n : (s \o more)[i] = head[i]
    BY <1>1, <1>5, <1>6, <2>1, SMTT(60)
  <2>3. s \o more = head
    BY <1>6, <2>2
  <2>. QED
    BY <2>1, <2>3
<1>8. IsPrefix(s, text)
  <2>1. SubSeq(s, 1, Len(s)) = SubSeq(text, 1, Len(s))
    <3>1. /\ SubSeq(text, 1, Len(s)) \in Seq(Symbol) /\ Len(SubSeq(text, 1, Len(s))) = Len(s)
          /\ \A i \in 1 .. Len(s) : SubSeq(text, 1, Len(s))[i] = text[i]
      BY <1>1, LowestProperties
    <3>2. SubSeq(s, 1, Len(s)) = s
      OBVIOUS
    <3>3. SubSeq(text, 1, Len(s)) = s
      BY <1>1, <3>1
    <3>. QED
      BY <3>2, <3>3
  <2>. QED
    BY <1>1, <2>1 DEF IsPrefix
<1>9. ASSUME NEW rest \in Seq(Symbol), t = <<Unwritable>> \o rest
      PROVE  Len(s) + 1 = Writable(text) /\ SubSeq(text, 1, n) = s
  <2>1. Len(t) >= 1 /\ t[1] = Unwritable
    BY <1>9
  <2>2. text[Len(s) + 1] = Unwritable /\ Len(s) + 1 \in 1 .. Len(text)
    BY <1>1, <2>1
  <2>3. Writable(text) = Len(s) + 1
    BY <1>1, <1>2, <1>3, <2>2
  <2>4. n = Len(s)
    BY <1>1, <1>5, <2>3 DEF end
  <2>5. head = s
    BY <1>1, <1>6, <2>4
  <2>. QED
    BY <1>6, <2>3, <2>5
<1>10. ASSUME t = <<>>
       PROVE  SubSeq(text, 1, n) = s
  <2>1. Len(t) = 0
    BY <1>10
  <2>2. n = Len(s)
    BY <1>1, <1>5, <2>1
  <2>3. head = s
    BY <1>1, <1>6, <2>2
  <2>. QED
    BY <1>6, <2>3
<1>. QED
  BY <1>5, <1>6, <1>7, <1>8, <1>9, <1>10, Zenon DEF text, end

\* Tokens have a width, and more tokens no smaller one.
LEMMA WidthsGrow ==
  /\ \A s \in Seq(Token) : WidthOf(s) \in Nat
  /\ \A s, t \in Seq(Token) : WidthOf(s) <= WidthOf(s \o t)
<1>1. Width \in [Token -> Int] /\ \A e \in Token : Width[e] \in Nat
  BY WidthAssumption DEF Token
<1>2. \A s : WidthOf(s) = SumOf(Width, s)
  BY DEF WidthOf, SumOf
<1>. DEFINE S == {s \in Seq(Token) : WidthOf(s) \in Nat}
<1>3. <<>> \in S
  <2>1. WidthOf(<<>>) = 0 /\ <<>> \in Seq(Token)
    BY Widths
  <2>. QED
    BY <2>1
<1>4. ASSUME NEW s \in Seq(Token), NEW e \in Token, s \in S
      PROVE  Append(s, e) \in S
  <2>1. SumOf(Width, Append(s, e)) = SumOf(Width, s) + Width[e]
    BY <1>1, SumAppend
  <2>2. SumOf(Width, s) \in Nat /\ Width[e] \in Nat
    BY <1>1, <1>2, <1>4
  <2>3. Append(s, e) \in Seq(Token)
    OBVIOUS
  <2>4. WidthOf(Append(s, e)) \in Nat
    BY <1>2, <2>1, <2>2
  <2>. QED
    BY <2>3, <2>4
<1>. HIDE DEF S
<1>5. Seq(Token) \subseteq S
  BY <1>3, <1>4, AppendInduction
<1>6. \A s \in Seq(Token) : WidthOf(s) \in Nat
  BY <1>5 DEF S
<1>7. ASSUME NEW s \in Seq(Token), NEW t \in Seq(Token)
      PROVE  WidthOf(s) <= WidthOf(s \o t)
  <2>1. WidthOf(s \o t) = WidthOf(s) + WidthOf(t) /\ WidthOf(s) \in Nat /\ WidthOf(t) \in Nat
    BY <1>6, Widths
  <2>. QED
    BY <2>1
<1>. QED
  BY <1>6, <1>7

\* Without some tokens, none of them wider; without none, the same.
LEMMA WithoutNarrower ==
  ASSUME NEW positions
  PROVE  \A s \in Seq(Token) : /\ Without(s, positions) \in Seq(Token)
                               /\ WidthOf(Without(s, positions)) <= WidthOf(s)
                               /\ positions = {} => Without(s, positions) = s
<1>. DEFINE S == {s \in Seq(Token) : /\ Without(s, positions) \in Seq(Token)
                                     /\ WidthOf(Without(s, positions)) <= WidthOf(s)
                                     /\ positions = {} => Without(s, positions) = s}
<1>1. <<>> \in S
  <2>1. Without(<<>>, positions) = <<>>
    BY WithoutNone
  <2>2. <<>> \in Seq(Token) /\ WidthOf(<<>>) = 0
    BY Widths
  <2>3. WidthOf(<<>>) <= WidthOf(<<>>)
    BY <2>2
  <2>. QED
    BY <2>1, <2>2, <2>3, Zenon
<1>2. ASSUME NEW s \in Seq(Token), NEW e \in Token, s \in S
      PROVE  Append(s, e) \in S
  <2>1. PICK w \in Seq(Token) : w = Without(s, positions) /\ WidthOf(w) <= WidthOf(s) /\ (positions = {} => w = s)
    BY <1>2
  <2>2. Without(Append(s, e), positions) = IF Len(s) + 1 \in positions THEN w ELSE Append(w, e)
    BY <2>1, WithoutAppend
  <2>3. Append(s, e) \in Seq(Token) /\ Append(w, e) \in Seq(Token)
    OBVIOUS
  <2>4. /\ WidthOf(Append(s, e)) = WidthOf(s) + Width[e] /\ WidthOf(Append(w, e)) = WidthOf(w) + Width[e]
        /\ WidthOf(s) \in Nat /\ WidthOf(w) \in Nat /\ Width[e] \in Nat
    <3>1. Width \in [Token -> Int] /\ Width[e] \in Nat
      BY WidthAssumption DEF Token
    <3>2. \A v \in Seq(Token) : SumOf(Width, Append(v, e)) = SumOf(Width, v) + Width[e]
      BY <3>1, SumAppend
    <3>. QED
      BY <3>1, <3>2, WidthsGrow DEF WidthOf, SumOf
  <2>5. CASE Len(s) + 1 \in positions
    <3>1. Without(Append(s, e), positions) = w /\ positions # {}
      BY <2>2, <2>5
    <3>2. WidthOf(w) <= WidthOf(Append(s, e))
      BY <2>1, <2>4
    <3>. QED
      BY <2>3, <3>1, <3>2
  <2>6. CASE Len(s) + 1 \notin positions
    <3>1. Without(Append(s, e), positions) = Append(w, e)
      BY <2>2, <2>6
    <3>2. WidthOf(Append(w, e)) <= WidthOf(Append(s, e))
      BY <2>1, <2>4
    <3>. QED
      BY <2>1, <2>3, <3>1, <3>2
  <2>. QED
    BY <2>5, <2>6
<1>. HIDE DEF S
<1>3. Seq(Token) \subseteq S
  BY <1>1, <1>2, AppendInduction
<1>. QED
  BY <1>3 DEF S

\* The buffer and the text of the program, in every state.
LEMMA TextAtHand ==
  ASSUME TextsSettled, GenInv, TextInv
  PROVE  \E rest \in Seq(Symbol) :
           /\ ProgramText = OutWithoutGarbage \o rest
           /\ status = "done" => rest = <<>>
           /\ status = "exit" => \E more \in Seq(Symbol) : rest = <<Unwritable>> \o more
<1>1. /\ Reached.text = OutWithoutGarbage /\ Finished.text = ProgramText /\ Reached \in State
      /\ OutWithoutGarbage \in Seq(Symbol)
  BY StateParts DEF Reached, Finished, TextInv
<1>2. PICK rest \in Seq(Symbol) : ProgramText = OutWithoutGarbage \o rest
  <2>1. \E rest \in Seq(Symbol) : Finished.text = Reached.text \o rest
    BY LeadsFurther DEF TextInv
  <2>. QED
    BY <1>1, <2>1
<1>3. CASE status = "done"
  <2>1. todo = <<>>
    BY <1>3 DEF GenInv
  <2>2. Reached = Finished
    BY <2>1, LeadsShort, Zenon DEF TextInv
  <2>3. PICK none : none = <<>> /\ none \in Seq(Symbol) /\ OutWithoutGarbage \o none = OutWithoutGarbage
    <3>1. <<>> \in Seq(Symbol)
      OBVIOUS
    <3>. QED
      BY <1>1, <3>1, Joins, Zenon
  <2>4. ProgramText = OutWithoutGarbage \o none
    BY <1>1, <2>2, <2>3, Zenon
  <2>. QED
    BY <1>3, <2>3, <2>4
<1>4. CASE status = "exit"
  <2>1. todo # <<>> /\ Head(todo).do = "generate" /\ Here.type \in {"ARRAY", "ARRAY_ACCESS"}
    BY <1>4 DEF TextInv, Stuck
  <2>2. /\ Head(todo) \in Task /\ Tail(todo) \in Seq(Task) /\ indent \in Int
        /\ With(indent + Deeper(Head(todo)), OutWithoutGarbage \o TaskText(Head(todo), indent)) \in State
        /\ Leads(Does, State, With(indent + Deeper(Head(todo)), OutWithoutGarbage \o TaskText(Head(todo), indent)),
                 Tail(todo), Finished)
    BY <2>1, NextTask
  <2>3. PICK stuck : stuck = <<Unwritable>> /\ stuck \in Seq(Symbol)
    BY JoinedTexts, Zenon
  <2>4. TaskText(Head(todo), indent) = stuck
    <3>1. Here \in Walked
      BY <2>1, <2>2 DEF Task, Here
    <3>2. TaskText(Head(todo), indent) = Text[Here][indent]
      BY <2>1 DEF TaskText, Here
    <3>3. Text[Here][indent] = NodeText(Text, Here, indent)
      BY <2>2, <3>1 DEF TextsSettled
    <3>4. Here.type \in {"ARRAY", "ARRAY_ACCESS"}
      BY <2>1
    <3>5. NodeText(Text, Here, indent) = <<Unwritable>>
      BY ONLY <3>4, Zenon DEF NodeText
    <3>. QED
      BY <2>3, <3>2, <3>3, <3>5, Zenon
  <2>5. PICK next \in State : next.text = OutWithoutGarbage \o stuck /\ Leads(Does, State, next, Tail(todo), Finished)
    BY <2>2, <2>4, StateParts
  <2>6. PICK more \in Seq(Symbol) : Finished.text = next.text \o more
    BY <2>2, <2>5, LeadsFurther
  <2>7. (OutWithoutGarbage \o stuck) \o more = OutWithoutGarbage \o (stuck \o more)
    <3>1. PICK p, t, u : p = OutWithoutGarbage /\ t = stuck /\ u = more /\ AreTexts(p, t, u)
      BY <1>1, <2>3 DEF AreTexts
    <3>2. \A v, w, x : AreTexts(v, w, x) => (v \o w) \o x = v \o (w \o x)
      BY Joins
    <3>3. (p \o t) \o u = p \o (t \o u)
      <4>1. AreTexts(p, t, u)
        BY <3>1
      <4>. QED
        BY ONLY <3>2, <4>1, SMTT(60)
    <3>. QED
      BY <3>1, <3>3, Zenon
  <2>8. ProgramText = OutWithoutGarbage \o (stuck \o more) /\ stuck \o more \in Seq(Symbol)
    BY <1>1, <2>3, <2>5, <2>6, <2>7, JoinedTexts, Zenon
  <2>9. status # "done"
    BY <1>4
  <2>. QED
    BY <2>3, <2>8, <2>9, Zenon
<1>5. CASE status \notin {"done", "exit"}
  BY <1>2, <1>5
<1>. QED
  BY <1>3, <1>4, <1>5

\* The invariant holds in every state.
LEMMA AlwaysTextInv ==
  ASSUME FiniteTrees(Walked)
  PROVE  Spec => [](GenInv /\ TextInv)
<1>1. TextsSettled
  BY TextDefined
<1>2. Init => GenInv /\ TextInv
  BY <1>1, InitGenInv, InitTextInv
<1>3. (GenInv /\ TextInv) /\ [Next]_vars => (GenInv /\ TextInv)'
  BY <1>1, NextGenInv, NextTextInv
<1>. QED
  BY <1>2, <1>3, PTL DEF Spec

\* Whatever the program, if its tree is finite: a call of generator_generate that
\* returns has put the text of every statement in its order, its place and its
\* indent, the one that exits has put all in front of the first array literal or
\* subscript, and the one that overruns the buffer a beginning of the text.
THEOREM TextIsWritten ==
  ASSUME FiniteTrees(Walked)
  PROVE  Spec => []WritesText
<1>1. ASSUME GenInv, TextInv
      PROVE  WritesText
  <2>1. TextsSettled
    BY TextDefined
  <2>2. OutWithoutGarbage \in Seq(Token)
    <3>1. out \in Seq(Token)
      BY <1>1 DEF GenInv, Books
    <3>. QED
      BY <3>1, WithoutNarrower DEF OutWithoutGarbage
  <2>3. PICK rest \in Seq(Symbol) :
          /\ ProgramText = OutWithoutGarbage \o rest
          /\ status = "done" => rest = <<>>
          /\ status = "exit" => \E more \in Seq(Symbol) : rest = <<Unwritable>> \o more
    BY <1>1, <2>1, TextAtHand
  <2>4. /\ IsPrefix(OutWithoutGarbage, OutWithoutGarbage \o rest)
        /\ (\E more \in Seq(Symbol) : rest = <<Unwritable>> \o more)
             => Len(OutWithoutGarbage) + 1 = Writable(OutWithoutGarbage \o rest)
    BY <2>2, BehindTokens
  <2>5. status = "done" => OutWithoutGarbage = ProgramText
    <3>1. OutWithoutGarbage \in Seq(Symbol)
      BY <2>2, JoinedTexts
    <3>2. OutWithoutGarbage \o <<>> = OutWithoutGarbage
      BY <3>1, Joins
    <3>. QED
      BY <2>3, <3>2, Zenon
  <2>. QED
    BY <2>3, <2>4, <2>5, Zenon DEF WritesText
<1>2. Spec => [](GenInv /\ TextInv)
  BY AlwaysTextInv
<1>3. GenInv /\ TextInv => WritesText
  BY <1>1
<1>. QED
  BY <1>2, <1>3, PTL

\* generator_put runs over the end of output_buffer for the programs whose text
\* does not fit, up to where it can be written, and for no other.
THEOREM OverrunIsLength ==
  ASSUME FiniteTrees(Walked)
  PROVE  Spec => []OverrunsIffTooLong
<1>1. ASSUME GenInv, TextInv
      PROVE  OverrunsIffTooLong
  <2>. DEFINE end == IF Writable(ProgramText) = 0 THEN Len(ProgramText) ELSE Writable(ProgramText) - 1
              line == SubSeq(ProgramText, 1, end)
  <2>1. TextsSettled
    BY TextDefined
  <2>2. /\ out \in Seq(Token) /\ used = WidthOf(out) /\ (used >= BufSize <=> status = "overrun")
        /\ BufSize \in Nat
    BY <1>1, BufSizeAssumption DEF GenInv, Books
  <2>3. /\ OutWithoutGarbage \in Seq(Token) /\ WidthOf(OutWithoutGarbage) <= WidthOf(out)
        /\ Garbled = {} => OutWithoutGarbage = out
    BY <2>2, WithoutNarrower DEF OutWithoutGarbage
  <2>4. PICK rest \in Seq(Symbol) :
          /\ ProgramText = OutWithoutGarbage \o rest
          /\ status = "done" => rest = <<>>
          /\ status = "exit" => \E more \in Seq(Symbol) : rest = <<Unwritable>> \o more
    BY <1>1, <2>1, TextAtHand
  <2>5. PICK more \in Seq(Token) :
          /\ line = OutWithoutGarbage \o more
          /\ status \in {"done", "exit"} => line = OutWithoutGarbage
    <3>. DEFINE text == OutWithoutGarbage \o rest
                last == IF Writable(text) = 0 THEN Len(text) ELSE Writable(text) - 1
    <3>1. /\ \E more \in Seq(Token) : SubSeq(text, 1, last) = OutWithoutGarbage \o more
          /\ (\E more \in Seq(Symbol) : rest = <<Unwritable>> \o more) => SubSeq(text, 1, last) = OutWithoutGarbage
          /\ rest = <<>> => SubSeq(text, 1, last) = OutWithoutGarbage
      BY <2>3, BehindTokens
    <3>2. text = ProgramText
      BY <2>4
    <3>. HIDE DEF text
    <3>3. line = SubSeq(text, 1, last)
      BY <3>2, Zenon
    <3>. HIDE DEF last, line
    <3>. QED
      BY <2>4, <3>1, <3>3, Zenon
  <2>6. WidthOf(OutWithoutGarbage) <= WidthOf(line) /\ WidthOf(line) \in Nat
    <3>1. WidthOf(OutWithoutGarbage) <= WidthOf(OutWithoutGarbage \o more) /\ WidthOf(OutWithoutGarbage \o more) \in Nat
      <4>1. OutWithoutGarbage \o more \in Seq(Token)
        BY <2>3
      <4>. QED
        BY <2>3, <4>1, WidthsGrow
    <3>. QED
      BY <2>5, <3>1, Zenon
  <2>7. WidthOf(out) \in Nat /\ WidthOf(OutWithoutGarbage) \in Nat
    BY <2>2, <2>3, WidthsGrow
  <2>8. status \in {"done", "exit"} => ~(WidthOf(line) >= BufSize)
    <3>1. ASSUME status \in {"done", "exit"}
          PROVE  ~(WidthOf(line) >= BufSize)
      <4>1. line = OutWithoutGarbage
        BY <2>5, <3>1
      <4>2. WidthOf(line) = WidthOf(OutWithoutGarbage)
        BY <4>1, Zenon
      <4>. HIDE DEF line
      <4>. QED
        BY <2>2, <2>3, <2>7, <3>1, <4>2
    <3>. QED
      BY <3>1
  <2>9. status = "overrun" /\ Garbled = {} => WidthOf(line) >= BufSize
    <3>. HIDE DEF line
    <3>. QED
      BY <2>2, <2>3, <2>6, <2>7
  <2>. QED
    BY <2>8, <2>9, Zenon DEF OverrunsIffTooLong
<1>2. Spec => [](GenInv /\ TextInv)
  BY AlwaysTextInv
<1>3. GenInv /\ TextInv => OverrunsIffTooLong
  BY <1>1
<1>. QED
  BY <1>2, <1>3, PTL

=============================================================================
