-------------------------------- MODULE Parser --------------------------------
(***************************************************************************)
(* The statement parser (src/src/parser.c), one call of parser_analyze: a  *)
(* recursive descent over the token list.  The C call stack is the         *)
(* variable stack, one frame per active call of                            *)
(*                                                                         *)
(*   analyze      parser_analyze                                           *)
(*   expression   rpn_parse_expression                                     *)
(*   arguments    parse_arguments, for a call, an access, an array or an   *)
(*                object initialiser                                       *)
(*   statement    parse_stmt_declaration, for a keyword or a function      *)
(*   block        parse_block                                              *)
(*                                                                         *)
(* Operators are left out of the tokens: what they do to the two stacks of *)
(* an expression, and the length of those stacks, is RpnParser's subject.  *)
(* A tree is a value: a list of nodes is a sequence, and NULL is <<>>.     *)
(***************************************************************************)

EXTENDS Naturals, Sequences, FiniteSets, SequencesExt, Brackets

CONSTANTS
  Names,         \* the values of identifier tokens, types among them
  Numbers,       \* the values of number tokens
  Strings,       \* the values of string tokens
  KeywordDecl,   \* of each keyword of the language, keyword_t.decl
  FuncDecl,      \* language_t.func_decl
  StructKeyword, \* the keyword with dgen_struct_init_node
  PrimitiveTypes,\* the types get_dgen_language adds
  Inputs         \* the token lists to parse

Keywords == DOMAIN KeywordDecl
Punctuation == {"(", ")", "[", "]", "{", "}", ",", ":", ";"}
EndOfFile == "end of file"
Token == Names \cup Numbers \cup Strings \cup Keywords \cup Punctuation \cup {EndOfFile}

\* The parts of a declaration: a token to consume is named by itself.
Parts == Punctuation \cup {"IDENTIFIER", "EXPRESSION", "EXPRESSIONS", "BLOCK"}

\* No bracket between the parts i and j; and one there that j closes.
Plain(parts, i, j) == \A k \in DOMAIN parts : i < k /\ k < j => parts[k] \notin Bracket
Matched(parts, i, j) ==
  parts[i] \in Opening /\ Closer[parts[i]] = parts[j] /\ Plain(parts, i, j)

\* Each bracket is closed before the next one is opened; only the first may have
\* been opened before.
Flat(parts) ==
  \A i \in DOMAIN parts :
    /\ parts[i] \in Opening => \E j \in i + 1 .. Len(parts) : Matched(parts, i, j)
    /\ parts[i] \in Closing =>
         Plain(parts, 0, i) \/ \E j \in 1 .. i - 1 : Matched(parts, j, i)

\* What parts close that has been opened before them: one bracket at most.
Due(parts) ==
  {parts[i] : i \in {k \in DOMAIN parts : parts[k] \in Closing /\ Plain(parts, 0, k)}}

ASSUME TokensAssumption ==
  /\ Names \cap (Numbers \cup Strings \cup Keywords \cup Punctuation \cup {EndOfFile}) = {}
  /\ Numbers \cap (Strings \cup Keywords \cup Punctuation \cup {EndOfFile}) = {}
  /\ Strings \cap (Keywords \cup Punctuation \cup {EndOfFile}) = {}
  /\ Keywords \cap (Punctuation \cup {EndOfFile}) = {}
  /\ EndOfFile \notin Punctuation
  /\ StructKeyword \in Keywords /\ PrimitiveTypes \subseteq Names

\* No declaration in the tables closes what it has not opened, and that of a
\* struct has its name.
ASSUME DeclAssumption ==
  /\ \A decl \in {FuncDecl} \cup {KeywordDecl[k] : k \in Keywords} :
       decl \in Seq(Parts) /\ Flat(decl) /\ Due(decl) = {}
  /\ \E i \in DOMAIN KeywordDecl[StructKeyword] :
       KeywordDecl[StructKeyword][i] = "IDENTIFIER"

ASSUME InputsAssumption ==
  \A s \in Inputs : /\ s \in Seq(Token)
                    /\ s # <<>>
                    /\ \A i \in DOMAIN s : s[i] = EndOfFile <=> i = Len(s)

VARIABLES
  tokens,  \* the token list
  pos,     \* parser->current
  stack,   \* the calls, the outermost first
  types,   \* the names in lang->types
  tree,    \* root_ast->body, when parser_analyze returns
  status   \* "running", "done", "exit" or "nullderef"

vars == <<tokens, pos, stack, types, tree, status>>

-----------------------------------------------------------------------------
(* Nodes and frames.                                                       *)

\* words are the tokens the node itself keeps: names, types, numbers, keywords.
Node(type, words) == [type |-> type, words |-> words, args |-> <<>>, body |-> <<>>]

Open == Node("EXPRESSION", <<>>)   \* an open parenthesis, held

\* back: the call this frame made has returned list.
Waiting == [back |-> FALSE, list |-> <<>>]

Expression == [fn |-> "expression", out |-> <<>>, held |-> <<>>, balance |-> 0]
Arguments(node, end) == [fn |-> "arguments", node |-> node, end |-> end, call |-> Waiting]
Statement(node, parts) == [fn |-> "statement", node |-> node, parts |-> parts, call |-> Waiting]
Block == [fn |-> "block", first |-> TRUE, root |-> <<>>, call |-> Waiting]
Analyze == [fn |-> "analyze", root |-> <<>>, call |-> Waiting]

Top == Last(stack)
In(fn) == status = "running" /\ Top.fn = fn
Calls(fn) == In(fn) /\ ~Top.call.back       \* the frame is about to go on
Resumes(fn) == In(fn) /\ Top.call.back      \* its expression has returned

Current == tokens[pos]
Following(n) == tokens[pos + n]

Become(frame) == stack' = Append(Front(stack), frame)
Enter(frame) == stack' = Append(stack, frame)

\* The call on top returns list to its caller.
ReturnList(list) ==
  LET caller == Last(Front(stack))
  IN stack' = Append(Front(Front(stack)),
                     [caller EXCEPT !.call = [back |-> TRUE, list |-> list]])

\* The call on top has completed a node for the expression below it: an array
\* goes to the holding stack, an object initialiser is of an unknown type.
Complete(node) ==
  LET caller == Last(Front(stack))
      done == IF node.type = "ARRAY" THEN [caller EXCEPT !.held = Append(@, node)]
                                     ELSE [caller EXCEPT !.out = Append(@, node)]
  IN /\ stack' = Append(Front(Front(stack)), done)
     /\ status' = IF node.type = "OBJECT_INIT" THEN "exit" ELSE "running"

Advance(n) == pos' = pos + n

\* consume(): any other token is an error.
Consume(token) == Current = token /\ Advance(1)

\* Operators named Slip... are variants of the definition after them with one
\* plausible mistake in it; no behaviour of the specification uses them.  They
\* show that each property notices the mistake it is there for.

Init ==
  /\ tokens \in Inputs
  /\ pos = 1
  /\ stack = <<Analyze>>
  /\ types = PrimitiveTypes
  /\ tree = <<>>
  /\ status = "running"

-----------------------------------------------------------------------------
(* rpn_parse_expression.                                                   *)

\* The end of an expression; what is held comes behind what is not, topmost
\* first.  Below an unclosed parenthesis is a NULL operator.
ExpressionEnds ==
  /\ In("expression")
  /\ \/ Current = ";" /\ Advance(1)
     \/ Current \in {EndOfFile, ",", "]", "{", "}", ":"} /\ Advance(0)
     \/ Current = ")" /\ Top.balance = 0 /\ Advance(0)
  /\ IF Contains(Top.held, Open)
       THEN status' = "nullderef" /\ UNCHANGED stack
       ELSE ReturnList(Top.out \o Reverse(Top.held)) /\ UNCHANGED status
  /\ UNCHANGED <<tokens, types, tree>>

ReadConstant ==
  /\ In("expression") /\ Current \in Numbers \cup Strings
  /\ Become([Top EXCEPT !.out = Append(@, Node("CONSTANT", <<Current>>))])
  /\ Advance(1)
  /\ UNCHANGED <<tokens, types, tree, status>>

ReadIdentifier ==
  /\ In("expression") /\ Current \in Names
  /\ Following(1) \notin Names \cup {"(", "["}
  /\ Become([Top EXCEPT !.out = Append(@, Node("IDENTIFIER", <<Current>>))])
  /\ Advance(1)
  /\ UNCHANGED <<tokens, types, tree, status>>

ReadCall ==
  /\ In("expression") /\ Current \in Names
  /\ \/ /\ Following(1) = "("
        /\ Enter(Arguments(Node("FUNCTION_CALL", <<Current>>), ")"))
     \/ /\ Following(1) = "["
        /\ Enter(Arguments(Node("ARRAY_ACCESS", <<Current>>), "]"))
  /\ Advance(2)
  /\ UNCHANGED <<tokens, types, tree, status>>

\* A type and a name: parse_declaration.
Declares == In("expression") /\ Current \in Names /\ Following(1) \in Names

UnknownType ==
  /\ Declares /\ Current \notin types
  /\ status' = "exit"
  /\ Advance(2)
  /\ UNCHANGED <<tokens, stack, types, tree>>

ReadVariable ==
  /\ Declares /\ Current \in types
  /\ Following(2) \notin {"(", "{", "["}
  /\ Become([Top EXCEPT !.out =
               Append(@, Node("DECL_VARIABLE", <<Current, Following(1)>>))])
  /\ Advance(2)
  /\ UNCHANGED <<tokens, types, tree, status>>

ReadArrayVariable ==
  /\ Declares /\ Current \in types
  /\ Following(2) = "["
  /\ IF Following(3) \in Numbers /\ Following(4) = "]"
       THEN /\ Become([Top EXCEPT !.out =
                 Append(@, Node("DECL_VARIABLE", <<Current, Following(1), Following(3)>>))])
            /\ Advance(5) /\ UNCHANGED status
       ELSE status' = "exit" /\ Advance(IF Following(3) \in Numbers THEN 4 ELSE 3)
                             /\ UNCHANGED stack
  /\ UNCHANGED <<tokens, types, tree>>

ReadFunction ==
  /\ Declares /\ Current \in types
  /\ Following(2) = "("
  /\ Enter(Statement(Node("DECL_FUNCTION", <<Current, Following(1)>>), FuncDecl))
  /\ Advance(2)
  /\ UNCHANGED <<tokens, types, tree, status>>

ReadObject ==
  /\ Declares /\ Current \in types
  /\ Following(2) = "{"
  /\ Enter(Arguments(Node("OBJECT_INIT", <<Following(1)>>), "}"))
  /\ Advance(3)
  /\ UNCHANGED <<tokens, types, tree, status>>

ReadKeyword ==
  /\ In("expression") /\ Current \in Keywords
  /\ Enter(Statement(Node("KEYWORD", <<Current>>), KeywordDecl[Current]))
  /\ Advance(1)
  /\ UNCHANGED <<tokens, types, tree, status>>

ReadArray ==
  /\ In("expression") /\ Current = "["
  /\ Enter(Arguments(Node("ARRAY", <<>>), "]"))
  /\ Advance(1)
  /\ UNCHANGED <<tokens, types, tree, status>>

ReadOpen ==
  /\ In("expression") /\ Current = "("
  /\ Become([Top EXCEPT !.balance = @ + 1, !.held = Append(@, Open)])
  /\ Advance(1)
  /\ UNCHANGED <<tokens, types, tree, status>>

SlipReadCloseUncounted ==
  /\ In("expression") /\ Current = ")" /\ Top.balance > 0
  /\ Become([Top EXCEPT !.held = IF @ = <<>> THEN @ ELSE Front(@)])
  /\ Advance(1)
  /\ UNCHANGED <<tokens, types, tree, status>>

\* Without operators the topmost held node is freed, parenthesis or array.
ReadClose ==
  /\ In("expression") /\ Current = ")" /\ Top.balance > 0
  /\ Become([Top EXCEPT !.balance = @ - 1, !.held = Front(@)])
  /\ Advance(1)
  /\ UNCHANGED <<tokens, types, tree, status>>

-----------------------------------------------------------------------------
(* parse_arguments.                                                        *)

ArgumentsCall ==
  /\ Calls("arguments") /\ Current # Top.end
  /\ Enter(Expression)
  /\ UNCHANGED <<tokens, pos, types, tree, status>>

\* A separator is consumed if there is one; anything else goes round the loop.
ArgumentsResume ==
  /\ Resumes("arguments")
  /\ Become([Top EXCEPT !.node.args = @ \o Top.call.list, !.call = Waiting])
  /\ Advance(IF Current = "," THEN 1 ELSE 0)
  /\ UNCHANGED <<tokens, types, tree, status>>

ArgumentsEnd ==
  /\ Calls("arguments") /\ Consume(Top.end)
  /\ Complete(Top.node)
  /\ UNCHANGED <<tokens, types, tree>>

-----------------------------------------------------------------------------
(* parse_stmt_declaration: the parts of the declaration, one by one.       *)

Part(kinds) == Top.parts # <<>> /\ Head(Top.parts) \in kinds

\* An unexpected token is waited for instead of reported.
SlipPartTokenWaits ==
  /\ Calls("statement") /\ Part(Punctuation)
  /\ IF Current = Head(Top.parts)
       THEN Advance(1) /\ Become([Top EXCEPT !.parts = Tail(@)])
       ELSE UNCHANGED <<pos, stack>>
  /\ UNCHANGED <<tokens, types, tree, status>>

PartToken ==
  /\ Calls("statement") /\ Part(Punctuation)
  /\ IF Current = Head(Top.parts)
       THEN /\ Advance(1) /\ Become([Top EXCEPT !.parts = Tail(@)]) /\ UNCHANGED status
       ELSE status' = "exit" /\ UNCHANGED <<pos, stack>>
  /\ UNCHANGED <<tokens, types, tree>>

\* The identifier is consumed and not kept.
SlipPartIdentifierLost ==
  /\ Calls("statement") /\ Part({"IDENTIFIER"}) /\ Current \in Names
  /\ Become([Top EXCEPT !.parts = Tail(@)]) /\ Advance(1)
  /\ UNCHANGED <<tokens, types, tree, status>>

\* A struct becomes a type as soon as its name is read.
SlipPartIdentifierDeclares ==
  /\ Calls("statement") /\ Part({"IDENTIFIER"}) /\ Current \in Names
  /\ Become([Top EXCEPT !.parts = Tail(@), !.node.words = Append(@, Current)])
  /\ types' = IF Top.node.words[1] = StructKeyword THEN types \cup {Current} ELSE types
  /\ Advance(1)
  /\ UNCHANGED <<tokens, tree, status>>

PartIdentifier ==
  /\ Calls("statement") /\ Part({"IDENTIFIER"})
  /\ IF Current \in Names
       THEN /\ Become([Top EXCEPT !.parts = Tail(@), !.node.words = Append(@, Current)])
            /\ Advance(1) /\ UNCHANGED status
       ELSE status' = "exit" /\ UNCHANGED <<pos, stack>>
  /\ UNCHANGED <<tokens, types, tree>>

PartCall ==
  /\ Calls("statement") /\ Part({"EXPRESSION", "EXPRESSIONS", "BLOCK"})
  /\ Enter(IF Part({"BLOCK"}) THEN Block ELSE Expression)
  /\ UNCHANGED <<tokens, pos, types, tree, status>>

\* An expression replaces the one before it.
SlipPartResumeReplaces ==
  /\ Resumes("statement")
  /\ LET again == Part({"EXPRESSIONS"}) /\ Current = ","
         next == [Top EXCEPT !.call = Waiting,
                             !.parts = IF again THEN @ ELSE Tail(@)]
     IN /\ Become(IF Part({"BLOCK"}) THEN [next EXCEPT !.node.body = Top.call.list]
                                     ELSE [next EXCEPT !.node.args = Top.call.list])
        /\ Advance(IF again THEN 1 ELSE 0)
  /\ UNCHANGED <<tokens, types, tree, status>>

\* After an expression of a list a comma asks for another one.
PartResume ==
  /\ Resumes("statement")
  /\ LET again == Part({"EXPRESSIONS"}) /\ Current = ","
         next == [Top EXCEPT !.call = Waiting,
                             !.parts = IF again THEN @ ELSE Tail(@)]
     IN /\ Become(IF Part({"BLOCK"}) THEN [next EXCEPT !.node.body = Top.call.list]
                                     ELSE [next EXCEPT !.node.args = @ \o Top.call.list])
        /\ Advance(IF again THEN 1 ELSE 0)
  /\ UNCHANGED <<tokens, types, tree, status>>

\* The fields of the second struct of a name go to the first.
SlipStatementEndShares ==
  /\ Calls("statement") /\ Top.parts = <<>>
  /\ types' = IF Top.node.words[1] = StructKeyword THEN types \cup {Last(Top.node.words)} ELSE types
  /\ Complete(Top.node)
  /\ UNCHANGED <<tokens, pos, tree>>

\* The statement is complete.  A struct adds its name to the types, once, and a
\* field to the type for each declaration in its body; there is no type to add
\* a field to if the name is taken.
StatementEnd ==
  /\ Calls("statement") /\ Top.parts = <<>>
  /\ LET isStruct == Top.node.words[1] = StructKeyword
         name == Last(Top.node.words)
         fields == {i \in DOMAIN Top.node.body : Top.node.body[i].type = "DECL_VARIABLE"}
     IN IF isStruct /\ name \in types /\ fields # {}
        THEN status' = "nullderef" /\ UNCHANGED <<stack, types>>
        ELSE /\ types' = IF isStruct THEN types \cup {name} ELSE types
             /\ Complete(Top.node)
  /\ UNCHANGED <<tokens, pos, tree>>

-----------------------------------------------------------------------------
(* parse_block and parser_analyze.                                         *)

BlockCall ==
  /\ Calls("block")
  /\ Enter(Expression)
  /\ UNCHANGED <<tokens, pos, types, tree, status>>

\* The first expression is the root of the list, and the block ends at the next
\* one that is empty; ast_list_insert looks into the root it is given.
BlockFirst ==
  /\ Resumes("block") /\ Top.first
  /\ Become([Top EXCEPT !.first = FALSE, !.root = Top.call.list, !.call = Waiting])
  /\ UNCHANGED <<tokens, pos, types, tree, status>>

\* The expression becomes the root instead of the end of its list.
SlipBlockNextReplaces ==
  /\ Resumes("block") /\ ~Top.first /\ Top.call.list # <<>>
  /\ Become([Top EXCEPT !.root = Top.call.list, !.call = Waiting])
  /\ UNCHANGED <<tokens, pos, types, tree, status>>

BlockNext ==
  /\ Resumes("block") /\ ~Top.first /\ Top.call.list # <<>>
  /\ IF Top.root = <<>>
       THEN status' = "nullderef" /\ UNCHANGED stack
       ELSE /\ Become([Top EXCEPT !.root = @ \o Top.call.list, !.call = Waiting])
            /\ UNCHANGED status
  /\ UNCHANGED <<tokens, pos, types, tree>>

BlockEnd ==
  /\ Resumes("block") /\ ~Top.first /\ Top.call.list = <<>>
  /\ ReturnList(Top.root)
  /\ UNCHANGED <<tokens, pos, types, tree, status>>

AnalyzeCall ==
  /\ Calls("analyze")
  /\ Enter(Expression)
  /\ UNCHANGED <<tokens, pos, types, tree, status>>

AnalyzeResume ==
  /\ Resumes("analyze")
  /\ LET root == Top.root \o Top.call.list IN
     IF Current = EndOfFile
     THEN /\ Advance(1)
          /\ tree' = root /\ stack' = <<>> /\ status' = "done"
     ELSE /\ Become([Top EXCEPT !.root = root, !.call = Waiting])
          /\ UNCHANGED <<pos, tree, status>>
  /\ UNCHANGED <<tokens, types>>

-----------------------------------------------------------------------------

Over == status # "running" /\ UNCHANGED vars

Next ==
  \/ ExpressionEnds \/ ReadConstant \/ ReadIdentifier \/ ReadCall
  \/ UnknownType \/ ReadVariable \/ ReadArrayVariable \/ ReadFunction \/ ReadObject
  \/ ReadKeyword \/ ReadArray \/ ReadOpen \/ ReadClose
  \/ ArgumentsCall \/ ArgumentsResume \/ ArgumentsEnd
  \/ PartToken \/ PartIdentifier \/ PartCall \/ PartResume \/ StatementEnd
  \/ BlockCall \/ BlockFirst \/ BlockNext \/ BlockEnd
  \/ AnalyzeCall \/ AnalyzeResume \/ Over

Spec == Init /\ [][Next]_vars

\* The parser is one thread that runs until it ends.
FairSpec == Spec /\ WF_vars(Next)

-----------------------------------------------------------------------------
(* What is expected of a call.                                             *)

Frames ==
  {"analyze", "expression", "arguments", "statement", "block"}

\* The types of the variables, and who calls whom: expressions are called by
\* every other function, blocks by statements, and the rest by expressions.
TypeOK ==
  /\ tokens \in Seq(Token)
  /\ pos \in 1 .. Len(tokens) + 1
  /\ types \subseteq Names /\ PrimitiveTypes \subseteq types
  /\ status \in {"running", "done", "exit", "nullderef"}
  /\ stack = <<>> <=> status = "done"
  /\ \A i \in DOMAIN stack :
       /\ stack[i].fn \in Frames
       /\ stack[i].fn = "analyze" <=> i = 1
       /\ stack[i].fn = "expression" =>
            i > 1 /\ stack[i - 1].fn \in Frames \ {"expression"}
       /\ stack[i].fn = "block" => /\ stack[i - 1].fn = "statement"
                                   /\ Head(stack[i - 1].parts) = "BLOCK"
       /\ stack[i].fn \in {"arguments", "statement"} => stack[i - 1].fn = "expression"
       /\ i < Len(stack) /\ stack[i].fn # "expression" => ~stack[i].call.back

\* The closing brackets a call on the stack will still consume, the next one last:
\* those of what has been consumed, not those of the parts to come.
Owes(frame) ==
  CASE frame.fn = "expression" -> [i \in 1 .. frame.balance |-> ")"]
    [] frame.fn = "arguments" -> <<frame.end>>
    [] frame.fn = "statement" -> SetToSeq(Due(frame.parts))
    [] OTHER -> <<>>

\* The brackets opened and not closed in what has been consumed are exactly
\* those the calls on the stack are going to close, in that order.  So a text
\* that is accepted is balanced, whichever functions consumed its brackets.
BracketsOwed ==
  /\ status = "running" =>
       Owed(<<>>, tokens)[pos - 1] = FlattenSeq([i \in DOMAIN stack |-> Owes(stack[i])])
  /\ status = "done" => Balanced(tokens)

\* The two loops that go round without consuming anything: parser_analyze in
\* front of a token that ends every expression and is nobody's, and
\* parse_arguments in front of one that is neither its end nor a separator.
Stray(frame) ==
  CASE frame.fn = "analyze" -> {",", ")", "]", "{", "}", ":"}
    [] frame.fn = "arguments" -> {")", "]", "{", "}", ":", EndOfFile} \ {frame.end}
    [] OTHER -> {}

Looping ==
  /\ status = "running"
  /\ \E i \in DOMAIN stack :
       /\ Current \in Stray(stack[i])
       /\ \/ Len(stack) = i
          \/ Len(stack) = i + 1 /\ Top = Expression

\* A call ends, or stays for ever in one of those two loops: every other loop
\* and every other token ends in an error or in progress.
EndsOrLoops == <>(status # "running") \/ <>[]Looping

\* "Used for if/else if/else statements" (lang.h:234): a chain of conditions can
\* be written.  The declaration of else asks for a brace where the chain has its
\* next if, and nothing ever sets next_stmt.
ElseIfIsAccepted == status # "exit"

=============================================================================
