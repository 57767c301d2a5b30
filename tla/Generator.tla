------------------------------ MODULE Generator ------------------------------
(***************************************************************************)
(* The generator (src/src/generator.c) with the SQF backend                *)
(* (src/src/lang/sqf.c), one call of generator_generate on a program that  *)
(* the validator has accepted.  What the active calls have still to do is  *)
(* a sequence of tasks, the next one first: a handler replaces the task of *)
(* its node by the tasks it consists of.  A call of generator_put is one   *)
(* task, whose text is a sequence of tokens.                               *)
(***************************************************************************)

EXTENDS Integers, Sequences, FiniteSets, SequencesExt, Tree, Brackets

CONSTANTS
  Nodes,     \* the nodes below the roots of all programs
  Programs,  \* the trees
  Width,     \* of each token, its length in characters
  Garbage,   \* the texts %s may find in the bytes of a pointer
  BufSize    \* the length of output_buffer

\* gen->indent_size spaces
Level == "    "

NewLine == "\n"

\* The tokens the handlers bring themselves.
Fixed == {NewLine, Level, "(", ")", "[", "]", "{", "}", ";", "_", "\"", " ", ", ", " = ",
          "private ", "params ", " call "}


ASSUME BufSizeAssumption == BufSize \in Nat \ {0}
ASSUME WidthAssumption == Width \in [DOMAIN Width -> Nat] /\ Fixed \subseteq DOMAIN Width

\* A name, a number, an operator or what a string holds is a token of its own
\* kind, even if it looks like a bracket; the parser gives an operator its operands.
ASSUME NodesAssumption ==
  \A n \in Nodes :
    /\ IsNodeOver(Nodes, n) /\ n.type # "ROOT"
    /\ n.name \in DOMAIN Width \ {NewLine, Level, "(", ")", "[", "]", "{", "}"}
    /\ n.type = "EXPRESSION" /\ n.name \notin UnaryOperators => Len(n.operands) = 2

ASSUME ProgramsAssumption == \A p \in Programs : IsNodeOver(Nodes, p) /\ p.type = "ROOT"
ASSUME GarbageAssumption == Garbage # {} /\ \A g \in Garbage : g \in Seq(DOMAIN Width)

\* The nodes that are walked.
Walked == Nodes \cup Programs

VARIABLES
  program,  \* the tree
  todo,     \* the tasks of the active calls, the next one first
  out,      \* the tokens written
  used,     \* gen->cur - output_buffer
  indent,   \* gen->indent
  stray,    \* the positions in out that no bracket rule can cover
  status    \* "running", "done", "exit" or "overrun"

vars == <<program, todo, out, used, indent, stray, status>>

Gen(node)   == [do |-> "generate", node |-> node]
Put(tokens) == [do |-> "put", text |-> tokens]
Param(node) == [do |-> "param", node |-> node]
Indent(by)  == [do |-> "indent", by |-> by]
PrintIndent == [do |-> "print"]

Separated(seqs, separator) ==
  FlattenSeq([i \in DOMAIN seqs |-> IF i = 1 THEN seqs[i] ELSE separator \o seqs[i]])

\* The weights of the first tokens of a sequence, for any number of them.
Total(weight, tokens) ==
  LET total[i \in 0 .. Len(tokens)] == IF i = 0 THEN 0 ELSE total[i - 1] + weight[tokens[i]]
  IN total

WidthOf(tokens) == Total(Width, tokens)[Len(tokens)]

Doing(task) == status = "running" /\ todo # <<>> /\ Head(todo).do = task
Here == Head(todo).node
Visits(type) == Doing("generate") /\ Here.type = type

\* The task at the front is replaced by others.
Instead(tasks) == todo' = tasks \o Tail(todo)

\* Operators named Slip... are variants of the definition after them with one
\* plausible mistake in it; no behaviour of the specification uses them.

\* The first token that does not fit is left out.
SlipWriteCuts(tokens) ==
  IF used + WidthOf(tokens) < BufSize
  THEN out' = out \o tokens /\ used' = used + WidthOf(tokens) /\ UNCHANGED status
  ELSE UNCHANGED <<out, used, status>>

\* generator_put: the text and a NUL behind it, wherever the buffer ends.
Write(tokens) ==
  /\ out' = out \o tokens
  /\ used' = used + WidthOf(tokens)
  /\ status' = IF used' < BufSize THEN status ELSE "overrun"

Init ==
  /\ program \in Programs
  /\ todo = <<Gen(program)>>
  /\ out = <<>> /\ used = 0
  /\ indent = -1
  /\ stray = {}
  /\ status = "running"

-----------------------------------------------------------------------------
(* Writing.                                                                *)

PutText ==
  /\ Doing("put")
  /\ Write(Head(todo).text)
  /\ Instead(<<>>)
  /\ UNCHANGED <<program, indent, stray>>

\* decl.name of a parameter, whatever its node is.  In an expression, a constant
\* or a keyword a pointer has that place; other nodes leave it zero.
PutParam ==
  /\ Doing("param")
  /\ LET isDecl == Here.type \in {"DECL_VARIABLE", "DECL_FUNCTION"}
         isGarbage == Here.type \in {"EXPRESSION", "CONSTANT", "KEYWORD"}
     IN \E name \in IF isDecl THEN {<<Here.name>>} ELSE IF isGarbage THEN Garbage ELSE {<<>>} :
          /\ Write(name)
          /\ stray' = IF isGarbage THEN stray \cup (Len(out) + 1 .. Len(out) + Len(name)) ELSE stray
  /\ Instead(<<>>)
  /\ UNCHANGED <<program, indent>>

ChangeIndent ==
  /\ Doing("indent")
  /\ indent' = indent + Head(todo).by
  /\ Instead(<<>>)
  /\ UNCHANGED <<program, out, used, stray, status>>

\* generator_print_indent
PrintLevels ==
  /\ Doing("print")
  /\ IF indent < 0 THEN UNCHANGED <<out, used, status>> ELSE Write([i \in 1 .. indent |-> Level])
  /\ Instead(<<>>)
  /\ UNCHANGED <<program, indent, stray>>

-----------------------------------------------------------------------------
(* The handlers of the nodes.                                              *)

Visit(type, tasks) ==
  /\ Visits(type)
  /\ Instead(tasks)
  /\ UNCHANGED <<program, out, used, indent, stray, status>>

\* The line of the closing brace is indented like the statements.
SlipListIndentLate(nodes) ==
  IF nodes = <<>> THEN <<>>
  ELSE <<Indent(1)>>
         \o FlattenSeq([i \in DOMAIN nodes |->
                     <<Put(<<"\n">>), PrintIndent, Gen(nodes[i]), Put(<<";">>)>>])
         \o <<Put(<<"\n">>), PrintIndent, Indent(-1)>>

\* sqf_gen_list
List(nodes) ==
  IF nodes = <<>> THEN <<>>
  ELSE <<Indent(1)>>
         \o FlattenSeq([i \in DOMAIN nodes |->
                     <<Put(<<"\n">>), PrintIndent, Gen(nodes[i]), Put(<<";">>)>>])
         \o <<Indent(-1), Put(<<"\n">>), PrintIndent>>

\* The indent of the parameters stays.
SlipParamsIndent(nodes) ==
  <<Indent(1), PrintIndent, Put(<<"params ", "[">>)>>
    \o Separated([i \in DOMAIN nodes |->
                   <<Put(<<"\"", "_">>), Param(nodes[i]), Put(<<"\"">>)>>], <<Put(<<", ">>)>>)
    \o <<Put(<<"]">>)>>

\* sqf_gen_params
Params(nodes) ==
  <<Indent(1), PrintIndent, Indent(-1), Put(<<"params ", "[">>)>>
    \o Separated([i \in DOMAIN nodes |->
                   <<Put(<<"\"", "_">>), Param(nodes[i]), Put(<<"\"">>)>>], <<Put(<<", ">>)>>)
    \o <<Put(<<"]">>)>>

\* sqf_gen_array
SlipArrayUnclosed(nodes) ==
  <<Put(<<"[">>)>>
    \o Separated([i \in DOMAIN nodes |-> <<Gen(nodes[i])>>], <<Put(<<", ">>)>>)

ArrayOf(nodes) ==
  <<Put(<<"[">>)>>
    \o Separated([i \in DOMAIN nodes |-> <<Gen(nodes[i])>>], <<Put(<<", ">>)>>)
    \o <<Put(<<"]">>)>>

GenBlock == Visit("ROOT", List(Here.body))

\* Of a return statement the first expression, of any other keyword nothing.
GenKeyword ==
  Visit("KEYWORD", IF Here.name = "return" /\ Here.args # <<>> THEN <<Gen(Here.args[1])>> ELSE <<>>)

GenVariable == Visit("DECL_VARIABLE", <<Put(<<"private ", "_", Here.name>>)>>)

GenFunction ==
  Visit("DECL_FUNCTION",
        <<Put(<<"private ", "_", Here.name>>), Put(<<" = ", "{", "\n">>)>>
          \o Params(Here.args) \o <<Put(<<";">>)>> \o List(Here.body) \o <<Put(<<"}">>)>>)

GenIdentifier == Visit("IDENTIFIER", <<Put(<<"_", Here.name>>)>>)

GenConstant ==
  Visit("CONSTANT",
        <<Put(IF Here.info = "string" THEN <<"\"", Here.name, "\"">> ELSE <<Here.name>>)>>)

GenCall ==
  Visit("FUNCTION_CALL", ArrayOf(Here.args) \o <<Put(<<" call ", "_", Here.name>>)>>)

\* sqf_gen_member_access_get and sqf_gen_operator are empty.
GenNothing ==
  /\ Doing("generate") /\ IsExpression(Here, {".", "in"})
  /\ Visit("EXPRESSION", <<>>)

Operands(op) == <<Gen(Here.operands[1]), Put(<<" ", op, " ">>), Gen(Here.operands[2])>>

\* The operands lose their parentheses.
SlipGenOperationBare ==
  /\ Doing("generate") /\ Here.type = "EXPRESSION" /\ Here.name \notin {".", "in", "="}
  /\ Visit("EXPRESSION",
           IF Here.name \in UnaryOperators
           THEN <<Put(<<Here.name>>), Gen(Here.operands[1])>>
           ELSE Operands(Here.name))

\* generator_gen_expression
GenOperation ==
  /\ Doing("generate") /\ Here.type = "EXPRESSION" /\ Here.name \notin {".", "in", "="}
  /\ Visit("EXPRESSION",
           IF Here.name \in UnaryOperators
           THEN <<Put(<<Here.name>>), Gen(Here.operands[1])>>
           ELSE <<Put(<<"(">>)>> \o Operands(Here.name) \o <<Put(<<")">>)>>)

IsAssignment == Doing("generate") /\ IsExpression(Here, {"="})
Target == Here.operands[1]

\* sqf_gen_assign: nothing for a variable; all of it for an expression that is
\* no member access.
GenAssignment ==
  /\ IsAssignment /\ ~IsExpression(Target, {"."})
  /\ Visit("EXPRESSION", IF Target.type = "EXPRESSION" THEN Operands("=") ELSE <<>>)

\* sqf_gen_member_access_set: a parenthesis, and the access.
GenMemberAssignment ==
  /\ IsAssignment /\ IsExpression(Target, {"."})
  /\ Write(<<"(">>)
  /\ stray' = stray \cup {Len(out) + 1}
  /\ Instead(<<Gen(Target)>>)
  /\ UNCHANGED <<program, indent>>

GenUnknown ==
  /\ Visits("ARRAY") \/ Visits("ARRAY_ACCESS")
  /\ status' = "exit"
  /\ UNCHANGED <<program, todo, out, used, indent, stray>>

Return ==
  /\ status = "running" /\ todo = <<>>
  /\ status' = "done"
  /\ UNCHANGED <<program, todo, out, used, indent, stray>>

-----------------------------------------------------------------------------

Over == status # "running" /\ UNCHANGED vars

Next ==
  \/ PutText \/ PutParam \/ ChangeIndent \/ PrintLevels
  \/ GenBlock \/ GenKeyword \/ GenVariable \/ GenFunction \/ GenIdentifier \/ GenConstant
  \/ GenCall \/ GenNothing \/ GenOperation \/ GenAssignment \/ GenMemberAssignment
  \/ GenUnknown \/ Return \/ Over

Spec == Init /\ [][Next]_vars

-----------------------------------------------------------------------------
(* What is expected of a call.                                             *)

\* The types of the variables, and what the buffer holds.
TypeOK ==
  /\ status \in {"running", "done", "exit", "overrun"}
  /\ indent \in -1 .. Len(out) /\ stray \subseteq DOMAIN out
  /\ used = WidthOf(out)
  /\ used >= BufSize <=> status = "overrun"
  /\ status = "done" => todo = <<>> /\ indent = -1

\* The text the active calls will still write themselves.
TextOf(task) == IF task.do = "put" THEN task.text ELSE <<>>
Pending == FlattenSeq([i \in DOMAIN todo |-> TextOf(todo[i])])

\* The tokens of a sequence without those at some positions.
Without(tokens, positions) ==
  FlattenSeq([i \in DOMAIN tokens |-> IF i \in positions THEN <<>> ELSE <<tokens[i]>>])

\* What a reader of the output can rely on: the one parenthesis nobody closes, of
\* an assignment to a member, is left out, and the bytes of a parameter that is
\* no declaration.
Sound == Without(out, stray)

\* Whatever is written, the active calls are going to close, in the right order:
\* brackets of nested functions, calls and operations never get mixed up.
BracketsNest == Balanced(Sound \o Pending)

Braces == [t \in DOMAIN Width |-> IF t = "{" THEN 1 ELSE IF t = "}" THEN -1 ELSE 0]

\* Each line is indented by as many levels as braces are open around it, the
\* line of a closing brace by one less; the last line may lack some levels yet.
Indented(tokens) ==
  LET depth == Total(Braces, tokens) IN
  \A i \in DOMAIN tokens : tokens[i] = NewLine =>
    LET begins == {k \in i + 1 .. Len(tokens) :
                     tokens[k] # Level /\ \A j \in i + 1 .. k - 1 : tokens[j] = Level}
    IN /\ \A k \in begins : k - i - 1 = IF Braces[tokens[k]] = -1 THEN depth[i] - 1 ELSE depth[i]
       /\ begins = {} => Len(tokens) - i <= depth[i]

\* The indent that is printed is the nesting of the output, whatever the tree.
IndentIsNesting == Indented(Sound)

=============================================================================
