------------------------------ MODULE RpnParser ------------------------------
(***************************************************************************)
(* The expression parser of dGen (src/src/rpn_parser.c), one call of       *)
(* rpn_parse_expression: the loop that sorts the items of an expression    *)
(* onto two stacks (a shunting yard), the loop that solves the reverse     *)
(* Polish sequence into trees, and the linking of the trees it returns.    *)
(*                                                                         *)
(* The input is a sequence of ITEMS.  An item is a token the loop consumes *)
(* itself, or a whole construct a callee parses for it (parse_identifier,  *)
(* parse_keyword, parse_array), nested calls of rpn_parse_expression       *)
(* included.  A node is named by the position of the item it was           *)
(* allocated for, so "before in the source" is "smaller".                  *)
(***************************************************************************)

EXTENDS Naturals, Sequences, FiniteSets, SequencesExt

CONSTANTS Operators,   \* the operators of the language
          Unary,       \* those solved with one operand
          Precedence,  \* the precedence of each; smaller binds tighter
          StackSize,   \* the length of rpn_stack_t.nodes, 100 in the code
          Inputs       \* the token lists, as items, the parser is called on

\* What the loop distinguishes besides operators:
\*   operand   a number, string, identifier, declaration, call, array access
\*             or keyword statement: a node that goes to the solve stack
\*   array     an array literal: a node that goes to the holding stack
\*   ( ) ;     the three tokens the loop consumes itself
\*   stop      end of file , ] { } or :  that ends the loop, unconsumed
\*   reject    a construct whose parsing ends in exit(1)
Others == {"operand", "array", "(", ")", ";", "stop", "reject"}

Item == Operators \cup Others

ASSUME OperatorsAssumption ==
  /\ Operators \cap Others = {}
  /\ Unary \subseteq Operators
  /\ Precedence \in [Operators -> Nat]

ASSUME StackSizeAssumption == StackSize \in Nat \ {0}

\* The lexer ends every token list with an end of file, which is a stop.
ASSUME InputsAssumption ==
  \A s \in Inputs : /\ s \in Seq(Item)
                    /\ s # <<>>
                    /\ s[Len(s)] = "stop"

VARIABLES
  items,    \* the input
  pos,      \* parser->current: the item the loop looks at
  holding,  \* holding_stack, bottom first
  solve,    \* solve_stack, bottom first
  balance,  \* parenthesis_balance
  left,     \* node->l of every node, 0 for NULL
  right,    \* node->r
  freed,    \* the nodes given back with free()
  roots,    \* the returned list, following node->next
  status    \* "reading" and "solving" are the two loops; the others are ends

vars == <<items, pos, holding, solve, balance, left, right, freed, roots, status>>

Ends == {"returned", "exit", "overflow", "nullderef"}

-----------------------------------------------------------------------------
(* The stacks.                                                             *)

IsOperator(n) == items[n] \in Operators

\* Operators named Slip... are variants of the definition after them with one
\* plausible mistake in it; no behaviour of the specification uses them.  They
\* show that each property notices the mistake it is there for.

SlipFitsOneMore(stack) == Len(stack) <= StackSize + 1

\* rpn_push tests top == 100, but nodes[100] has its last element at 99: a
\* push on StackSize nodes writes past the array, over top.
Fits(stack) == Len(stack) <= StackSize

SlipCompareStrict(n, h) == IsOperator(h) /\ Precedence[items[n]] > Precedence[items[h]]
SlipCompareReversed(n, h) == IsOperator(h) /\ Precedence[items[n]] <= Precedence[items[h]]

\* rpn_compare: node n, newly read, makes the held node h leave the stack.
Compare(n, h) == IsOperator(h) /\ Precedence[items[n]] >= Precedence[items[h]]

\* The nodes above the k lowest of the holding stack leave it for the solve
\* stack, the topmost first.
Drained(k) == solve \o Reverse(SubSeq(holding, k + 1, Len(holding)))

\* k is where the draining stops: every node above is one of those that leave
\* and the node at k, if there is one, is not.
StopsAt(k, leaving) ==
  /\ \A i \in k + 1 .. Len(holding) : holding[i] \in leaving
  /\ k > 0 => holding[k] \notin leaving

-----------------------------------------------------------------------------
(* The reading loop.  Every iteration consumes its item and then pushes.   *)

Reading(item) == status = "reading" /\ items[pos] = item

Init ==
  /\ items \in Inputs
  /\ pos = 1
  /\ holding = <<>> /\ solve = <<>>
  /\ balance = 0
  /\ left  = [n \in DOMAIN items |-> 0]
  /\ right = [n \in DOMAIN items |-> 0]
  /\ freed = {} /\ roots = <<>>
  /\ status = "reading"

SlipStopAtSemicolon ==
  /\ status = "reading"
  /\ \/ items[pos] \in {";", "stop"}
     \/ items[pos] = ")" /\ balance = 0
  /\ holding' = holding \o Reverse(solve)
  /\ solve' = <<>>
  /\ status' = IF Fits(holding') THEN "solving" ELSE "overflow"
  /\ UNCHANGED <<items, pos, balance, left, right, freed, roots>>

\* The loop ends, with the semicolon consumed and any other token left where
\* it is, and the solve stack is turned over onto the holding stack.
Stop ==
  /\ status = "reading"
  /\ \/ items[pos] = ";" /\ pos' = pos + 1
     \/ items[pos] = "stop" /\ pos' = pos
     \/ items[pos] = ")" /\ balance = 0 /\ pos' = pos
  /\ holding' = holding \o Reverse(solve)
  /\ solve' = <<>>
  /\ status' = IF Fits(holding') THEN "solving" ELSE "overflow"
  /\ UNCHANGED <<items, balance, left, right, freed, roots>>

ReadOperand ==
  /\ Reading("operand")
  /\ solve' = Append(solve, pos)
  /\ pos' = pos + 1
  /\ status' = IF Fits(solve') THEN "reading" ELSE "overflow"
  /\ UNCHANGED <<items, holding, balance, left, right, freed, roots>>

\* An array literal is held like an operator, although it is an operand.
ReadArray ==
  /\ Reading("array")
  /\ holding' = Append(holding, pos)
  /\ pos' = pos + 1
  /\ status' = IF Fits(holding') THEN "reading" ELSE "overflow"
  /\ UNCHANGED <<items, solve, balance, left, right, freed, roots>>

ReadOperator ==
  /\ status = "reading" /\ IsOperator(pos)
  /\ \E k \in 0 .. Len(holding) :
       /\ StopsAt(k, {h \in ToSet(holding) : Compare(pos, h)})
       /\ solve' = Drained(k)
       /\ holding' = Append(SubSeq(holding, 1, k), pos)
  /\ pos' = pos + 1
  /\ status' = IF Fits(solve') /\ Fits(holding') THEN "reading" ELSE "overflow"
  /\ UNCHANGED <<items, balance, left, right, freed, roots>>

SlipReadOpenUncounted ==
  /\ Reading("(")
  /\ holding' = Append(holding, pos)
  /\ pos' = pos + 1
  /\ status' = IF Fits(holding') THEN "reading" ELSE "overflow"
  /\ UNCHANGED <<items, solve, balance, left, right, freed, roots>>

\* An open parenthesis is held as an expression node without operator.
ReadOpen ==
  /\ Reading("(")
  /\ balance' = balance + 1
  /\ holding' = Append(holding, pos)
  /\ pos' = pos + 1
  /\ status' = IF Fits(holding') THEN "reading" ELSE "overflow"
  /\ UNCHANGED <<items, solve, left, right, freed, roots>>

SlipReadCloseUnguarded ==
  /\ Reading(")")
  /\ balance' = balance - 1
  /\ holding' = SelectSeq(holding, IsOperator)
  /\ freed' = freed \cup {n \in ToSet(holding) : ~IsOperator(n)}
  /\ pos' = pos + 1
  /\ UNCHANGED <<items, solve, left, right, roots, status>>

\* A close parenthesis drains the holding stack down to a node without
\* operator, which is freed; rpn_pop on an empty stack exits.
ReadClose ==
  /\ Reading(")") /\ balance > 0
  /\ balance' = balance - 1
  /\ \E k \in 0 .. Len(holding) :
       /\ StopsAt(k, {h \in ToSet(holding) : IsOperator(h)})
       /\ solve' = Drained(k)
       /\ holding' = SubSeq(holding, 1, k - 1)
       /\ freed' = IF k = 0 THEN freed ELSE freed \cup {holding[k]}
       /\ status' = IF ~Fits(solve') THEN "overflow"
                    ELSE IF k = 0 THEN "exit" ELSE "reading"
  /\ pos' = pos + 1
  /\ UNCHANGED <<items, left, right, roots>>

\* A question mark, an object initialiser, or a callee that fails.
Reject ==
  /\ Reading("reject")
  /\ status' = "exit"
  /\ UNCHANGED <<items, pos, holding, solve, balance, left, right, freed, roots>>

-----------------------------------------------------------------------------
(* The solving loop.                                                       *)

Solving(kinds) ==
  /\ status = "solving" /\ holding # <<>>
  /\ items[Last(holding)] \in kinds
  /\ holding' = Front(holding)

SlipSolveOpenAsOperand ==
  /\ Solving({"operand", "array", "("})
  /\ solve' = Append(solve, Last(holding))
  /\ status' = IF Fits(solve') THEN "solving" ELSE "overflow"
  /\ UNCHANGED <<items, pos, balance, left, right, freed, roots>>

SolveOperand ==
  /\ Solving({"operand", "array"})
  /\ solve' = Append(solve, Last(holding))
  /\ status' = IF Fits(solve') THEN "solving" ELSE "overflow"
  /\ UNCHANGED <<items, pos, balance, left, right, freed, roots>>

\* The operator is peeked at, and stays on the holding stack.
SlipSolveUnaryPeeks ==
  /\ status = "solving" /\ holding # <<>> /\ items[Last(holding)] \in Unary
  /\ solve # <<>>
  /\ left' = [left EXCEPT ![Last(holding)] = Last(solve)]
  /\ solve' = Append(Front(solve), Last(holding))
  /\ UNCHANGED <<items, pos, holding, balance, right, freed, roots, status>>

SolveUnary ==
  /\ Solving(Unary)
  /\ IF solve = <<>>
       THEN /\ status' = "exit"
            /\ UNCHANGED <<solve, left>>
       ELSE /\ left' = [left EXCEPT ![Last(holding)] = Last(solve)]
            /\ solve' = Append(Front(solve), Last(holding))
            /\ UNCHANGED status
  /\ UNCHANGED <<items, pos, balance, right, freed, roots>>

\* The left operand is peeked at, and stays on the solve stack.
SlipSolveBinaryPeeks ==
  /\ Solving(Operators \ Unary)
  /\ Len(solve) > 1
  /\ right' = [right EXCEPT ![Last(holding)] = Last(solve)]
  /\ left' = [left EXCEPT ![Last(holding)] = Last(Front(solve))]
  /\ solve' = Append(Front(solve), Last(holding))
  /\ UNCHANGED <<items, pos, balance, freed, roots, status>>

\* The operand on top is taken for the left one.
SlipSolveBinarySwaps ==
  /\ Solving(Operators \ Unary)
  /\ Len(solve) > 1
  /\ left' = [left EXCEPT ![Last(holding)] = Last(solve)]
  /\ right' = [right EXCEPT ![Last(holding)] = Last(Front(solve))]
  /\ solve' = Append(Front(Front(solve)), Last(holding))
  /\ UNCHANGED <<items, pos, balance, freed, roots, status>>

SolveBinary ==
  /\ Solving(Operators \ Unary)
  /\ LET n == Last(holding) IN
     CASE Len(solve) = 0 -> /\ status' = "exit"
                            /\ UNCHANGED <<solve, left, right>>
       [] Len(solve) = 1 -> /\ right' = [right EXCEPT ![n] = Last(solve)]
                            /\ solve' = <<>>
                            /\ status' = "exit"
                            /\ UNCHANGED left
       [] OTHER -> /\ right' = [right EXCEPT ![n] = Last(solve)]
                   /\ left' = [left EXCEPT ![n] = Last(Front(solve))]
                   /\ solve' = Append(Front(Front(solve)), n)
                   /\ UNCHANGED status
  /\ UNCHANGED <<items, pos, balance, freed, roots>>

\* A parenthesis nobody closed is an expression node whose op is NULL, and
\* node->op->type is read.
SolveOpen ==
  /\ Solving({"("})
  /\ status' = "nullderef"
  /\ UNCHANGED <<items, pos, solve, balance, left, right, freed, roots>>

\* The solved trees are turned over once more and linked, the lowest first;
\* an empty list is NULL.
Return ==
  /\ status = "solving" /\ holding = <<>>
  /\ roots' = solve
  /\ solve' = <<>>
  /\ status' = "returned"
  /\ UNCHANGED <<items, pos, holding, balance, left, right, freed>>

-----------------------------------------------------------------------------

Read == \/ ReadOperand \/ ReadArray \/ ReadOperator \/ ReadOpen \/ ReadClose

Solve == SolveOperand \/ SolveUnary \/ SolveBinary \/ SolveOpen

\* The call is over: nothing more happens.
Over == status \in Ends /\ UNCHANGED vars

Next == Read \/ Stop \/ Reject \/ Solve \/ Return \/ Over

Spec == Init /\ [][Next]_vars

\* The parser is one thread that runs until it ends.
FairSpec == Spec /\ WF_vars(Next)

-----------------------------------------------------------------------------
(* What is expected of a call.                                             *)

Node == DOMAIN items

\* The types of the variables, and the phases the loops leave behind.
TypeOK ==
  /\ items \in Seq(Item) /\ items # <<>> /\ items[Len(items)] = "stop"
  /\ pos \in 1 .. Len(items)
  /\ holding \in Seq(Node) /\ solve \in Seq(Node) /\ roots \in Seq(Node)
  /\ balance \in Nat
  /\ left \in [Node -> 0 .. Len(items)] /\ right \in [Node -> 0 .. Len(items)]
  /\ freed \subseteq Node
  /\ status \in {"reading", "solving"} \cup Ends

\* The nodes alloc_node gave out and nothing has freed: the node of a close
\* parenthesis is freed in the iteration that allocates it, and a semicolon
\* ends the loop before one is allocated.
Live == {n \in 1 .. pos - 1 : items[n] \notin {")", ";"}} \ freed

\* Where a node can be reached from: a place on a stack or in the returned
\* list, or a child slot of another node.
Children(slot) == {slot[n] : n \in Node} \ {0}

Stacked == ToSet(holding) \cup ToSet(solve)

Reachable == Stacked \cup ToSet(roots) \cup Children(left) \cup Children(right)

OncePerSlot(slot) == \A m, n \in Node : slot[m] = slot[n] /\ slot[m] # 0 => m = n

\* Every live node can be reached from exactly one place and no other node
\* from any.  The trees parser_free_ast walks (src/src/parser.c) are therefore
\* trees: it frees every node once, and none is lost or was freed before.
OneOwner ==
  status \notin {"exit", "nullderef"} =>
    /\ Reachable = Live
    /\ IsInjective(holding) /\ IsInjective(solve) /\ IsInjective(roots)
    /\ OncePerSlot(left) /\ OncePerSlot(right)
    /\ ToSet(holding) \cap ToSet(solve) = {}
    /\ ToSet(roots) \cap Stacked = {}
    /\ Children(left) \cap (Stacked \cup ToSet(roots) \cup Children(right)) = {}
    /\ Children(right) \cap (Stacked \cup ToSet(roots)) = {}

\* Neighbouring operators on the holding stack bind ever tighter towards the
\* top: an operator that should have been applied before a later one never
\* stays below it (the loops at rpn_parser.c:117 and 139).
HoldingTightens ==
  status = "reading" =>
    \A i \in 1 .. Len(holding) - 1 :
      IsOperator(holding[i]) /\ IsOperator(holding[i + 1]) =>
        Precedence[items[holding[i]]] > Precedence[items[holding[i + 1]]]

\* The two stacks hold all live nodes while reading, so the turning over of
\* one onto the other limits an expression, all its statements together, to
\* StackSize nodes: a call that gets to solving them has no more, and a write
\* past the array means there were more.
NodeLimit ==
  /\ status \in {"solving", "returned"} => Cardinality(Live) <= StackSize
  /\ status = "overflow" => Cardinality(Live) > StackSize

\* Holding nodes without operator are as many as the open parentheses plus the
\* array literals seen.  So rpn_pop at rpn_parser.c:179 always finds a node,
\* and balance tells whether a parenthesis is left for the solving loop.
MarkersMatchBalance ==
  status = "reading" =>
    Cardinality({i \in DOMAIN holding : ~IsOperator(holding[i])})
      = balance + Cardinality({n \in 1 .. pos - 1 : items[n] = "array"})

\* A call returns only if every open parenthesis was closed and no array was
\* taken for one; the solving loop reads through a NULL operator only in the
\* calls that break one of the two.
BalanceDecides ==
  LET arrayLost == \E n \in freed : items[n] = "array" IN
  /\ status = "returned" => balance = 0 /\ ~arrayLost
  /\ status = "nullderef" => balance > 0 \/ arrayLost

\* Where the expression ends in the input: at the first semicolon, at the first
\* token that stops the loop or at a parenthesis opened outside of it.
ExpressionEnd ==
  CHOOSE p \in DOMAIN items :
    LET ends(q) == \/ items[q] \in {";", "stop"}
                   \/ Cardinality({i \in 1 .. q : items[i] = ")"})
                        > Cardinality({i \in 1 .. q : items[i] = "("})
    IN ends(p) /\ \A q \in 1 .. p - 1 : ~ends(q)

\* A call leaves parser->current at the end of its expression, behind the
\* semicolon if that ends it: what follows is left to the caller, whole.
StopsAtEnd ==
  status \in {"solving", "returned"} =>
    pos = IF items[ExpressionEnd] = ";" THEN ExpressionEnd + 1 ELSE ExpressionEnd

\* "Error: Stack is full" (rpn_parser.c:15): a push on a full stack is reported.
\* It is not; the stack is written past its end instead.
FullStackIsReported == status # "overflow"

\* "Drain the stack while not reach the expression with unknown operator"
\* (rpn_parser.c:171): what a close parenthesis frees is that expression.
FreesOnlyParentheses == \A n \in freed : items[n] = "("

\* Every call ends: each round of the reading loop and of the solving loop gets it
\* further.  That a callee returns with its construct is taken for granted here, which
\* is one item; parse_arguments may not, and EndsOrLoops of Parser is about that.
Terminates == <>(status \in Ends)

=============================================================================
