---------------------------- MODULE MCRpnParser ----------------------------
(* Instances of the expression parser: every short input, and the well-formed
   inputs of greater length.                                               *)

EXTENDS RpnTree, DgenLanguage

\* Every sequence of at most n of the items, and the end of file behind it.
Strings(symbols, n) ==
  {Append(s, "stop") : s \in UNION {[1 .. k -> symbols] : k \in 0 .. n}}

\* A tight, a unary, a loose operator and every other item; longer inputs of
\* the items that make the stacks interact.
AllInputs == Strings({".", "!", "="} \cup (Others \ {"stop"}), 4)
               \cup Strings({"!", "+", "operand", "array", "(", ")"}, 5)

\* Expressions with exactly n items, by the grammar's productions alone.
RECURSIVE Expressions(_, _)
Expressions(ops, n) ==
  IF n <= 0 THEN {}
  ELSE IF n = 1 THEN {<<"operand">>}
  ELSE {<<u>> \o e : u \in ops \cap DgenUnary, e \in Expressions(ops, n - 1)}
       \cup {e \o <<u>> : u \in ops \cap DgenUnary, e \in Expressions(ops, n - 1)}
       \cup {<<"(">> \o e \o <<")">> : e \in Expressions(ops, n - 2)}
       \cup UNION {{a \o <<o>> \o b : o \in ops \ DgenUnary,
                      a \in Expressions(ops, k), b \in Expressions(ops, n - 1 - k)}
                     : k \in 1 .. n - 2}

\* Statements in front, an array as the last operand, and both ways to end.
LongInputs ==
  LET exprs == UNION {Expressions({"in", ".", "!", "+", "-", "="}, n) : n \in 1 .. 7}
      front == {<<>>, <<"operand">>}
      ends  == {<<";", "operand", "stop">>, <<"stop">>}
  IN {f \o e \o t : f \in front, e \in exprs, t \in ends}
     \cup {e \o <<"=", "array", ")", "stop">> : e \in exprs}

\* One operand more than a stack holds, and an array literal in parentheses.
FullStack == {[i \in 1 .. StackSize + 2 |-> IF i <= StackSize + 1 THEN "operand" ELSE "stop"]}

HeldArray == {<<"(", "array", ")", "stop">>}

=============================================================================
