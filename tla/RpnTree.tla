------------------------------- MODULE RpnTree -------------------------------
(***************************************************************************)
(* What the expression parser promises: the trees of a well-formed         *)
(* expression, defined without stacks.  The root of a segment of the input *)
(* is the loosest operator outside its parentheses, the last one if there  *)
(* are several, and its operands are the segments on its two sides.  The   *)
(* grammar and the tree of an expression are both read off this split, and *)
(* the trees RpnParser builds are compared with them.                      *)
(***************************************************************************)

EXTENDS RpnParser

Count(item, lo, hi) == Cardinality({i \in lo .. hi : items[i] = item})

\* The operators of the segment lo..hi that are in no parenthesis of it.
Outer(lo, hi) ==
  {n \in lo .. hi : IsOperator(n) /\ Count("(", lo, n) = Count(")", lo, n)}

\* The operator a segment is split at.
Loosest(lo, hi) ==
  CHOOSE n \in Outer(lo, hi) : \A m \in Outer(lo, hi) \ {n} :
    \/ Precedence[items[m]] < Precedence[items[n]]
    \/ Precedence[items[m]] = Precedence[items[n]] /\ m < n

Parenthesised(lo, hi) ==
  /\ items[lo] = "(" /\ items[hi] = ")" /\ lo < hi
  /\ \A n \in lo .. hi - 1 : Count("(", lo, n) > Count(")", lo, n)

\* An array literal is an operand only where the stack order leaves it in
\* place: outside parentheses, as the last item of its expression.
RECURSIVE IsExpression(_, _, _)
IsExpression(lo, hi, end) ==
  IF lo > hi THEN FALSE
  ELSE IF Outer(lo, hi) # {}
  THEN LET n == Loosest(lo, hi)
           L == IsExpression(lo, n - 1, end)
           R == IsExpression(n + 1, hi, end)
       IN IF items[n] \in Unary THEN (n = lo /\ R) \/ (n = hi /\ L) ELSE L /\ R
  ELSE \/ lo = hi /\ items[lo] \in {"operand"} \cup (IF hi = end THEN {"array"} ELSE {})
       \/ Parenthesised(lo, hi) /\ IsExpression(lo + 1, hi - 1, 0)

\* The node a segment stands for.
RECURSIVE RootOf(_, _)
RootOf(lo, hi) ==
  IF Outer(lo, hi) # {} THEN Loosest(lo, hi)
  ELSE IF lo = hi THEN lo ELSE RootOf(lo + 1, hi - 1)

\* The <<operator, left child, right child>> triples of a segment's tree; a
\* unary operator has its operand on the left and 0 on the right.
RECURSIVE Edges(_, _)
Edges(lo, hi) ==
  IF Outer(lo, hi) # {}
  THEN LET n == Loosest(lo, hi) IN
       IF items[n] \in Unary
       THEN LET a == IF n = lo THEN lo + 1 ELSE lo
                b == IF n = lo THEN hi ELSE hi - 1
            IN {<<n, RootOf(a, b), 0>>} \cup Edges(a, b)
       ELSE {<<n, RootOf(lo, n - 1), RootOf(n + 1, hi)>>}
              \cup Edges(lo, n - 1) \cup Edges(n + 1, hi)
  ELSE IF lo = hi THEN {} ELSE Edges(lo + 1, hi - 1)

\* One call collects the statements that end without a semicolon (a keyword or
\* a function with its block) and then at most one expression; the statements
\* are the items 1..k, the expression the items k+1..LastItem.
LastItem == ExpressionEnd - 1

StatementsThenExpression(k) ==
  /\ \A i \in 1 .. k : items[i] = "operand"
  /\ k = LastItem \/ IsExpression(k + 1, LastItem, LastItem)

WellFormed == \E k \in 0 .. LastItem : StatementsThenExpression(k)

\* The longest expression: the fewest statements in front of it.
Statements ==
  CHOOSE k \in 0 .. LastItem : /\ StatementsThenExpression(k)
                           /\ \A j \in 0 .. k - 1 : ~StatementsThenExpression(j)

\* A well-formed input that fits the stacks is never refused.
AcceptsWellFormed ==
  status \in {"exit", "nullderef", "overflow"} =>
    ~WellFormed \/ Cardinality(Live) > StackSize

\* The trees of a well-formed input are the reference trees, linked in the
\* order of the source: precedence and left associativity are respected, a
\* parenthesis overrides both, a unary operator takes the operand on its one
\* side, and no operand is moved, dropped or shared.
BuildsReferenceTrees ==
  status = "returned" /\ WellFormed =>
    LET k == Statements
        roots0 == [i \in 1 .. k |-> i]
    IN /\ roots = IF k = LastItem THEN roots0 ELSE Append(roots0, RootOf(k + 1, LastItem))
       /\ {<<n, left[n], right[n]>> : n \in {m \in Node : left[m] # 0}}
            = IF k = LastItem THEN {} ELSE Edges(k + 1, LastItem)
       /\ \A n \in Node : left[n] = 0 => right[n] = 0

=============================================================================
