--------------------------- MODULE RpnParser_proofs ---------------------------
(***************************************************************************)
(* Theorems about the expression parser, for every operator table, every   *)
(* stack size and every input.                                             *)
(***************************************************************************)

EXTENDS RpnParser, SequenceLemmas, FiniteSetTheorems

-----------------------------------------------------------------------------
(* Draining the holding stack.                                             *)

\* Draining down to k puts the upper nodes of the holding stack, topmost
\* first, on the solve stack.
LEMMA DrainedProperties ==
  ASSUME NEW S, holding \in Seq(S), solve \in Seq(S), NEW k \in 0 .. Len(holding)
  PROVE  /\ Drained(k) \in Seq(S)
         /\ Len(Drained(k)) = Len(solve) + Len(holding) - k
         /\ \A i \in 1 .. Len(solve) : Drained(k)[i] = solve[i]
         /\ \A i \in 1 .. Len(holding) - k :
              Drained(k)[Len(solve) + i] = holding[Len(holding) - i + 1]
<1>0. Len(holding) \in Nat /\ Len(solve) \in Nat /\ k \in Nat /\ k <= Len(holding)
  OBVIOUS
<1>1. PICK upper \in Seq(S) :
        /\ upper = SubSeq(holding, k + 1, Len(holding))
        /\ Len(upper) = Len(holding) - k
        /\ \A i \in 1 .. Len(holding) - k : upper[i] = holding[k + i]
  <2>1. /\ SubSeq(holding, k + 1, Len(holding)) \in Seq(S)
        /\ Len(SubSeq(holding, k + 1, Len(holding))) = Len(holding) - k
        /\ \A i \in 1 .. Len(holding) - k :
             SubSeq(holding, k + 1, Len(holding))[i] = holding[k + i]
    BY UpperProperties
  <2>. QED
    BY <2>1
<1>2. Drained(k) = solve \o Reverse(upper)
  BY <1>1 DEF Drained
<1>3. ASSUME NEW i \in 1 .. Len(holding) - k
      PROVE  Drained(k)[Len(solve) + i] = holding[Len(holding) - i + 1]
  <2>0. \A j \in 1 .. Len(upper) : (solve \o Reverse(upper))[Len(solve) + j]
                                       = upper[Len(upper) - j + 1]
    BY TurnedOver
  <2>1. Drained(k)[Len(solve) + i] = upper[(Len(holding) - k) - i + 1]
    BY <1>1, <1>2, <2>0
  <2>2. (Len(holding) - k) - i + 1 \in 1 .. Len(holding) - k
    BY <1>0
  <2>3. k + ((Len(holding) - k) - i + 1) = Len(holding) - i + 1
    BY <1>0
  <2>. QED
    BY <1>1, <2>1, <2>2, <2>3
<1>4. /\ Drained(k) \in Seq(S)
      /\ Len(Drained(k)) = Len(solve) + Len(upper)
      /\ \A i \in 1 .. Len(solve) : Drained(k)[i] = solve[i]
  BY <1>2, TurnedOver
<1>. QED
  BY <1>0, <1>1, <1>3, <1>4

-----------------------------------------------------------------------------
(* Type correctness.                                                       *)

\* Only the last item of an input is behind its first stop, so an item that
\* is consumed has one after it.
LEMMA NotTheLast ==
  ASSUME TypeOK, items[pos] # "stop"
  PROVE  pos + 1 \in 1 .. Len(items) /\ pos \in Node
BY DEF TypeOK, Node

\* A call starts with variables of their types.
LEMMA InitType == Init => TypeOK
<1>. SUFFICES ASSUME Init PROVE TypeOK
  OBVIOUS
<1>1. items \in Seq(Item) /\ items # <<>> /\ items[Len(items)] = "stop"
  BY InputsAssumption DEF Init
<1>2. pos \in 1 .. Len(items)
  BY <1>1, EmptySeq DEF Init
<1>. QED
  BY <1>1, <1>2 DEF Init, TypeOK, Node

\* Every step of both loops keeps the types; the stop at the end of the input
\* keeps pos inside it.
LEMMA NextType == TypeOK /\ [Next]_vars => TypeOK'
<1>. SUFFICES ASSUME TypeOK, [Next]_vars PROVE TypeOK'
  OBVIOUS
<1>1. /\ holding \in Seq(Node) /\ solve \in Seq(Node) /\ roots \in Seq(Node)
      /\ left \in [Node -> 0 .. Len(items)] /\ right \in [Node -> 0 .. Len(items)]
      /\ freed \subseteq Node /\ balance \in Nat
      /\ Node = 1 .. Len(items) /\ Len(items) \in Nat
  BY DEF TypeOK, Node
<1>2. \A op \in Operators : op \notin Others
  BY OperatorsAssumption
\* Its own type for every variable of the next state.
<1>3. SUFFICES /\ items' = items
               /\ pos' \in 1 .. Len(items)
               /\ holding' \in Seq(Node) /\ solve' \in Seq(Node) /\ roots' \in Seq(Node)
               /\ balance' \in Nat
               /\ left' \in [Node -> 0 .. Len(items)]
               /\ right' \in [Node -> 0 .. Len(items)]
               /\ freed' \subseteq Node
               /\ status' \in {"reading", "solving"} \cup Ends
  BY DEF TypeOK, Node
<1>. USE DEF Ends
<1>4. CASE Read
  <2>1. pos + 1 \in 1 .. Len(items) /\ pos \in Node
    <3>1. items[pos] # "stop"
      BY <1>2, <1>4 DEF Read, ReadOperand, ReadArray, ReadOperator, ReadOpen,
                        ReadClose, Reading, IsOperator, Others
    <3>. QED
      BY <3>1, NotTheLast
  <2>2. CASE ReadOperand
    BY <1>1, <2>1, <2>2, AppendProperties DEF ReadOperand, TypeOK
  <2>3. CASE ReadArray
    BY <1>1, <2>1, <2>3, AppendProperties DEF ReadArray, TypeOK
  <2>4. CASE ReadOpen
    BY <1>1, <2>1, <2>4, AppendProperties DEF ReadOpen, TypeOK
  <2>5. CASE ReadOperator
    <3>1. PICK k \in 0 .. Len(holding) :
            solve' = Drained(k) /\ holding' = Append(SubSeq(holding, 1, k), pos)
      BY <2>5 DEF ReadOperator
    <3>2. solve' \in Seq(Node)
      BY <1>1, <3>1, DrainedProperties
    <3>3. holding' \in Seq(Node)
      BY <1>1, <2>1, <3>1, LowestProperties, AppendProperties
    <3>. QED
      BY <1>1, <2>1, <2>5, <3>2, <3>3 DEF ReadOperator, TypeOK
  <2>6. CASE ReadClose
    <3>1. PICK k \in 0 .. Len(holding) :
            /\ solve' = Drained(k)
            /\ holding' = SubSeq(holding, 1, k - 1)
            /\ freed' = IF k = 0 THEN freed ELSE freed \cup {holding[k]}
            /\ status' = IF ~Fits(solve') THEN "overflow"
                         ELSE IF k = 0 THEN "exit" ELSE "reading"
      BY <2>6 DEF ReadClose
    <3>2. solve' \in Seq(Node)
      BY <1>1, <3>1, DrainedProperties
    <3>3. holding' \in Seq(Node)
      <4>1. CASE k = 0
        BY <3>1, <4>1, SubSeqEmpty, EmptySeq
      <4>2. CASE k # 0
        BY <1>1, <3>1, <4>2, LowestProperties
      <4>. QED
        BY <4>1, <4>2
    <3>4. freed' \subseteq Node
      <4>1. k # 0 => k \in 1 .. Len(holding)
        BY <1>1
      <4>2. k # 0 => holding[k] \in Node
        BY <1>1, <4>1, ElementOfSeq
      <4>. QED
        BY <1>1, <3>1, <4>2
    <3>5. status' \in {"reading", "solving"} \cup Ends
      BY <3>1
    <3>6. /\ balance' \in Nat /\ pos' \in 1 .. Len(items)
          /\ UNCHANGED <<items, left, right, roots>>
      BY <1>1, <2>1, <2>6 DEF ReadClose
    <3>. QED
      BY <1>1, <3>2, <3>3, <3>4, <3>5, <3>6
  <2>. QED
    BY <1>4, <2>2, <2>3, <2>4, <2>5, <2>6 DEF Read
<1>5. CASE Stop
  <2>1. pos' \in 1 .. Len(items)
    BY <1>5, NotTheLast DEF Stop, TypeOK
  <2>2. holding' \in Seq(Node) /\ solve' \in Seq(Node)
    BY <1>1, <1>5, TurnedOver, EmptySeq DEF Stop
  <2>. QED
    BY <1>1, <1>5, <2>1, <2>2 DEF Stop, TypeOK
<1>6. CASE Reject
  BY <1>1, <1>6 DEF Reject, TypeOK
<1>7. CASE Solve
  <2>1. /\ holding' \in Seq(Node) /\ Last(holding) \in Node
        /\ UNCHANGED <<items, pos, balance, freed, roots>>
    <3>1. holding # <<>> /\ holding' = Front(holding)
      BY <1>7 DEF Solve, SolveOperand, SolveUnary, SolveBinary, SolveOpen, Solving
    <3>2. UNCHANGED <<items, pos, balance, freed, roots>>
      BY <1>7 DEF Solve, SolveOperand, SolveUnary, SolveBinary, SolveOpen
    <3>. QED
      BY <1>1, <3>1, <3>2, FrontLast
  <2>2. CASE SolveOperand
    BY <1>1, <2>1, <2>2, AppendProperties DEF SolveOperand, TypeOK
  <2>3. CASE SolveUnary
    <3>1. CASE solve = <<>>
      BY <1>1, <2>1, <2>3, <3>1 DEF SolveUnary, TypeOK
    <3>2. CASE solve # <<>>
      <4>1. Front(solve) \in Seq(Node) /\ Last(solve) \in Node
        BY <1>1, <3>2, FrontLast
      <4>2. /\ left' = [left EXCEPT ![Last(holding)] = Last(solve)]
            /\ solve' = Append(Front(solve), Last(holding))
            /\ UNCHANGED <<right, status>>
        BY <2>3, <3>2 DEF SolveUnary
      <4>3. solve' \in Seq(Node)
        BY <2>1, <4>1, <4>2, AppendProperties
      <4>4. left' \in [Node -> 0 .. Len(items)]
        BY <1>1, <2>1, <4>1, <4>2
      <4>. QED
        BY <1>1, <2>1, <4>2, <4>3, <4>4 DEF TypeOK
    <3>. QED
      BY <3>1, <3>2
  <2>4. CASE SolveBinary
    <3>0. Len(solve) \in Nat
      BY <1>1
    <3>1. CASE Len(solve) = 0
      BY <1>1, <2>1, <2>4, <3>1 DEF SolveBinary, TypeOK
    <3>2. CASE Len(solve) = 1
      <4>1. solve # <<>>
        BY <3>2, EmptySeq
      <4>2. Last(solve) \in Node
        BY <1>1, <4>1, FrontLast
      <4>3. /\ right' = [right EXCEPT ![Last(holding)] = Last(solve)]
            /\ solve' = <<>> /\ status' = "exit" /\ UNCHANGED left
        BY <2>4, <3>2 DEF SolveBinary
      <4>4. right' \in [Node -> 0 .. Len(items)]
        BY <1>1, <2>1, <4>2, <4>3
      <4>. QED
        BY <1>1, <2>1, <4>3, <4>4, EmptySeq DEF TypeOK
    <3>3. CASE Len(solve) # 0 /\ Len(solve) # 1
      <4>1. solve # <<>>
        BY <3>3, EmptySeq
      <4>2. Front(solve) \in Seq(Node) /\ Last(solve) \in Node
            /\ Len(Front(solve)) = Len(solve) - 1
        BY <1>1, <4>1, FrontLast
      <4>3. Front(solve) # <<>>
        BY <3>0, <3>3, <4>2, EmptySeq
      <4>4. Front(Front(solve)) \in Seq(Node) /\ Last(Front(solve)) \in Node
        BY <4>2, <4>3, FrontLast
      <4>5. /\ right' = [right EXCEPT ![Last(holding)] = Last(solve)]
            /\ left' = [left EXCEPT ![Last(holding)] = Last(Front(solve))]
            /\ solve' = Append(Front(Front(solve)), Last(holding))
            /\ UNCHANGED status
        BY <2>4, <3>3 DEF SolveBinary
      <4>6. /\ right' \in [Node -> 0 .. Len(items)]
            /\ left' \in [Node -> 0 .. Len(items)]
        <5>1. Last(solve) \in 0 .. Len(items) /\ Last(Front(solve)) \in 0 .. Len(items)
          BY <1>1, <4>2, <4>4
        <5>. QED
          BY <1>1, <2>1, <4>5, <5>1
      <4>7. solve' \in Seq(Node)
        BY <2>1, <4>4, <4>5, AppendProperties
      <4>. QED
        BY <1>1, <2>1, <4>5, <4>6, <4>7 DEF TypeOK
    <3>. QED
      BY <3>1, <3>2, <3>3
  <2>5. CASE SolveOpen
    BY <1>1, <2>1, <2>5 DEF SolveOpen, TypeOK
  <2>. QED
    BY <1>7, <2>2, <2>3, <2>4, <2>5 DEF Solve
<1>8. CASE Return
  BY <1>1, <1>8, EmptySeq DEF Return, TypeOK
<1>9. CASE UNCHANGED vars
  BY <1>1, <1>9 DEF vars, TypeOK
<1>. QED
  BY <1>4, <1>5, <1>6, <1>7, <1>8, <1>9 DEF Next, Over

\* Every variable keeps its type, whatever the input.
THEOREM TypeCorrect == Spec => []TypeOK
BY InitType, NextType, PTL DEF Spec

-----------------------------------------------------------------------------
(* The order of the holding stack.                                         *)

\* The empty stack is ordered.
LEMMA InitTightens == Init => HoldingTightens
BY EmptySeq DEF Init, HoldingTightens

\* A new neighbour on top of the holding stack that is no operator, or binds
\* tighter, keeps the order; the rest of the stack is a lower part of the old.
LEMMA TightensAppend ==
  ASSUME TypeOK, HoldingTightens, status = "reading", items' = items,
         NEW k \in 0 .. Len(holding),
         NEW n \in Node, IsOperator(n),
         holding' = Append(SubSeq(holding, 1, k), n),
         k > 0 => ~Compare(n, holding[k])
  PROVE  HoldingTightens'
<1>1. holding \in Seq(Node) /\ Len(holding) \in Nat
  BY DEF TypeOK
<1>2. /\ Len(holding') = k + 1
      /\ \A i \in 1 .. k : holding'[i] = holding[i]
      /\ holding'[k + 1] = n
  BY <1>1, LowestProperties, AppendProperties
<1>3. SUFFICES ASSUME NEW i \in 1 .. k,
                      IsOperator(holding'[i]), IsOperator(holding'[i + 1])
               PROVE  Precedence[items[holding'[i]]] > Precedence[items[holding'[i + 1]]]
  BY <1>1, <1>2 DEF HoldingTightens, IsOperator
<1>4. \A h \in Node : IsOperator(h) => Precedence[items[h]] \in Nat
  BY OperatorsAssumption DEF IsOperator
<1>5. CASE i = k
  <2>1. holding[k] \in Node /\ IsOperator(holding[k]) /\ holding'[i] = holding[k]
    BY <1>1, <1>2, <1>3, <1>5 DEF IsOperator
  <2>2. ~(Precedence[items[n]] >= Precedence[items[holding[k]]])
    BY <1>5, <2>1 DEF Compare
  <2>. QED
    BY <1>2, <1>4, <1>5, <2>1, <2>2
<1>6. CASE i # k
  <2>1. /\ i \in 1 .. Len(holding) - 1
        /\ holding'[i] = holding[i] /\ holding'[i + 1] = holding[i + 1]
    BY <1>1, <1>2, <1>6
  <2>. QED
    BY <1>3, <2>1 DEF HoldingTightens, IsOperator
<1>. QED
  BY <1>5, <1>6

\* A push keeps the order, since draining stopped at a node that binds more
\* loosely or is no operator; everything else takes nodes off.
LEMMA NextTightens == TypeOK /\ HoldingTightens /\ [Next]_vars => HoldingTightens'
<1>. SUFFICES ASSUME TypeOK, HoldingTightens, [Next]_vars PROVE HoldingTightens'
  OBVIOUS
<1>1. holding \in Seq(Node) /\ Len(holding) \in Nat
  BY DEF TypeOK
<1>2. \A op \in Operators : op \notin Others
  BY OperatorsAssumption
\* An array or a parenthesis is pushed: no operator, so no pair of them is new.
<1>3. CASE ReadArray \/ ReadOpen
  <2>1. /\ status = "reading" /\ items' = items
        /\ ~IsOperator(pos)
        /\ pos \in Node /\ holding' = Append(holding, pos)
    BY <1>2, <1>3, NotTheLast DEF ReadArray, ReadOpen, Reading, IsOperator, Others
  <2>2. /\ Len(holding') = Len(holding) + 1
        /\ \A i \in 1 .. Len(holding) : holding'[i] = holding[i]
        /\ holding'[Len(holding) + 1] = pos
    BY <1>1, <2>1, AppendProperties
  <2>3. SUFFICES ASSUME NEW i \in 1 .. Len(holding),
                        IsOperator(holding'[i]), IsOperator(holding'[i + 1])
                 PROVE  Precedence[items[holding'[i]]] > Precedence[items[holding'[i + 1]]]
    BY <1>1, <2>1, <2>2 DEF HoldingTightens, IsOperator
  <2>4. i # Len(holding)
    BY <2>1, <2>2, <2>3 DEF IsOperator
  <2>5. /\ i \in 1 .. Len(holding) - 1
        /\ holding'[i] = holding[i] /\ holding'[i + 1] = holding[i + 1]
    BY <1>1, <2>2, <2>4
  <2>. QED
    BY <2>1, <2>3, <2>5 DEF HoldingTightens, IsOperator
<1>4. CASE ReadOperator
  <2>1. /\ status = "reading" /\ items' = items
        /\ pos \in Node /\ IsOperator(pos)
    BY <1>2, <1>4, NotTheLast DEF ReadOperator, IsOperator, Others
  <2>2. PICK k \in 0 .. Len(holding) :
          /\ k > 0 => holding[k] \notin {h \in ToSet(holding) : Compare(pos, h)}
          /\ holding' = Append(SubSeq(holding, 1, k), pos)
    BY <1>4 DEF ReadOperator, StopsAt
  <2>3. k > 0 => ~Compare(pos, holding[k])
    BY <1>1, <2>2 DEF ToSet
  <2>. QED
    BY <2>1, <2>2, <2>3, TightensAppend
\* A lower part of an ordered stack is ordered.
<1>5. CASE ReadClose
  <2>1. status = "reading" /\ items' = items
    BY <1>5 DEF ReadClose, Reading
  <2>2. PICK k \in 0 .. Len(holding) : holding' = SubSeq(holding, 1, k - 1)
    BY <1>5 DEF ReadClose
  <2>3. CASE k = 0
    BY <2>2, <2>3, SubSeqEmpty, EmptySeq DEF HoldingTightens
  <2>4. CASE k # 0
    <3>1. /\ Len(holding') = k - 1
          /\ \A i \in 1 .. k - 1 : holding'[i] = holding[i]
      BY <1>1, <2>2, <2>4, LowestProperties
    <3>. QED
      BY <1>1, <2>1, <3>1 DEF HoldingTightens, IsOperator
  <2>. QED
    BY <2>3, <2>4
<1>6. CASE ReadOperand
  BY <1>6 DEF ReadOperand, Reading, HoldingTightens, IsOperator
<1>7. CASE Stop \/ Reject \/ Solve \/ Return
  <2>1. status' # "reading"
    BY <1>7 DEF Stop, Reject, Solve, SolveOperand, SolveUnary, SolveBinary,
                SolveOpen, Solving, Return
  <2>. QED
    BY <2>1 DEF HoldingTightens
<1>8. CASE UNCHANGED vars
  BY <1>8 DEF vars, HoldingTightens, IsOperator
<1>. QED
  BY <1>3, <1>4, <1>5, <1>6, <1>7, <1>8 DEF Next, Read, Over

\* An operator never stays below one it should be applied before.
THEOREM Tightens == Spec => []HoldingTightens
<1>1. Init => TypeOK /\ HoldingTightens
  BY InitType, InitTightens
<1>2. (TypeOK /\ HoldingTightens) /\ [Next]_vars => (TypeOK /\ HoldingTightens)'
  BY NextType, NextTightens
<1>. QED
  BY <1>1, <1>2, PTL DEF Spec

-----------------------------------------------------------------------------
(* Stacks without repetitions, as sets of nodes.                           *)

\* The empty stack holds nothing.
LEMMA EmptyStack == ToSet(<<>>) = {} /\ IsInjective(<<>>) /\ Len(<<>>) = 0
BY DEF ToSet, IsInjective

\* Pushing a node the stack does not have.
LEMMA PushedSet ==
  ASSUME NEW S, NEW s \in Seq(S), NEW n \in S, IsInjective(s), n \notin ToSet(s)
  PROVE  /\ Append(s, n) \in Seq(S)
         /\ IsInjective(Append(s, n))
         /\ ToSet(Append(s, n)) = ToSet(s) \cup {n}
<1>1. PICK t \in Seq(S) : /\ t = Append(s, n)
                          /\ Len(t) = Len(s) + 1 /\ DOMAIN t = 1 .. Len(s) + 1
                          /\ \A i \in 1 .. Len(s) : t[i] = s[i]
                          /\ t[Len(s) + 1] = n
  <2>1. /\ Append(s, n) \in Seq(S) /\ Len(Append(s, n)) = Len(s) + 1
        /\ \A i \in 1 .. Len(s) : Append(s, n)[i] = s[i]
        /\ Append(s, n)[Len(s) + 1] = n
    BY AppendProperties
  <2>2. DOMAIN Append(s, n) = 1 .. Len(s) + 1
    BY <2>1, LenProperties
  <2>. QED
    BY <2>1, <2>2
<1>2. DOMAIN s = 1 .. Len(s) /\ Len(s) \in Nat
  OBVIOUS
<1>3. \A i \in 1 .. Len(s) : s[i] # n
  BY <1>2 DEF ToSet
<1>4. \A i \in 1 .. Len(s) + 1 : i \in 1 .. Len(s) \/ i = Len(s) + 1
  BY <1>2
<1>5. IsInjective(t)
  BY <1>1, <1>2, <1>3, <1>4 DEF IsInjective
<1>6. ToSet(t) = ToSet(s) \cup {n}
  <2>1. ToSet(t) \subseteq ToSet(s) \cup {n}
    BY <1>1, <1>2, <1>4 DEF ToSet
  <2>2. \A i \in 1 .. Len(s) : i \in 1 .. Len(s) + 1
    BY <1>2
  <2>3. ToSet(s) \subseteq ToSet(t)
    BY <1>1, <1>2, <2>2 DEF ToSet
  <2>4. Len(s) + 1 \in 1 .. Len(s) + 1
    BY <1>2
  <2>5. n \in ToSet(t)
    BY <1>1, <2>4 DEF ToSet
  <2>. QED
    BY <2>1, <2>3, <2>5
<1>. QED
  BY <1>1, <1>5, <1>6

\* The lowest k and the other nodes of a stack share none and are all of it.
LEMMA SplitSets ==
  ASSUME NEW S, NEW s \in Seq(S), NEW k \in 0 .. Len(s), IsInjective(s)
  PROVE  LET lower == SubSeq(s, 1, k)
             upper == SubSeq(s, k + 1, Len(s))
         IN /\ lower \in Seq(S) /\ upper \in Seq(S)
            /\ IsInjective(lower) /\ IsInjective(upper)
            /\ ToSet(lower) \cap ToSet(upper) = {}
            /\ ToSet(lower) \cup ToSet(upper) = ToSet(s)
<1>0. Len(s) \in Nat /\ DOMAIN s = 1 .. Len(s) /\ k \in Nat /\ k <= Len(s)
  OBVIOUS
<1>1. PICK lower \in Seq(S) :
        /\ lower = SubSeq(s, 1, k)
        /\ Len(lower) = k /\ DOMAIN lower = 1 .. k
        /\ \A i \in 1 .. k : lower[i] = s[i]
  <2>1. /\ SubSeq(s, 1, k) \in Seq(S) /\ Len(SubSeq(s, 1, k)) = k
        /\ \A i \in 1 .. k : SubSeq(s, 1, k)[i] = s[i]
    BY LowestProperties
  <2>2. DOMAIN SubSeq(s, 1, k) = 1 .. k
    BY <2>1, LenProperties
  <2>. QED
    BY <2>1, <2>2
<1>2. PICK upper \in Seq(S) :
        /\ upper = SubSeq(s, k + 1, Len(s))
        /\ Len(upper) = Len(s) - k /\ DOMAIN upper = 1 .. Len(s) - k
        /\ \A i \in 1 .. Len(s) - k : upper[i] = s[k + i]
  <2>. DEFINE u == SubSeq(s, k + 1, Len(s))
  <2>1. /\ u \in Seq(S) /\ Len(u) = Len(s) - k
        /\ \A i \in 1 .. Len(s) - k : u[i] = s[k + i]
    BY UpperProperties
  <2>. HIDE DEF u
  <2>2. DOMAIN u = 1 .. Len(s) - k
    BY <2>1, LenProperties
  <2>3. u = SubSeq(s, k + 1, Len(s))
    BY DEF u
  <2>. QED
    BY <2>1, <2>2, <2>3
<1>3. \A i \in 1 .. k : i \in DOMAIN s
  BY <1>0
<1>4. \A i \in 1 .. Len(s) - k : k + i \in DOMAIN s /\ k + i \notin 1 .. k
  BY <1>0
<1>5. IsInjective(lower)
  BY <1>1, <1>3 DEF IsInjective
<1>6. IsInjective(upper)
  <2>1. \A i, j \in 1 .. Len(s) - k : k + i = k + j => i = j
    BY <1>0
  <2>. QED
    BY <1>2, <1>4, <2>1 DEF IsInjective
<1>7. ToSet(lower) \cap ToSet(upper) = {}
  BY <1>1, <1>2, <1>3, <1>4 DEF ToSet, IsInjective
<1>8. ToSet(lower) \subseteq ToSet(s) /\ ToSet(upper) \subseteq ToSet(s)
  <2>1. ToSet(lower) \subseteq ToSet(s)
    BY <1>1, <1>3 DEF ToSet
  <2>2. ToSet(upper) \subseteq ToSet(s)
    BY <1>2, <1>4 DEF ToSet
  <2>. QED
    BY <2>1, <2>2
<1>9. ToSet(s) \subseteq ToSet(lower) \cup ToSet(upper)
  <2>1. SUFFICES ASSUME NEW i \in 1 .. Len(s)
                 PROVE  s[i] \in ToSet(lower) \cup ToSet(upper)
    BY <1>0 DEF ToSet
  <2>2. CASE i <= k
    <3>1. i \in DOMAIN lower /\ lower[i] = s[i]
      BY <1>0, <1>1, <2>2
    <3>. QED
      BY <3>1 DEF ToSet
  <2>3. CASE ~(i <= k)
    <3>1. i - k \in 1 .. Len(s) - k /\ k + (i - k) = i
      BY <1>0, <2>3
    <3>2. upper[i - k] = s[i]
      BY <1>2, <3>1
    <3>. QED
      BY <1>2, <3>1, <3>2 DEF ToSet
  <2>. QED
    BY <2>2, <2>3
<1>. QED
  BY <1>1, <1>2, <1>5, <1>6, <1>7, <1>8, <1>9

\* A stack turned over behind another one that shares no node with it.
LEMMA TurnedOverSet ==
  ASSUME NEW S, NEW s \in Seq(S), NEW t \in Seq(S),
         IsInjective(s), IsInjective(t), ToSet(s) \cap ToSet(t) = {}
  PROVE  /\ s \o Reverse(t) \in Seq(S)
         /\ IsInjective(s \o Reverse(t))
         /\ ToSet(s \o Reverse(t)) = ToSet(s) \cup ToSet(t)
<1>1. PICK u \in Seq(S) :
        /\ u = s \o Reverse(t)
        /\ Len(u) = Len(s) + Len(t) /\ DOMAIN u = 1 .. Len(s) + Len(t)
        /\ \A i \in 1 .. Len(s) : u[i] = s[i]
        /\ \A i \in 1 .. Len(t) : u[Len(s) + i] = t[Len(t) - i + 1]
  <2>. DEFINE u == s \o Reverse(t)
  <2>1. /\ u \in Seq(S) /\ Len(u) = Len(s) + Len(t)
        /\ \A i \in 1 .. Len(s) : u[i] = s[i]
        /\ \A i \in 1 .. Len(t) : u[Len(s) + i] = t[Len(t) - i + 1]
    BY TurnedOver
  <2>. HIDE DEF u
  <2>2. DOMAIN u = 1 .. Len(s) + Len(t)
    BY <2>1, LenProperties
  <2>3. u = s \o Reverse(t)
    BY DEF u
  <2>. QED
    BY <2>1, <2>2, <2>3
<1>2. /\ Len(s) \in Nat /\ DOMAIN s = 1 .. Len(s)
      /\ Len(t) \in Nat /\ DOMAIN t = 1 .. Len(t)
  OBVIOUS
\* An index of u is one of s, or mirrors one of t.
<1>3. \A i \in DOMAIN u :
        \/ i \in DOMAIN s /\ u[i] = s[i]
        \/ \E j \in DOMAIN t : i = Len(s) + Len(t) - j + 1 /\ u[i] = t[j]
  <2>1. SUFFICES ASSUME NEW i \in 1 .. Len(s) + Len(t), i \notin 1 .. Len(s)
                 PROVE  \E j \in DOMAIN t :
                          i = Len(s) + Len(t) - j + 1 /\ u[i] = t[j]
    BY <1>1, <1>2
  <2>. DEFINE d == i - Len(s)
              j == Len(t) - d + 1
  <2>2. /\ d \in 1 .. Len(t) /\ j \in 1 .. Len(t)
        /\ Len(s) + d = i /\ i = Len(s) + Len(t) - j + 1
    BY <1>2, <2>1
  <2>3. u[i] = t[j]
    BY <1>1, <2>2
  <2>. QED
    BY <1>2, <2>2, <2>3
<1>4. IsInjective(u)
  <2>1. SUFFICES ASSUME NEW a \in DOMAIN u, NEW b \in DOMAIN u, u[a] = u[b]
                 PROVE  a = b
    BY DEF IsInjective
  <2>2. \A i \in DOMAIN s, j \in DOMAIN t : s[i] # t[j]
    BY DEF ToSet
  <2>3. CASE a \in DOMAIN s /\ u[a] = s[a]
    BY <1>3, <2>1, <2>2, <2>3 DEF IsInjective
  <2>4. CASE \E j \in DOMAIN t : a = Len(s) + Len(t) - j + 1 /\ u[a] = t[j]
    BY <1>3, <2>1, <2>2, <2>4 DEF IsInjective
  <2>. QED
    BY <1>3, <2>3, <2>4
<1>5. ToSet(u) \subseteq ToSet(s) \cup ToSet(t)
  BY <1>3 DEF ToSet
<1>6. ToSet(s) \subseteq ToSet(u)
  <2>1. \A i \in 1 .. Len(s) : i \in DOMAIN u
    BY <1>1, <1>2
  <2>. QED
    BY <1>1, <1>2, <2>1 DEF ToSet
<1>7. ToSet(t) \subseteq ToSet(u)
  <2>1. SUFFICES ASSUME NEW j \in 1 .. Len(t) PROVE t[j] \in ToSet(u)
    BY <1>2 DEF ToSet
  <2>. DEFINE d == Len(t) - j + 1
  <2>2. d \in 1 .. Len(t) /\ Len(t) - d + 1 = j /\ Len(s) + d \in DOMAIN u
    BY <1>1, <1>2
  <2>3. u[Len(s) + d] = t[j]
    BY <1>1, <2>2
  <2>. QED
    BY <2>2, <2>3 DEF ToSet
<1>. QED
  BY <1>1, <1>4, <1>5, <1>6, <1>7

\* Taking the top off a stack.
LEMMA PoppedSet ==
  ASSUME NEW S, NEW s \in Seq(S), s # <<>>, IsInjective(s)
  PROVE  /\ Front(s) \in Seq(S) /\ Last(s) \in ToSet(s)
         /\ IsInjective(Front(s))
         /\ ToSet(Front(s)) = ToSet(s) \ {Last(s)}
<1>1. /\ Len(s) \in Nat \ {0} /\ Last(s) = s[Len(s)]
      /\ Front(s) \in Seq(S) /\ Len(Front(s)) = Len(s) - 1
      /\ \A i \in 1 .. Len(s) - 1 : Front(s)[i] = s[i]
  BY FrontLast
<1>2. DOMAIN s = 1 .. Len(s) /\ DOMAIN Front(s) = 1 .. Len(s) - 1
  BY <1>1, LenProperties
<1>3. \A i \in 1 .. Len(s) - 1 : i \in DOMAIN s /\ i # Len(s)
  BY <1>1, <1>2
<1>4. \A i \in DOMAIN s : i = Len(s) \/ i \in 1 .. Len(s) - 1
  BY <1>1, <1>2
<1>5. Len(s) \in DOMAIN s
  BY <1>1, <1>2
<1>6. Last(s) \in ToSet(s)
  BY <1>1, <1>5 DEF ToSet
<1>7. IsInjective(Front(s))
  BY <1>1, <1>2, <1>3 DEF IsInjective
<1>8. ToSet(Front(s)) \subseteq ToSet(s) \ {Last(s)}
  BY <1>1, <1>2, <1>3, <1>5 DEF ToSet, IsInjective
<1>9. ToSet(s) \ {Last(s)} \subseteq ToSet(Front(s))
  BY <1>1, <1>2, <1>4 DEF ToSet
<1>. QED
  BY <1>1, <1>6, <1>7, <1>8, <1>9

\* A stack without repetitions is as long as its set is large.
LEMMA StackCardinality ==
  ASSUME NEW S, NEW s \in Seq(S), IsInjective(s)
  PROVE  IsFiniteSet(ToSet(s)) /\ Cardinality(ToSet(s)) = Len(s)
<1>1. s \in [1 .. Len(s) -> ToSet(s)] /\ Len(s) \in Nat
  BY LenProperties DEF ToSet
<1>2. s \in Bijection(1 .. Len(s), ToSet(s))
  BY <1>1 DEF Bijection, Injection, Surjection, IsInjective, ToSet
<1>3. IsFiniteSet(1 .. Len(s)) /\ Cardinality(1 .. Len(s)) = Len(s)
  <2>1. 1 \in Int /\ Len(s) \in Int /\ Len(s) - 1 + 1 = Len(s)
    BY <1>1
  <2>2. CASE Len(s) = 0
    <3>1. 1 .. Len(s) = {}
      BY <2>2
    <3>. QED
      BY <2>2, <3>1, FS_EmptySet
  <2>3. CASE Len(s) # 0
    BY <1>1, <2>1, <2>3, FS_Interval
  <2>. QED
    BY <2>2, <2>3
<1>. QED
  BY <1>2, <1>3, FS_Bijection DEF ExistsBijection

-----------------------------------------------------------------------------
(* One owner per node, and the limit on the nodes of a call.               *)

\* What the two loops leave alone: no node has children and nothing is linked
\* before the solving loop; while it runs, the nodes still held have none, and
\* the two stacks together never need more room than one of them has.
PhaseInv ==
  /\ freed \subseteq 1 .. pos - 1
  /\ status = "reading" => /\ roots = <<>>
                           /\ \A n \in Node : left[n] = 0 /\ right[n] = 0
  /\ status = "solving" => /\ roots = <<>>
                           /\ Len(holding) + Len(solve) <= StackSize
                           /\ \A n \in ToSet(holding) : left[n] = 0 /\ right[n] = 0

OwnerInv == TypeOK /\ OneOwner /\ PhaseInv /\ NodeLimit

\* No node has a child while every slot is 0.
LEMMA NoChildren ==
  ASSUME NEW slot, \A n \in Node : slot[n] = 0
  PROVE  Children(slot) = {} /\ OncePerSlot(slot)
BY DEF Children, OncePerSlot

\* A free slot takes a node that is in no other.
LEMMA ChildAdded ==
  ASSUME NEW slot \in [Node -> 0 .. Len(items)],
         NEW n \in Node, slot[n] = 0, NEW c \in Node, c # 0,
         c \notin Children(slot), OncePerSlot(slot)
  PROVE  /\ Children([slot EXCEPT ![n] = c]) = Children(slot) \cup {c}
         /\ OncePerSlot([slot EXCEPT ![n] = c])
<1>. DEFINE new == [slot EXCEPT ![n] = c]
<1>1. \A m \in Node : new[m] = IF m = n THEN c ELSE slot[m]
  OBVIOUS
<1>2. \A m \in Node : slot[m] # c
  BY DEF Children
<1>. HIDE DEF new
<1>3. Children(new) = Children(slot) \cup {c}
  <2>1. Children(new) \subseteq Children(slot) \cup {c}
    BY <1>1 DEF Children
  <2>2. c \in Children(new)
    BY <1>1 DEF Children
  <2>3. ASSUME NEW x \in Children(slot) PROVE x \in Children(new)
    <3>1. PICK m \in Node : slot[m] = x /\ x # 0
      BY <2>3 DEF Children
    <3>2. new[m] = x
      BY <1>1, <3>1
    <3>. QED
      BY <3>1, <3>2 DEF Children
  <2>. QED
    BY <2>1, <2>2, <2>3
<1>4. OncePerSlot(new)
  BY <1>1, <1>2 DEF OncePerSlot
<1>. QED
  BY <1>3, <1>4 DEF new

\* Before the first item nothing is allocated and nothing reachable.
LEMMA InitOwner == Init => OwnerInv
<1>. SUFFICES ASSUME Init PROVE OwnerInv
  OBVIOUS
<1>1. TypeOK
  BY InitType
<1>2. Live = {} /\ freed = {}
  BY DEF Init, Live
<1>3. ToSet(<<>>) = {} /\ IsInjective(<<>>)
  BY DEF ToSet, IsInjective
<1>4. \A n \in Node : left[n] = 0 /\ right[n] = 0
  BY DEF Init, Node
<1>5. OneOwner
  BY <1>2, <1>3, <1>4, NoChildren DEF Init, OneOwner, Reachable, Stacked
<1>6. PhaseInv
  BY <1>2, <1>4 DEF Init, PhaseInv
<1>7. NodeLimit
  BY DEF Init, NodeLimit
<1>. QED
  BY <1>1, <1>5, <1>6, <1>7 DEF OwnerInv

\* What the reading loop has to keep: the two stacks hold the live nodes, each
\* once.
StacksOwn ==
  /\ Stacked = Live
  /\ IsInjective(holding) /\ IsInjective(solve)
  /\ ToSet(holding) \cap ToSet(solve) = {}

\* Ownership when an item has been read, from what the two stacks hold then.
LEMMA ReadingOwns ==
  ASSUME TypeOK, PhaseInv, status = "reading" PROVE OneOwner <=> StacksOwn
<1>1. Children(left) = {} /\ Children(right) = {} /\ OncePerSlot(left) /\ OncePerSlot(right)
  BY NoChildren DEF PhaseInv
<1>2. ToSet(roots) = {} /\ IsInjective(roots)
  BY DEF PhaseInv, ToSet, IsInjective
<1>. QED
  BY <1>1, <1>2 DEF OneOwner, StacksOwn, Reachable

\* Every step of the reading loop gives its node one place or frees one.
LEMMA ReadOwns ==
  ASSUME TypeOK, PhaseInv, StacksOwn, Read, status' # "exit"
  PROVE  StacksOwn'
<1>1. holding \in Seq(Node) /\ solve \in Seq(Node) /\ Len(holding) \in Nat
  BY DEF TypeOK
<1>2. \A op \in Operators : op \notin Others
  BY OperatorsAssumption
<1>3. status = "reading" /\ items' = items /\ pos' = pos + 1
  BY DEF Read, ReadOperand, ReadArray, ReadOperator, ReadOpen, ReadClose, Reading
<1>4. pos \in Node /\ pos \in Nat
  BY DEF TypeOK, Node
<1>5. pos \notin Live /\ pos \notin ToSet(holding) /\ pos \notin ToSet(solve)
  <2>1. pos \notin 1 .. pos - 1
    BY <1>4
  <2>2. pos \notin Live
    BY <2>1 DEF Live
  <2>. QED
    BY <2>2 DEF StacksOwn, Stacked
<1>6. freed' = freed /\ items[pos] \notin {")", ";"} => Live' = Live \cup {pos}
  <2>1. pos \notin freed
    BY <1>4 DEF PhaseInv
  <2>2. \A n : n \in 1 .. (pos + 1) - 1 <=> n \in 1 .. pos - 1 \/ n = pos
    BY <1>4 DEF TypeOK
  <2>. QED
    BY <1>3, <2>1, <2>2 DEF Live
<1>7. CASE ReadOperand
  <2>1. solve' = Append(solve, pos) /\ holding' = holding /\ Live' = Live \cup {pos}
    BY <1>6, <1>7 DEF ReadOperand, Reading
  <2>2. IsInjective(solve') /\ ToSet(solve') = ToSet(solve) \cup {pos}
    BY <1>1, <1>4, <1>5, <2>1, PushedSet DEF StacksOwn
  <2>. QED
    BY <1>5, <2>1, <2>2 DEF StacksOwn, Stacked
<1>8. CASE ReadArray \/ ReadOpen
  <2>1. solve' = solve /\ holding' = Append(holding, pos) /\ Live' = Live \cup {pos}
    BY <1>6, <1>8 DEF ReadArray, ReadOpen, Reading
  <2>2. IsInjective(holding') /\ ToSet(holding') = ToSet(holding) \cup {pos}
    BY <1>1, <1>4, <1>5, <2>1, PushedSet DEF StacksOwn
  <2>. QED
    BY <1>5, <2>1, <2>2 DEF StacksOwn, Stacked
<1>9. CASE ReadOperator
  <2>1. PICK k \in 0 .. Len(holding) :
          solve' = Drained(k) /\ holding' = Append(SubSeq(holding, 1, k), pos)
    BY <1>9 DEF ReadOperator
  <2>. DEFINE lower == SubSeq(holding, 1, k)
              upper == SubSeq(holding, k + 1, Len(holding))
  <2>2. /\ lower \in Seq(Node) /\ upper \in Seq(Node)
        /\ IsInjective(lower) /\ IsInjective(upper)
        /\ ToSet(lower) \cap ToSet(upper) = {}
        /\ ToSet(lower) \cup ToSet(upper) = ToSet(holding)
    BY <1>1, SplitSets DEF StacksOwn
  <2>3. solve' = solve \o Reverse(upper) /\ holding' = Append(lower, pos)
    BY <2>1 DEF Drained
  <2>. HIDE DEF lower, upper
  <2>4. IsInjective(solve') /\ ToSet(solve') = ToSet(solve) \cup ToSet(upper)
    <3>1. ToSet(solve) \cap ToSet(upper) = {}
      BY <2>2 DEF StacksOwn
    <3>. QED
      BY <1>1, <2>2, <2>3, <3>1, TurnedOverSet DEF StacksOwn
  <2>5. IsInjective(holding') /\ ToSet(holding') = ToSet(lower) \cup {pos}
    <3>1. pos \notin ToSet(lower)
      BY <1>5, <2>2
    <3>. QED
      BY <1>4, <2>2, <2>3, <3>1, PushedSet
  <2>6. Live' = Live \cup {pos}
    BY <1>2, <1>6, <1>9 DEF ReadOperator, IsOperator, Others
  <2>7. ToSet(holding') \cap ToSet(solve') = {}
    BY <1>5, <2>2, <2>4, <2>5 DEF StacksOwn
  <2>8. Stacked' = Live'
    BY <2>2, <2>4, <2>5, <2>6 DEF StacksOwn, Stacked
  <2>. QED
    BY <2>4, <2>5, <2>7, <2>8 DEF StacksOwn
<1>10. CASE ReadClose
  <2>1. PICK k \in 0 .. Len(holding) :
          /\ solve' = Drained(k)
          /\ holding' = SubSeq(holding, 1, k - 1)
          /\ freed' = IF k = 0 THEN freed ELSE freed \cup {holding[k]}
    BY <1>10 DEF ReadClose
  <2>. DEFINE lower == SubSeq(holding, 1, k)
              upper == SubSeq(holding, k + 1, Len(holding))
  <2>2. /\ lower \in Seq(Node) /\ upper \in Seq(Node)
        /\ IsInjective(lower) /\ IsInjective(upper)
        /\ ToSet(lower) \cap ToSet(upper) = {}
        /\ ToSet(lower) \cup ToSet(upper) = ToSet(holding)
    BY <1>1, SplitSets DEF StacksOwn
  <2>3. solve' = solve \o Reverse(upper)
    BY <2>1 DEF Drained
  <2>4. /\ k = 0 => lower = <<>>
        /\ k # 0 => /\ lower # <<>> /\ Last(lower) = holding[k]
                    /\ holding' = Front(lower)
    <3>1. /\ Len(lower) = k
          /\ \A i \in 1 .. k : lower[i] = holding[i]
      BY <1>1, LowestProperties
    <3>2. CASE k = 0
      BY <3>2, SubSeqEmpty
    <3>3. CASE k # 0
      <4>1. k \in 1 .. k /\ k - 1 \in 0 .. k /\ k \in 0 .. Len(holding) /\ k \in Nat
        BY <3>3
      <4>2. lower # <<>> /\ Last(lower) = holding[k]
        BY <3>1, <3>3, <4>1, EmptySeq DEF Last
      <4>3. SubSeq(lower, 1, k - 1) = SubSeq(holding, 1, k - 1)
        <5>1. /\ SubSeq(lower, 1, k - 1) \in Seq(Node) /\ Len(SubSeq(lower, 1, k - 1)) = k - 1
              /\ \A i \in 1 .. k - 1 : SubSeq(lower, 1, k - 1)[i] = lower[i]
          BY <2>2, <3>1, <4>1, LowestProperties
        <5>2. /\ SubSeq(holding, 1, k - 1) \in Seq(Node) /\ Len(SubSeq(holding, 1, k - 1)) = k - 1
              /\ \A i \in 1 .. k - 1 : SubSeq(holding, 1, k - 1)[i] = holding[i]
          BY <1>1, <4>1, LowestProperties
        <5>3. \A i \in 1 .. k - 1 : SubSeq(lower, 1, k - 1)[i] = SubSeq(holding, 1, k - 1)[i]
          BY <3>1, <4>1, <5>1, <5>2
        <5>. QED
          BY <5>1, <5>2, <5>3, SeqEqual
      <4>4. Front(lower) = SubSeq(lower, 1, k - 1)
        BY <3>1 DEF Front
      <4>. QED
        BY <2>1, <3>3, <4>2, <4>3, <4>4
    <3>. QED
      BY <3>2, <3>3
  <2>5. IsInjective(solve') /\ ToSet(solve') = ToSet(solve) \cup ToSet(upper)
    <3>1. ToSet(solve) \cap ToSet(upper) = {}
      BY <2>2 DEF StacksOwn
    <3>2. upper \in Seq(Node) /\ IsInjective(upper)
      BY <2>2
    <3>. HIDE DEF upper
    <3>. QED
      BY <1>1, <2>3, <3>1, <3>2, TurnedOverSet DEF StacksOwn
  <2>. HIDE DEF lower, upper
  <2>6. Live' = Live \ (freed' \ freed)
    <3>1. items[pos] = ")"
      BY <1>10 DEF ReadClose, Reading
    <3>2. \A n : n \in 1 .. (pos + 1) - 1 <=> n \in 1 .. pos - 1 \/ n = pos
      BY <1>4 DEF TypeOK
    <3>3. freed \subseteq freed'
      BY <2>1
    <3>. QED
      BY <1>3, <3>1, <3>2, <3>3 DEF Live
  <2>7. CASE k = 0
    <3>1. holding' = <<>> /\ freed' = freed /\ ToSet(lower) = {}
      BY <2>1, <2>4, <2>7, SubSeqEmpty DEF ToSet
    <3>2. ToSet(holding') = {} /\ IsInjective(holding')
      BY <3>1 DEF ToSet, IsInjective
    <3>. QED
      BY <2>2, <2>5, <2>6, <3>1, <3>2 DEF StacksOwn, Stacked
  <2>8. CASE k # 0
    <3>1. /\ IsInjective(holding')
          /\ ToSet(holding') = ToSet(lower) \ {holding[k]}
          /\ holding[k] \in ToSet(lower)
      BY <2>2, <2>4, <2>8, PoppedSet
    <3>2. Live' = Live \ {holding[k]}
      BY <2>1, <2>6, <2>8 DEF Live
    <3>3. Stacked' = Live'
      BY <2>2, <2>5, <3>1, <3>2 DEF StacksOwn, Stacked
    <3>4. ToSet(holding') \cap ToSet(solve') = {}
      BY <2>2, <2>5, <3>1 DEF StacksOwn
    <3>. QED
      BY <2>5, <3>1, <3>3, <3>4 DEF StacksOwn
  <2>. QED
    BY <2>7, <2>8
<1>. QED
  BY <1>7, <1>8, <1>9, <1>10 DEF Read

\* The stacks are turned over one onto the other.
LEMMA StopOwns ==
  ASSUME TypeOK, PhaseInv, StacksOwn, Stop
  PROVE  /\ StacksOwn'
         /\ Len(holding') = Len(holding) + Len(solve) /\ Len(solve') = 0
<1>1. holding \in Seq(Node) /\ solve \in Seq(Node)
  BY DEF TypeOK
<1>2. /\ holding' = holding \o Reverse(solve) /\ solve' = <<>>
      /\ items' = items /\ freed' = freed
      /\ pos' = pos \/ (pos' = pos + 1 /\ items[pos] = ";")
  BY DEF Stop
<1>3. /\ IsInjective(holding')
      /\ ToSet(holding') = ToSet(holding) \cup ToSet(solve)
      /\ Len(holding') = Len(holding) + Len(solve)
  <2>1. IsInjective(holding') /\ ToSet(holding') = ToSet(holding) \cup ToSet(solve)
    <3>1. /\ IsInjective(holding) /\ IsInjective(solve)
          /\ ToSet(holding) \cap ToSet(solve) = {}
      BY DEF StacksOwn
    <3>2. /\ IsInjective(holding \o Reverse(solve))
          /\ ToSet(holding \o Reverse(solve)) = ToSet(holding) \cup ToSet(solve)
      BY <1>1, <3>1, TurnedOverSet
    <3>. QED
      BY <1>2, <3>2
  <2>2. Len(holding') = Len(holding) + Len(solve)
    BY <1>1, <1>2, TurnedOver
  <2>. QED
    BY <2>1, <2>2
<1>4. ToSet(solve') = {} /\ IsInjective(solve') /\ Len(solve') = 0
  BY <1>2, EmptyStack
<1>5. Live' = Live
  <2>1. \A n : n \in 1 .. (pos + 1) - 1 <=> n \in 1 .. pos - 1 \/ n = pos
    BY DEF TypeOK
  <2>. QED
    BY <1>2, <2>1 DEF Live
<1>. QED
  BY <1>3, <1>4, <1>5 DEF StacksOwn, Stacked

\* A step that makes a stack larger than it may be leaves too many live nodes.
LEMMA TooMany ==
  ASSUME TypeOK', OneOwner', status' \notin {"exit", "nullderef"},
         ~Fits(holding') \/ ~Fits(solve')
  PROVE  Cardinality(Live') > StackSize
<1>1. PICK s \in {holding', solve'} : Len(s) > StackSize
  BY StackSizeAssumption DEF Fits, TypeOK
<1>2. s \in Seq(Node') /\ IsInjective(s) /\ ToSet(s) \subseteq Live'
  BY DEF TypeOK, OneOwner, Reachable, Stacked
<1>3. Cardinality(ToSet(s)) = Len(s) /\ Len(s) \in Nat
  BY <1>2, StackCardinality
<1>4. IsFiniteSet(Live')
  <2>1. IsFiniteSet(1 .. pos' - 1)
    BY FS_Interval DEF TypeOK
  <2>. QED
    BY <2>1, FS_Subset DEF Live
<1>5. Cardinality(ToSet(s)) <= Cardinality(Live') /\ Cardinality(Live') \in Nat
  BY <1>2, <1>4, FS_Subset, FS_CardinalityType
<1>. QED
  BY <1>1, <1>3, <1>5, StackSizeAssumption

\* The top of a stack of nodes and the rest.
LEMMA PoppedTop ==
  ASSUME NEW s \in Seq(Node), s # <<>>, IsInjective(s),
         Node = 1 .. Len(items), Len(items) \in Nat
  PROVE  /\ Front(s) \in Seq(Node) /\ Len(Front(s)) = Len(s) - 1
         /\ IsInjective(Front(s)) /\ ToSet(Front(s)) = ToSet(s) \ {Last(s)}
         /\ Last(s) \in ToSet(s) /\ Last(s) \in Node /\ Last(s) # 0
<1>1. /\ IsInjective(Front(s)) /\ ToSet(Front(s)) = ToSet(s) \ {Last(s)}
      /\ Last(s) \in ToSet(s)
  BY PoppedSet
<1>2. Front(s) \in Seq(Node) /\ Len(Front(s)) = Len(s) - 1 /\ Last(s) \in Node
  BY FrontLast
<1>3. Last(s) # 0
  BY <1>2
<1>. QED
  BY <1>1, <1>2, <1>3

\* A solving step moves the top of the holding stack and hangs the nodes it
\* takes from the solve stack below it.
LEMMA SolveOwner ==
  ASSUME TypeOK, OneOwner, PhaseInv, NodeLimit, TypeOK', Solve
  PROVE  OneOwner' /\ PhaseInv' /\ NodeLimit'
<1>1. /\ holding \in Seq(Node) /\ solve \in Seq(Node)
      /\ left \in [Node -> 0 .. Len(items)] /\ right \in [Node -> 0 .. Len(items)]
      /\ Len(holding) \in Nat /\ Len(solve) \in Nat /\ StackSize \in Nat
      /\ Node = 1 .. Len(items) /\ Len(items) \in Nat
  <2>1. StackSize \in Nat
    BY StackSizeAssumption
  <2>2. /\ items \in Seq(Item) /\ holding \in Seq(Node) /\ solve \in Seq(Node)
        /\ left \in [Node -> 0 .. Len(items)] /\ right \in [Node -> 0 .. Len(items)]
    BY DEF TypeOK
  <2>3. Node = 1 .. Len(items)
    BY <2>2 DEF Node
  <2>. QED
    BY <2>1, <2>2, <2>3
<1>. DEFINE n == Last(holding)
<1>2. /\ status = "solving" /\ holding # <<>> /\ holding' = Front(holding)
      /\ UNCHANGED <<items, pos, freed, roots>>
  BY DEF Solve, SolveOperand, SolveUnary, SolveBinary, SolveOpen, Solving
<1>3. Live' = Live /\ Node' = Node
  BY <1>2 DEF Live, Node
<1>4. /\ IsInjective(holding) /\ IsInjective(solve) /\ roots = <<>>
      /\ Stacked \cup Children(left) \cup Children(right) = Live
      /\ OncePerSlot(left) /\ OncePerSlot(right)
      /\ ToSet(holding) \cap ToSet(solve) = {}
      /\ Children(left) \cap (Stacked \cup Children(right)) = {}
      /\ Children(right) \cap Stacked = {}
  <2>1. roots = <<>> /\ ToSet(roots) = {}
    BY <1>2 DEF PhaseInv, ToSet
  <2>. QED
    BY <1>2, <2>1 DEF OneOwner, Reachable
<1>5. /\ holding' \in Seq(Node) /\ n \in ToSet(holding) /\ n \in Node
      /\ IsInjective(holding') /\ ToSet(holding') = ToSet(holding) \ {n}
      /\ Len(holding') = Len(holding) - 1
      /\ left[n] = 0 /\ right[n] = 0
  BY <1>1, <1>2, <1>4, PoppedSet, FrontLast DEF PhaseInv
<1>6. status' \in {"exit", "nullderef"} => OneOwner' /\ PhaseInv' /\ NodeLimit'
  BY <1>2 DEF OneOwner, PhaseInv, NodeLimit
<1>. HIDE DEF n
\* A step that goes on has one push and at least as many pops.
<1>7. SUFFICES ASSUME status' \notin {"exit", "nullderef"}
               PROVE  /\ status' = "solving"
                      /\ Len(solve') <= Len(solve) + 1
                      /\ \A m \in ToSet(holding') : left'[m] = 0 /\ right'[m] = 0
                      /\ OneOwner'
  <2>1. Len(solve') \in Nat /\ Len(holding) + Len(solve) <= StackSize
    BY <1>2 DEF TypeOK, PhaseInv
  <2>2. ASSUME Len(solve') <= Len(solve) + 1
        PROVE  Len(holding') + Len(solve') <= StackSize
    BY <1>1, <1>5, <2>1, <2>2
  <2>. QED
    BY <1>2, <1>3, <1>4, <1>6, <2>2 DEF PhaseInv, NodeLimit
\* One owner each, in terms of what changed.
<1>8. ASSUME IsInjective(solve'), OncePerSlot(left'), OncePerSlot(right'),
             ToSet(holding') \cap ToSet(solve') = {},
             ToSet(holding') \cup ToSet(solve') \cup Children(left') \cup Children(right') = Live,
             Children(left') \cap (ToSet(holding') \cup ToSet(solve') \cup Children(right')) = {},
             Children(right') \cap (ToSet(holding') \cup ToSet(solve')) = {}
      PROVE  OneOwner'
  <2>1. /\ Children(left') = Children(left)' /\ Children(right') = Children(right)'
        /\ OncePerSlot(left') = OncePerSlot(left)' /\ OncePerSlot(right') = OncePerSlot(right)'
    BY <1>3 DEF Children, OncePerSlot
  <2>2. ToSet(roots') = {} /\ IsInjective(roots')
    BY <1>2, <1>4 DEF ToSet, IsInjective
  <2>. QED
    BY <1>3, <1>5, <1>8, <2>1, <2>2 DEF OneOwner, Reachable, Stacked
<1>9. CASE SolveOperand
  <2>1. /\ solve' = Append(solve, n) /\ UNCHANGED <<left, right>>
        /\ status' = IF Fits(solve') THEN "solving" ELSE "overflow"
    BY <1>9 DEF SolveOperand, n
  <2>2. n \notin ToSet(solve)
    BY <1>4, <1>5
  <2>3. /\ IsInjective(solve') /\ ToSet(solve') = ToSet(solve) \cup {n}
        /\ Len(solve') = Len(solve) + 1
    BY <1>1, <1>4, <1>5, <2>1, <2>2, PushedSet, AppendProperties
  <2>4. Fits(solve')
    <3>1. Len(holding) + Len(solve) <= StackSize /\ Len(holding) - 1 \in Nat
      BY <1>1, <1>2, <1>5, <1>7 DEF PhaseInv, TypeOK
    <3>. QED
      BY <1>1, <2>3, <3>1 DEF Fits
  <2>5. OneOwner'
    BY <1>4, <1>5, <1>8, <2>1, <2>3 DEF Stacked
  <2>. QED
    BY <1>1, <1>2, <1>5, <2>1, <2>3, <2>4, <2>5 DEF PhaseInv
<1>10. CASE SolveUnary
  <2>1. /\ solve # <<>> /\ left' = [left EXCEPT ![n] = Last(solve)]
        /\ solve' = Append(Front(solve), n) /\ UNCHANGED <<right, status>>
    BY <1>7, <1>10 DEF SolveUnary, n
  <2>. DEFINE c == Last(solve)
              rest == Front(solve)
  <2>2. /\ rest \in Seq(Node) /\ c \in ToSet(solve) /\ c \in Node /\ c # 0
        /\ IsInjective(rest) /\ ToSet(rest) = ToSet(solve) \ {c}
        /\ Len(rest) = Len(solve) - 1
    BY <1>1, <1>4, <2>1, PoppedTop
  <2>. HIDE DEF c, rest
  <2>3. c # n /\ c \notin Children(left) /\ c \notin Children(right) /\ n \notin ToSet(rest)
    BY <1>4, <1>5, <2>2 DEF Stacked
  <2>4. /\ IsInjective(solve') /\ ToSet(solve') = ToSet(rest) \cup {n}
        /\ Len(solve') = Len(rest) + 1
    BY <1>5, <2>1, <2>2, <2>3, PushedSet, AppendProperties DEF rest
  <2>5. Children(left') = Children(left) \cup {c} /\ OncePerSlot(left')
    <3>1. left' = [left EXCEPT ![n] = c] /\ left \in [Node -> 0 .. Len(items)]
      BY <1>1, <2>1 DEF c
    <3>2. n \in Node /\ left[n] = 0 /\ c \in Node /\ c # 0
          /\ c \notin Children(left) /\ OncePerSlot(left)
      BY <1>4, <1>5, <2>2, <2>3
    <3>3. /\ Children([left EXCEPT ![n] = c]) = Children(left) \cup {c}
          /\ OncePerSlot([left EXCEPT ![n] = c])
      BY <3>1, <3>2, ChildAdded
    <3>. QED
      BY <3>1, <3>3, Zenon
  <2>6. OneOwner'
    <3>1. ToSet(holding') \cap ToSet(solve') = {}
      BY <1>4, <1>5, <2>2, <2>4
    <3>2. ToSet(holding') \cup ToSet(solve') = Stacked \ {c}
      BY <1>4, <1>5, <2>2, <2>3, <2>4 DEF Stacked
    <3>3. right' = right /\ c \in Stacked
      BY <2>1, <2>2 DEF Stacked
    <3>. QED
      BY <1>4, <1>8, <2>3, <2>4, <2>5, <3>1, <3>2, <3>3
  <2>7. \A m \in ToSet(holding') : left'[m] = 0 /\ right'[m] = 0
    <3>1. \A m \in ToSet(holding') : m # n /\ left[m] = 0 /\ right[m] = 0
      BY <1>2, <1>5 DEF PhaseInv
    <3>. QED
      BY <1>1, <2>1, <3>1
  <2>. QED
    BY <1>1, <1>2, <2>1, <2>2, <2>4, <2>6, <2>7
<1>11. CASE SolveBinary
  <2>0. Len(solve) # 0 /\ Len(solve) # 1
    BY <1>7, <1>11 DEF SolveBinary
  <2>1. /\ right' = [right EXCEPT ![n] = Last(solve)]
        /\ left' = [left EXCEPT ![n] = Last(Front(solve))]
        /\ solve' = Append(Front(Front(solve)), n) /\ UNCHANGED status
    BY <1>11, <2>0 DEF SolveBinary, n
  <2>. DEFINE r == Last(solve)
              below == Front(solve)
              l == Last(below)
              rest == Front(below)
  <2>2. /\ below \in Seq(Node) /\ r \in ToSet(solve) /\ r \in Node /\ r # 0
        /\ IsInjective(below) /\ ToSet(below) = ToSet(solve) \ {r}
        /\ Len(below) = Len(solve) - 1
    <3>1. solve # <<>>
      BY <2>0, EmptySeq
    <3>. QED
      BY <1>1, <1>4, <3>1, PoppedTop
  <2>3. /\ right' = [right EXCEPT ![n] = r] /\ left' = [left EXCEPT ![n] = l]
        /\ solve' = Append(rest, n)
    BY <2>1
  <2>. HIDE DEF r, below
  <2>4. /\ rest \in Seq(Node) /\ l \in ToSet(below) /\ l \in Node /\ l # 0
        /\ IsInjective(rest) /\ ToSet(rest) = ToSet(below) \ {l}
        /\ Len(rest) = Len(below) - 1
    <3>1. below # <<>>
      BY <1>1, <2>0, <2>2, EmptySeq
    <3>. QED
      BY <1>1, <2>2, <3>1, PoppedTop
  <2>. HIDE DEF l, rest
  <2>5. /\ l # n /\ r # n /\ l # r /\ n \notin ToSet(rest)
        /\ l \notin Children(left) /\ r \notin Children(right)
        /\ r \notin Children(left) /\ l \notin Children(right)
    BY <1>4, <1>5, <2>2, <2>4 DEF Stacked
  <2>6. /\ IsInjective(solve') /\ ToSet(solve') = ToSet(rest) \cup {n}
        /\ Len(solve') = Len(rest) + 1
    BY <1>5, <2>3, <2>4, <2>5, PushedSet, AppendProperties
  <2>7. Children(left') = Children(left) \cup {l} /\ OncePerSlot(left')
    <3>1. left' = [left EXCEPT ![n] = l] /\ left \in [Node -> 0 .. Len(items)]
      BY <1>1, <2>3
    <3>2. n \in Node /\ left[n] = 0 /\ l \in Node /\ l # 0
          /\ l \notin Children(left) /\ OncePerSlot(left)
      BY <1>4, <1>5, <2>4, <2>5
    <3>3. /\ Children([left EXCEPT ![n] = l]) = Children(left) \cup {l}
          /\ OncePerSlot([left EXCEPT ![n] = l])
      BY <3>1, <3>2, ChildAdded
    <3>. QED
      BY <3>1, <3>3, Zenon
  <2>8. Children(right') = Children(right) \cup {r} /\ OncePerSlot(right')
    <3>1. right' = [right EXCEPT ![n] = r] /\ right \in [Node -> 0 .. Len(items)]
      BY <1>1, <2>3
    <3>2. n \in Node /\ right[n] = 0 /\ r \in Node /\ r # 0
          /\ r \notin Children(right) /\ OncePerSlot(right)
      BY <1>4, <1>5, <2>2, <2>5
    <3>3. /\ Children([right EXCEPT ![n] = r]) = Children(right) \cup {r}
          /\ OncePerSlot([right EXCEPT ![n] = r])
      BY <3>1, <3>2, ChildAdded
    <3>. QED
      BY <3>1, <3>3, Zenon
  <2>9. OneOwner'
    BY <1>4, <1>5, <1>8, <2>2, <2>4, <2>5, <2>6, <2>7, <2>8 DEF Stacked
  <2>10. \A m \in ToSet(holding') : left'[m] = 0 /\ right'[m] = 0
    <3>1. \A m \in ToSet(holding') : m # n /\ left[m] = 0 /\ right[m] = 0
      BY <1>2, <1>5 DEF PhaseInv
    <3>2. ToSet(holding') \subseteq Node
      BY <1>1, <1>5 DEF ToSet
    <3>. QED
      BY <1>1, <2>3, <3>1, <3>2
  <2>. QED
    BY <1>1, <1>2, <2>1, <2>2, <2>4, <2>6, <2>9, <2>10
<1>12. CASE SolveOpen
  BY <1>7, <1>12 DEF SolveOpen
<1>. QED
  BY <1>9, <1>10, <1>11, <1>12 DEF Solve

\* Every step of the call keeps the invariant of ownership.
LEMMA NextOwner == OwnerInv /\ [Next]_vars => OwnerInv'
<1>. SUFFICES ASSUME TypeOK, OneOwner, PhaseInv, NodeLimit, [Next]_vars
              PROVE  OwnerInv'
  BY DEF OwnerInv
<1>1. TypeOK'
  BY NextType
<1>2. SUFFICES OneOwner' /\ PhaseInv' /\ NodeLimit'
  BY <1>1 DEF OwnerInv
<1>3. /\ holding \in Seq(Node) /\ solve \in Seq(Node) /\ roots \in Seq(Node)
      /\ Len(holding) \in Nat /\ Len(solve) \in Nat /\ StackSize \in Nat
      /\ Node = 1 .. Len(items) /\ Len(items) \in Nat /\ pos \in Nat
  BY StackSizeAssumption DEF TypeOK, Node
<1>4. CASE Read
  <2>1. /\ status = "reading" /\ items' = items /\ pos' = pos + 1
        /\ UNCHANGED <<left, right, roots>>
        /\ freed' \subseteq freed \cup Stacked
        /\ status' \in {"reading", "exit", "overflow"}
        /\ status' = "overflow" => ~Fits(holding') \/ ~Fits(solve')
    <3>1. /\ status = "reading" /\ items' = items /\ pos' = pos + 1
          /\ UNCHANGED <<left, right, roots>>
      BY <1>4 DEF Read, ReadOperand, ReadArray, ReadOperator, ReadOpen, ReadClose, Reading
    <3>2. CASE ReadClose
      <4>1. PICK k \in 0 .. Len(holding) :
              /\ freed' = IF k = 0 THEN freed ELSE freed \cup {holding[k]}
              /\ status' = IF ~Fits(solve') THEN "overflow"
                           ELSE IF k = 0 THEN "exit" ELSE "reading"
        BY <3>2 DEF ReadClose
      <4>2. k # 0 => holding[k] \in ToSet(holding)
        <5>1. k # 0 => k \in 1 .. Len(holding)
          BY <1>3
        <5>2. DOMAIN holding = 1 .. Len(holding)
          BY <1>3
        <5>. QED
          BY <5>1, <5>2 DEF ToSet
      <4>. QED
        BY <3>1, <4>1, <4>2 DEF Stacked
    <3>. QED
      BY <1>4, <3>1, <3>2 DEF Read, ReadOperand, ReadArray, ReadOperator, ReadOpen
  <2>2. PhaseInv'
    <3>1. Stacked \subseteq 1 .. pos - 1
      BY <2>1, ReadingOwns DEF StacksOwn, Live
    <3>2. \A n : n \in 1 .. pos - 1 => n \in 1 .. (pos + 1) - 1
      BY <1>3
    <3>3. freed' \subseteq 1 .. pos' - 1
      BY <2>1, <3>1, <3>2 DEF PhaseInv
    <3>. QED
      BY <2>1, <3>3 DEF PhaseInv, Node
  <2>3. CASE status' = "exit"
    BY <2>2, <2>3 DEF OneOwner, NodeLimit
  <2>4. CASE status' # "exit"
    <3>1. StacksOwn'
      BY <1>4, <2>1, <2>4, ReadingOwns, ReadOwns
    <3>2. OneOwner'
      <4>1. Children(left)' = {} /\ OncePerSlot(left)'
        BY <2>1, NoChildren DEF PhaseInv, Children, OncePerSlot, Node
      <4>2. Children(right)' = {} /\ OncePerSlot(right)'
        BY <2>1, NoChildren DEF PhaseInv, Children, OncePerSlot, Node
      <4>3. ToSet(roots') = {} /\ IsInjective(roots')
        BY <2>1 DEF PhaseInv, ToSet, IsInjective
      <4>. QED
        BY <3>1, <4>1, <4>2, <4>3 DEF OneOwner, StacksOwn, Reachable
    <3>3. NodeLimit'
      <4>1. status' = "overflow" => Cardinality(Live') > StackSize
        BY <1>1, <2>1, <3>2, TooMany
      <4>. QED
        BY <2>1, <4>1 DEF NodeLimit
    <3>. QED
      BY <2>2, <3>2, <3>3
  <2>. QED
    BY <2>2, <2>3, <2>4
<1>5. CASE Stop
  <2>1. /\ status = "reading" /\ items' = items /\ pos' \in {pos, pos + 1}
        /\ UNCHANGED <<left, right, roots, freed>>
        /\ status' = IF Fits(holding') THEN "solving" ELSE "overflow"
    BY <1>5 DEF Stop
  <2>2. StacksOwn' /\ Len(holding') = Len(holding) + Len(solve) /\ Len(solve') = 0
    BY <1>5, <2>1, ReadingOwns, StopOwns
  <2>3. OneOwner'
    <3>1. Children(left)' = {} /\ OncePerSlot(left)'
      BY <2>1, NoChildren DEF PhaseInv, Children, OncePerSlot, Node
    <3>2. Children(right)' = {} /\ OncePerSlot(right)'
      BY <2>1, NoChildren DEF PhaseInv, Children, OncePerSlot, Node
    <3>3. ToSet(roots') = {} /\ IsInjective(roots')
      BY <2>1 DEF PhaseInv, ToSet, IsInjective
    <3>. QED
      BY <2>2, <3>1, <3>2, <3>3 DEF OneOwner, StacksOwn, Reachable
  <2>4. freed' \subseteq 1 .. pos' - 1
    <3>1. \A n : n \in 1 .. pos - 1 => n \in 1 .. (pos + 1) - 1
      BY <1>3
    <3>. QED
      BY <2>1, <3>1 DEF PhaseInv
  <2>5. /\ status' # "reading"
        /\ status' = "solving" => roots' = <<>> /\ Len(holding') + Len(solve') <= StackSize
    BY <1>3, <2>1, <2>2 DEF Fits, PhaseInv
  <2>6. \A n \in ToSet(holding') : left'[n] = 0 /\ right'[n] = 0
    <3>1. ToSet(holding') \subseteq Node
      BY <1>1, <2>1 DEF ToSet, TypeOK, Node
    <3>. QED
      BY <2>1, <3>1 DEF PhaseInv
  <2>7. PhaseInv'
    BY <2>4, <2>5, <2>6 DEF PhaseInv
  <2>8. Cardinality(Live') = Len(holding')
    <3>1. holding' \in Seq(Node) /\ IsInjective(holding')
      BY <1>1, <2>1, <2>2 DEF TypeOK, StacksOwn, Node
    <3>2. ToSet(solve') = {}
      BY <1>5, EmptyStack DEF Stop
    <3>3. ToSet(holding') = Live'
      BY <2>2, <3>2 DEF StacksOwn, Stacked
    <3>. QED
      BY <3>1, <3>3, StackCardinality
  <2>9. NodeLimit'
    BY <1>3, <2>1, <2>2, <2>8 DEF NodeLimit, Fits
  <2>. QED
    BY <2>3, <2>7, <2>9
<1>6. CASE Reject
  <2>1. status' = "exit" /\ UNCHANGED <<pos, freed>>
    BY <1>6 DEF Reject
  <2>. QED
    BY <2>1 DEF OneOwner, PhaseInv, NodeLimit
<1>7. CASE Solve
  BY <1>1, <1>7, SolveOwner
<1>8. CASE Return
  <2>1. /\ status = "solving" /\ holding = <<>> /\ roots' = solve /\ solve' = <<>>
        /\ status' = "returned" /\ UNCHANGED <<items, pos, holding, left, right, freed>>
    BY <1>8 DEF Return
  <2>2. Live' = Live
    BY <2>1 DEF Live
  <2>3. /\ roots = <<>> /\ Children(left)' = Children(left)
        /\ Children(right)' = Children(right)
        /\ OncePerSlot(left)' = OncePerSlot(left) /\ OncePerSlot(right)' = OncePerSlot(right)
    BY <2>1 DEF PhaseInv, Children, OncePerSlot, Node
  <2>4. ToSet(<<>>) = {} /\ IsInjective(<<>>)
    BY DEF ToSet, IsInjective
  <2>5. OneOwner'
    BY <2>1, <2>2, <2>3, <2>4 DEF OneOwner, Reachable, Stacked
  <2>6. PhaseInv'
    BY <2>1 DEF PhaseInv
  <2>7. NodeLimit'
    BY <2>1, <2>2 DEF NodeLimit
  <2>. QED
    BY <2>5, <2>6, <2>7
<1>9. CASE UNCHANGED vars
  <2>1. Live' = Live
    BY <1>9 DEF vars, Live
  <2>. QED
    BY <1>9, <2>1 DEF vars, OneOwner, PhaseInv, NodeLimit, Reachable, Stacked,
                      Children, OncePerSlot, Node
<1>. QED
  BY <1>4, <1>5, <1>6, <1>7, <1>8, <1>9 DEF Next, Over

\* Every live node has exactly one owner, from the first to the last step of
\* every call that gets to its end.
THEOREM Ownership == Spec => []OneOwner
<1>1. OwnerInv => OneOwner
  BY DEF OwnerInv
<1>. QED
  BY <1>1, InitOwner, NextOwner, PTL DEF Spec

\* A call that solves or returns holds at most StackSize nodes, and only one
\* with more of them writes past a stack.
THEOREM Limit == Spec => []NodeLimit
<1>1. OwnerInv => NodeLimit
  BY DEF OwnerInv
<1>. QED
  BY <1>1, InitOwner, NextOwner, PTL DEF Spec

-----------------------------------------------------------------------------
(* Counting what is on a stack.                                            *)

\* The places of a stack that hold a node for an item of these kinds.
OfKind(s, K) == {i \in DOMAIN s : items[s[i]] \in K}

\* They are finitely many.
LEMMA OfKindFinite ==
  ASSUME NEW s \in Seq(Node), NEW K
  PROVE  /\ OfKind(s, K) \subseteq 1 .. Len(s) /\ IsFiniteSet(OfKind(s, K))
         /\ Cardinality(OfKind(s, K)) \in Nat
<1>1. DOMAIN s = 1 .. Len(s) /\ Len(s) \in Nat
  OBVIOUS
<1>2. OfKind(s, K) \subseteq 1 .. Len(s)
  BY <1>1 DEF OfKind
<1>3. IsFiniteSet(1 .. Len(s))
  BY <1>1, FS_Interval
<1>. QED
  BY <1>2, <1>3, FS_Subset, FS_CardinalityType

\* A node that is pushed counts if it is of these kinds.
LEMMA OfKindPushed ==
  ASSUME NEW s \in Seq(Node), NEW n \in Node, NEW K
  PROVE  /\ items[n] \notin K => OfKind(Append(s, n), K) = OfKind(s, K)
         /\ items[n] \in K => Cardinality(OfKind(Append(s, n), K)) = Cardinality(OfKind(s, K)) + 1
<1>1. Len(s) \in Nat /\ DOMAIN s = 1 .. Len(s)
  OBVIOUS
<1>2. PICK t : /\ t = Append(s, n) /\ t \in Seq(Node) /\ Len(t) = Len(s) + 1
               /\ DOMAIN t = 1 .. Len(s) + 1
               /\ \A i \in 1 .. Len(s) : t[i] = s[i]
               /\ t[Len(s) + 1] = n
  <2>1. /\ Append(s, n) \in Seq(Node) /\ Len(Append(s, n)) = Len(s) + 1
        /\ \A i \in 1 .. Len(s) : Append(s, n)[i] = s[i]
        /\ Append(s, n)[Len(s) + 1] = n
    BY AppendProperties
  <2>2. DOMAIN Append(s, n) = 1 .. Len(s) + 1
    BY <2>1
  <2>. QED
    BY <2>1, <2>2
<1>3. 1 .. Len(s) + 1 = (1 .. Len(s)) \cup {Len(s) + 1} /\ Len(s) + 1 \notin 1 .. Len(s)
  BY <1>1
<1>4. items[n] \notin K => OfKind(t, K) = OfKind(s, K)
  BY <1>1, <1>2, <1>3 DEF OfKind
<1>5. items[n] \in K => OfKind(t, K) = OfKind(s, K) \cup {Len(s) + 1}
  BY <1>1, <1>2, <1>3 DEF OfKind
<1>6. Cardinality(OfKind(s, K) \cup {Len(s) + 1}) = Cardinality(OfKind(s, K)) + 1
  <2>1. Len(s) + 1 \notin OfKind(s, K)
    BY <1>1, <1>3 DEF OfKind
  <2>. QED
    BY <2>1, OfKindFinite, FS_AddElement
<1>. QED
  BY <1>2, <1>4, <1>5, <1>6

\* Cutting off the nodes above k loses none of these kinds if none is there,
\* and one if the one at k, cut off as well, is of them.
LEMMA OfKindCut ==
  ASSUME NEW s \in Seq(Node), NEW k \in 0 .. Len(s), NEW K,
         \A i \in k + 1 .. Len(s) : items[s[i]] \notin K
  PROVE  /\ OfKind(SubSeq(s, 1, k), K) = OfKind(s, K)
         /\ k > 0 /\ items[s[k]] \in K =>
              Cardinality(OfKind(SubSeq(s, 1, k - 1), K)) + 1 = Cardinality(OfKind(s, K))
         /\ k > 0 /\ items[s[k]] \notin K => OfKind(SubSeq(s, 1, k - 1), K) = OfKind(s, K)
<1>1. Len(s) \in Nat /\ DOMAIN s = 1 .. Len(s) /\ k \in Nat
  OBVIOUS
<1>2. ASSUME NEW j \in 0 .. Len(s)
      PROVE  OfKind(SubSeq(s, 1, j), K) = {i \in 1 .. j : items[s[i]] \in K}
  <2>1. PICK t : /\ t = SubSeq(s, 1, j) /\ t \in Seq(Node) /\ DOMAIN t = 1 .. j
                 /\ \A i \in 1 .. j : t[i] = s[i]
    <3>1. /\ SubSeq(s, 1, j) \in Seq(Node) /\ Len(SubSeq(s, 1, j)) = j
          /\ \A i \in 1 .. j : SubSeq(s, 1, j)[i] = s[i]
      BY LowestProperties
    <3>2. DOMAIN SubSeq(s, 1, j) = 1 .. j
      BY <3>1
    <3>. QED
      BY <3>1, <3>2
  <2>2. OfKind(t, K) = {i \in 1 .. j : items[s[i]] \in K}
    BY <2>1 DEF OfKind
  <2>. QED
    BY <2>1, <2>2
<1>3. \A i \in 1 .. Len(s) : i \in 1 .. k \/ i \in k + 1 .. Len(s)
  BY <1>1
<1>4. 1 .. k \subseteq 1 .. Len(s)
  BY <1>1
<1>5. OfKind(s, K) = {i \in 1 .. k : items[s[i]] \in K}
  BY <1>1, <1>3, <1>4 DEF OfKind
<1>6. OfKind(SubSeq(s, 1, k), K) = OfKind(s, K)
  BY <1>2, <1>5
<1>7. ASSUME k > 0
      PROVE  /\ items[s[k]] \in K =>
                  Cardinality(OfKind(SubSeq(s, 1, k - 1), K)) + 1 = Cardinality(OfKind(s, K))
             /\ items[s[k]] \notin K => OfKind(SubSeq(s, 1, k - 1), K) = OfKind(s, K)
  <2>1. k - 1 \in 0 .. Len(s) /\ 1 .. k = (1 .. k - 1) \cup {k} /\ k \notin 1 .. k - 1
    BY <1>1, <1>7
  <2>2. OfKind(SubSeq(s, 1, k - 1), K) = {i \in 1 .. k - 1 : items[s[i]] \in K}
    BY <1>2, <2>1
  <2>3. CASE items[s[k]] \in K
    <3>. DEFINE low == {i \in 1 .. k - 1 : items[s[i]] \in K}
    <3>1. OfKind(s, K) = low \cup {k} /\ k \notin low
      BY <1>5, <2>1, <2>3
    <3>2. IsFiniteSet(low)
      <4>1. low \subseteq OfKind(s, K)
        BY <3>1
      <4>. QED
        BY <4>1, OfKindFinite, FS_Subset
    <3>. HIDE DEF low
    <3>3. Cardinality(low \cup {k}) = Cardinality(low) + 1
      BY <3>1, <3>2, FS_AddElement
    <3>. QED
      BY <2>2, <2>3, <3>1, <3>3 DEF low
  <2>4. CASE items[s[k]] \notin K
    BY <1>5, <2>1, <2>2, <2>4
  <2>. QED
    BY <2>3, <2>4
<1>. QED
  BY <1>6, <1>7

\* Turning a stack over onto another adds none that the other had not.
LEMMA OfKindTurned ==
  ASSUME NEW s \in Seq(Node), NEW t \in Seq(Node), NEW K,
         \A i \in DOMAIN t : items[t[i]] \notin K
  PROVE  OfKind(s \o Reverse(t), K) = OfKind(s, K)
<1>1. Len(s) \in Nat /\ Len(t) \in Nat /\ DOMAIN s = 1 .. Len(s) /\ DOMAIN t = 1 .. Len(t)
  OBVIOUS
<1>2. PICK u : /\ u = s \o Reverse(t) /\ DOMAIN u = 1 .. Len(s) + Len(t)
               /\ \A i \in 1 .. Len(s) : u[i] = s[i]
               /\ \A i \in 1 .. Len(t) : u[Len(s) + i] = t[Len(t) - i + 1]
  <2>1. /\ s \o Reverse(t) \in Seq(Node) /\ Len(s \o Reverse(t)) = Len(s) + Len(t)
        /\ \A i \in 1 .. Len(s) : (s \o Reverse(t))[i] = s[i]
        /\ \A i \in 1 .. Len(t) : (s \o Reverse(t))[Len(s) + i] = t[Len(t) - i + 1]
    BY TurnedOver
  <2>2. DOMAIN (s \o Reverse(t)) = 1 .. Len(s) + Len(t)
    BY <2>1
  <2>. QED
    BY <2>1, <2>2
<1>3. ASSUME NEW i \in 1 .. Len(s) + Len(t), i \notin 1 .. Len(s) PROVE items[u[i]] \notin K
  <2>1. i - Len(s) \in 1 .. Len(t) /\ Len(s) + (i - Len(s)) = i
    BY <1>1, <1>3
  <2>2. u[i] = t[Len(t) - (i - Len(s)) + 1]
    BY <1>2, <2>1
  <2>3. Len(t) - (i - Len(s)) + 1 \in 1 .. Len(t)
    BY <1>1, <2>1
  <2>. QED
    BY <1>1, <2>2, <2>3
<1>4. 1 .. Len(s) \subseteq 1 .. Len(s) + Len(t)
  BY <1>1
<1>5. OfKind(u, K) = OfKind(s, K)
  BY <1>1, <1>2, <1>3, <1>4 DEF OfKind
<1>. QED
  BY <1>2, <1>5

\* The node on top does not count unless it is of these kinds.
LEMMA OfKindPopped ==
  ASSUME NEW s \in Seq(Node), s # <<>>, NEW K
  PROVE  /\ items[Last(s)] \notin K => OfKind(Front(s), K) = OfKind(s, K)
         /\ items[Last(s)] \in K => OfKind(s, K) # {}
<1>1. Len(s) \in Nat /\ DOMAIN s = 1 .. Len(s) /\ Last(s) = s[Len(s)] /\ Len(s) \in 1 .. Len(s)
  BY EmptySeq DEF Last
<1>2. PICK t : /\ t = Front(s) /\ t \in Seq(Node) /\ DOMAIN t = 1 .. Len(s) - 1
               /\ \A i \in 1 .. Len(s) - 1 : t[i] = s[i]
  <2>1. Front(s) \in Seq(Node) /\ Len(Front(s)) = Len(s) - 1
        /\ \A i \in 1 .. Len(s) - 1 : Front(s)[i] = s[i]
    BY FrontLast
  <2>2. DOMAIN Front(s) = 1 .. Len(s) - 1
    BY <1>1, <2>1
  <2>. QED
    BY <2>1, <2>2
<1>3. 1 .. Len(s) = (1 .. Len(s) - 1) \cup {Len(s)}
  BY <1>1
<1>4. items[Last(s)] \notin K => OfKind(t, K) = OfKind(s, K)
  BY <1>1, <1>2, <1>3 DEF OfKind
<1>5. items[Last(s)] \in K => Len(s) \in OfKind(s, K)
  BY <1>1 DEF OfKind
<1>. QED
  BY <1>2, <1>4, <1>5

-----------------------------------------------------------------------------
(* The parentheses.                                                        *)

Marks == OfKind(holding, Others)
Opens == OfKind(holding, {"("})
Arrays == {n \in 1 .. pos - 1 : items[n] = "array"}
Lost == {n \in freed : items[n] = "array"}

\* No node is held for these.
NeverHeld == Others \ {"(", "array"}

\* A parenthesis is on the holding stack for each that is open and for each
\* array that has been freed in place of one.
MarkInv ==
  /\ status = "reading" =>
       /\ Cardinality(Marks) = balance + Cardinality(Arrays)
       /\ OfKind(holding, NeverHeld) = {} /\ OfKind(solve, {"("}) = {}
  /\ status \in {"reading", "solving"} => Cardinality(Opens) = balance + Cardinality(Lost)
  /\ BalanceDecides

\* What counts is finite, and a node is an operator's or one of the others'.
LEMMA MarkTypes ==
  ASSUME TypeOK
  PROVE  /\ holding \in Seq(Node) /\ solve \in Seq(Node) /\ balance \in Nat
         /\ Node = 1 .. Len(items) /\ Len(items) \in Nat /\ pos \in Node
         /\ IsFiniteSet(Arrays) /\ Cardinality(Arrays) \in Nat
         /\ IsFiniteSet(Lost) /\ Cardinality(Lost) \in Nat
         /\ \A n \in Node : (items[n] \in Others) <=> ~IsOperator(n)
         /\ \A n \in Node : ~IsOperator(n) /\ items[n] \notin NeverHeld =>
              items[n] \in {"(", "array"}
         /\ NeverHeld \subseteq Others /\ "(" \in Others
<1>1. /\ holding \in Seq(Node) /\ solve \in Seq(Node) /\ balance \in Nat
      /\ Node = 1 .. Len(items) /\ Len(items) \in Nat /\ pos \in Node /\ freed \subseteq Node
  BY DEF TypeOK, Node
<1>2. IsFiniteSet(1 .. Len(items))
  BY <1>1, FS_Interval
<1>3. Arrays \subseteq 1 .. Len(items) /\ Lost \subseteq 1 .. Len(items)
  <2>1. \A n \in 1 .. pos - 1 : n \in 1 .. Len(items)
    BY <1>1
  <2>. QED
    BY <1>1, <2>1 DEF Arrays, Lost
<1>4. \A n \in Node : items[n] \in Item
  BY DEF TypeOK, Node
<1>5. \A n \in Node : (items[n] \in Others) <=> ~IsOperator(n)
  BY <1>4, OperatorsAssumption DEF IsOperator, Item
<1>6. NeverHeld \subseteq Others /\ "(" \in Others
  BY DEF NeverHeld, Others
<1>. QED
  BY <1>1, <1>2, <1>3, <1>5, <1>6, FS_Subset, FS_CardinalityType DEF NeverHeld

\* An item that is passed is an array, or adds none.
LEMMA ArraysGrow ==
  ASSUME TypeOK, items' = items, pos' = pos + 1
  PROVE  /\ items[pos] # "array" => Arrays' = Arrays
         /\ items[pos] = "array" => Cardinality(Arrays') = Cardinality(Arrays) + 1
<1>1. pos \in Nat /\ pos \notin Arrays /\ IsFiniteSet(Arrays)
  BY MarkTypes DEF Arrays
<1>2. 1 .. pos' - 1 = (1 .. pos - 1) \cup {pos}
  BY <1>1, MarkTypes
<1>3. items[pos] # "array" => Arrays' = Arrays
  BY <1>2 DEF Arrays
<1>4. items[pos] = "array" => Arrays' = Arrays \cup {pos}
  BY <1>2 DEF Arrays
<1>. QED
  BY <1>1, <1>3, <1>4, FS_AddElement

\* Operators that are drained add no parenthesis to the solve stack.
LEMMA DrainedMarks ==
  ASSUME TypeOK, NEW k \in 0 .. Len(holding), NEW K \in SUBSET Others,
         \A i \in k + 1 .. Len(holding) : IsOperator(holding[i])
  PROVE  /\ OfKind(Drained(k), K) = OfKind(solve, K)
         /\ \A i \in k + 1 .. Len(holding) : items[holding[i]] \notin K
<1>1. holding \in Seq(Node) /\ solve \in Seq(Node) /\ Len(holding) \in Nat
  BY MarkTypes
<1>2. \A i \in k + 1 .. Len(holding) : items[holding[i]] \notin K
  <2>. TAKE i \in k + 1 .. Len(holding)
  <2>1. i \in 1 .. Len(holding)
    BY <1>1
  <2>2. holding[i] \in Node
    BY <1>1, <2>1, ElementOfSeq
  <2>. QED
    BY <2>2, MarkTypes
<1>3. PICK t \in Seq(Node) :
        /\ t = SubSeq(holding, k + 1, Len(holding)) /\ DOMAIN t = 1 .. Len(holding) - k
        /\ \A i \in 1 .. Len(holding) - k : t[i] = holding[k + i]
  <2>1. /\ SubSeq(holding, k + 1, Len(holding)) \in Seq(Node)
        /\ Len(SubSeq(holding, k + 1, Len(holding))) = Len(holding) - k
        /\ \A i \in 1 .. Len(holding) - k :
             SubSeq(holding, k + 1, Len(holding))[i] = holding[k + i]
    BY <1>1, UpperProperties
  <2>2. DOMAIN SubSeq(holding, k + 1, Len(holding)) = 1 .. Len(holding) - k
    BY <2>1
  <2>. QED
    BY <2>1, <2>2
<1>4. \A i \in DOMAIN t : items[t[i]] \notin K
  <2>. TAKE i \in DOMAIN t
  <2>1. k + i \in k + 1 .. Len(holding) /\ t[i] = holding[k + i]
    BY <1>1, <1>3
  <2>. QED
    BY <1>2, <2>1
<1>5. OfKind(solve \o Reverse(t), K) = OfKind(solve, K)
  BY <1>1, <1>4, OfKindTurned
<1>. QED
  BY <1>2, <1>3, <1>5 DEF Drained

\* What is one less than a sum is the sum with one summand one less.
LEMMA OneLess ==
  ASSUME NEW a \in Nat, NEW b \in Nat, NEW c \in Nat, a + 1 = b + c
  PROVE  a = (b - 1) + c
  OBVIOUS

\* Reading an item keeps the count.
LEMMA ReadMarks ==
  ASSUME OwnerInv, MarkInv, Read, status' = "reading"
  PROVE  MarkInv'
<1>1. /\ TypeOK /\ holding \in Seq(Node) /\ solve \in Seq(Node) /\ balance \in Nat
      /\ pos \in Node /\ Node = 1 .. Len(items)
      /\ Cardinality(Arrays) \in Nat /\ Cardinality(Lost) \in Nat /\ IsFiniteSet(Lost)
      /\ \A n \in Node : (items[n] \in Others) <=> ~IsOperator(n)
      /\ Len(holding) \in Nat
  BY MarkTypes DEF OwnerInv
<1>2. status = "reading" /\ items' = items /\ pos' = pos + 1
  BY DEF Read, ReadOperand, ReadArray, ReadOperator, ReadOpen, ReadClose, Reading
<1>3. /\ Cardinality(Marks) = balance + Cardinality(Arrays)
      /\ OfKind(holding, NeverHeld) = {} /\ OfKind(solve, {"("}) = {}
      /\ Cardinality(Opens) = balance + Cardinality(Lost)
  BY <1>2 DEF MarkInv
<1>4. SUFFICES /\ Cardinality(OfKind(holding', Others)) = balance' + Cardinality(Arrays')
               /\ OfKind(holding', NeverHeld) = {} /\ OfKind(solve', {"("}) = {}
               /\ Cardinality(OfKind(holding', {"("})) = balance' + Cardinality(Lost')
  BY <1>2 DEF MarkInv, Marks, Opens, OfKind, BalanceDecides
<1>5. /\ items[pos] # "array" => Arrays' = Arrays
      /\ items[pos] = "array" => Cardinality(Arrays') = Cardinality(Arrays) + 1
  BY <1>1, <1>2, ArraysGrow
<1>6. freed' = freed => Lost' = Lost
  BY <1>2 DEF Lost
<1>7. CASE ReadOperand
  <2>1. /\ items[pos] = "operand" /\ holding' = holding /\ solve' = Append(solve, pos)
        /\ balance' = balance /\ freed' = freed
    BY <1>7 DEF ReadOperand, Reading
  <2>2. OfKind(solve', {"("}) = OfKind(solve, {"("})
    <3>1. items[pos] \notin {"("}
      BY <2>1
    <3>. QED
      BY <1>1, <2>1, <3>1, OfKindPushed
  <2>. QED
    BY <1>3, <1>5, <1>6, <2>1, <2>2 DEF Marks, Opens
<1>8. CASE ReadArray
  <2>1. /\ items[pos] = "array" /\ solve' = solve /\ holding' = Append(holding, pos)
        /\ balance' = balance /\ freed' = freed
    BY <1>8 DEF ReadArray, Reading
  <2>2. items[pos] \in Others /\ items[pos] \notin NeverHeld /\ items[pos] \notin {"("}
    BY <2>1 DEF Others, NeverHeld
  <2>3. /\ Cardinality(OfKind(holding', Others)) = Cardinality(Marks) + 1
        /\ OfKind(holding', NeverHeld) = OfKind(holding, NeverHeld)
        /\ OfKind(holding', {"("}) = Opens
    BY <1>1, <2>1, <2>2, OfKindPushed DEF Marks, Opens
  <2>. QED
    BY <1>1, <1>3, <1>5, <1>6, <2>1, <2>3
<1>9. CASE ReadOpen
  <2>1. /\ items[pos] = "(" /\ solve' = solve /\ holding' = Append(holding, pos)
        /\ balance' = balance + 1 /\ freed' = freed
    BY <1>9 DEF ReadOpen, Reading
  <2>2. items[pos] \in Others /\ items[pos] \notin NeverHeld /\ items[pos] \in {"("}
    BY <2>1 DEF Others, NeverHeld
  <2>3. /\ Cardinality(OfKind(holding', Others)) = Cardinality(Marks) + 1
        /\ OfKind(holding', NeverHeld) = OfKind(holding, NeverHeld)
        /\ Cardinality(OfKind(holding', {"("})) = Cardinality(Opens) + 1
    BY <1>1, <2>1, <2>2, OfKindPushed DEF Marks, Opens
  <2>. QED
    BY <1>1, <1>3, <1>5, <1>6, <2>1, <2>3
<1>10. CASE ReadOperator
  <2>1. PICK k \in 0 .. Len(holding) :
          /\ StopsAt(k, {h \in ToSet(holding) : Compare(pos, h)})
          /\ solve' = Drained(k) /\ holding' = Append(SubSeq(holding, 1, k), pos)
    BY <1>10 DEF ReadOperator
  <2>2. IsOperator(pos) /\ balance' = balance /\ freed' = freed
    BY <1>10 DEF ReadOperator
  <2>3. \A i \in k + 1 .. Len(holding) : IsOperator(holding[i])
    BY <2>1 DEF StopsAt, Compare
  <2>4. items[pos] \notin Others /\ items[pos] # "array"
    BY <1>1, <2>2 DEF Others
  <2>5. SubSeq(holding, 1, k) \in Seq(Node)
    BY <1>1, LowestProperties
  <2>6. ASSUME NEW K \in SUBSET Others
        PROVE  OfKind(holding', K) = OfKind(holding, K) /\ OfKind(solve', K) = OfKind(solve, K)
    <3>1. /\ OfKind(Drained(k), K) = OfKind(solve, K)
          /\ \A i \in k + 1 .. Len(holding) : items[holding[i]] \notin K
      BY <1>1, <2>3, DrainedMarks
    <3>2. OfKind(SubSeq(holding, 1, k), K) = OfKind(holding, K)
      BY <1>1, <3>1, OfKindCut
    <3>3. items[pos] \notin K
      BY <2>4
    <3>4. OfKind(Append(SubSeq(holding, 1, k), pos), K) = OfKind(SubSeq(holding, 1, k), K)
      BY <1>1, <2>5, <3>3, OfKindPushed
    <3>. QED
      BY <2>1, <3>1, <3>2, <3>4
  <2>7. NeverHeld \in SUBSET Others /\ {"("} \in SUBSET Others /\ Others \in SUBSET Others
    BY <1>1, MarkTypes
  <2>8. /\ OfKind(holding', Others) = Marks
        /\ OfKind(holding', NeverHeld) = OfKind(holding, NeverHeld)
        /\ OfKind(holding', {"("}) = Opens /\ OfKind(solve', {"("}) = OfKind(solve, {"("})
    BY <2>6, <2>7 DEF Marks, Opens
  <2>. QED
    BY <1>3, <1>5, <1>6, <2>2, <2>4, <2>8
<1>11. CASE ReadClose
  <2>1. PICK k \in 0 .. Len(holding) :
          /\ StopsAt(k, {h \in ToSet(holding) : IsOperator(h)})
          /\ solve' = Drained(k) /\ holding' = SubSeq(holding, 1, k - 1)
          /\ freed' = IF k = 0 THEN freed ELSE freed \cup {holding[k]}
          /\ k # 0
    BY <1>11 DEF ReadClose
  <2>2. items[pos] = ")" /\ balance > 0 /\ balance' = balance - 1
    BY <1>11 DEF ReadClose, Reading
  <2>3. \A i \in k + 1 .. Len(holding) : IsOperator(holding[i])
    BY <2>1 DEF StopsAt
  <2>4. k \in 1 .. Len(holding) /\ k > 0 /\ holding[k] \in Node /\ holding[k] \in ToSet(holding)
    <3>1. k \in 1 .. Len(holding)
      BY <1>1, <2>1
    <3>. QED
      BY <1>1, <3>1, ElementOfSeq DEF ToSet
  <2>5. ~IsOperator(holding[k]) /\ items[holding[k]] \in Others
    BY <1>1, <2>1, <2>4 DEF StopsAt
  <2>6. items[holding[k]] \notin NeverHeld
    BY <1>1, <1>3, <2>4 DEF OfKind
  <2>7. items[holding[k]] \in {"(", "array"}
    BY <1>1, <2>4, <2>5, <2>6, MarkTypes
  <2>8. ASSUME NEW K \in SUBSET Others
        PROVE  /\ OfKind(solve', K) = OfKind(solve, K)
               /\ items[holding[k]] \in K =>
                    Cardinality(OfKind(holding', K)) + 1 = Cardinality(OfKind(holding, K))
               /\ items[holding[k]] \notin K => OfKind(holding', K) = OfKind(holding, K)
    <3>1. /\ OfKind(Drained(k), K) = OfKind(solve, K)
          /\ \A i \in k + 1 .. Len(holding) : items[holding[i]] \notin K
      BY <1>1, <2>3, DrainedMarks
    <3>2. /\ items[holding[k]] \in K =>
               Cardinality(OfKind(SubSeq(holding, 1, k - 1), K)) + 1 = Cardinality(OfKind(holding, K))
          /\ items[holding[k]] \notin K =>
               OfKind(SubSeq(holding, 1, k - 1), K) = OfKind(holding, K)
      BY <1>1, <2>4, <3>1, OfKindCut
    <3>. QED
      BY <2>1, <3>1, <3>2
  <2>9. NeverHeld \in SUBSET Others /\ {"("} \in SUBSET Others /\ Others \in SUBSET Others
    BY <1>1, MarkTypes
  <2>10. /\ Cardinality(OfKind(holding', Others)) + 1 = Cardinality(Marks)
         /\ OfKind(holding', NeverHeld) = {} /\ OfKind(solve', {"("}) = {}
    BY <1>3, <2>5, <2>6, <2>8, <2>9 DEF Marks
  <2>11. /\ Cardinality(OfKind(holding', Others)) \in Nat
         /\ Cardinality(OfKind(holding', {"("})) \in Nat
    <3>1. holding' \in Seq(Node)
      <4>1. k - 1 \in 0 .. Len(holding)
        BY <1>1, <2>4
      <4>. QED
        BY <1>1, <2>1, <4>1, LowestProperties
    <3>. QED
      BY <3>1, OfKindFinite
  <2>12. Arrays' = Arrays
    BY <1>5, <2>2
  <2>13. Cardinality(OfKind(holding', Others)) = balance' + Cardinality(Arrays')
    <3>1. Cardinality(OfKind(holding', Others)) + 1 = balance + Cardinality(Arrays)
      BY <1>3, <2>10
    <3>2. Cardinality(OfKind(holding', Others)) = (balance - 1) + Cardinality(Arrays)
      BY <1>1, <2>11, <3>1, OneLess
    <3>. QED
      BY <2>2, <2>12, <3>2
  <2>14. CASE items[holding[k]] = "("
    <3>1. Lost' = Lost
      BY <1>2, <2>1, <2>14 DEF Lost
    <3>2. Cardinality(OfKind(holding', {"("})) + 1 = Cardinality(Opens)
      BY <2>8, <2>9, <2>14 DEF Opens
    <3>3. Cardinality(OfKind(holding', {"("})) = balance' + Cardinality(Lost')
      <4>1. Cardinality(OfKind(holding', {"("})) + 1 = balance + Cardinality(Lost)
        BY <1>3, <3>2
      <4>2. Cardinality(OfKind(holding', {"("})) = (balance - 1) + Cardinality(Lost)
        BY <1>1, <2>11, <4>1, OneLess
      <4>. QED
        BY <2>2, <3>1, <4>2
    <3>. QED
      BY <2>10, <2>13, <3>3
  <2>15. CASE items[holding[k]] = "array"
    <3>1. holding[k] \notin freed
      BY <1>2, <2>4 DEF OwnerInv, OneOwner, Reachable, Stacked, Live
    <3>2. Lost' = Lost \cup {holding[k]} /\ holding[k] \notin Lost
      BY <1>2, <2>1, <2>15, <3>1 DEF Lost
    <3>3. Cardinality(Lost') = Cardinality(Lost) + 1
      BY <1>1, <3>2, FS_AddElement
    <3>4. OfKind(holding', {"("}) = Opens
      BY <2>8, <2>9, <2>15 DEF Opens
    <3>5. Cardinality(OfKind(holding', {"("})) = balance' + Cardinality(Lost')
      BY <1>1, <1>3, <2>2, <2>11, <3>3, <3>4
    <3>. QED
      BY <2>10, <2>13, <3>5
  <2>. QED
    BY <2>7, <2>14, <2>15
<1>. QED
  BY <1>7, <1>8, <1>9, <1>10, <1>11 DEF Read

\* Turning the stacks over and solving leave the parentheses to SolveOpen.
LEMMA NextMarks == OwnerInv /\ MarkInv /\ [Next]_vars => MarkInv'
<1>. SUFFICES ASSUME OwnerInv, MarkInv, [Next]_vars PROVE MarkInv'
  OBVIOUS
<1>1. /\ TypeOK /\ holding \in Seq(Node) /\ solve \in Seq(Node) /\ balance \in Nat
      /\ Cardinality(Lost) \in Nat /\ IsFiniteSet(Lost) /\ Unary \subseteq Operators
      /\ "(" \notin Operators
  BY MarkTypes, OperatorsAssumption DEF OwnerInv, Others
<1>2. CASE Read
  <2>1. CASE status' = "reading"
    BY <1>2, <2>1, ReadMarks
  <2>2. CASE status' # "reading"
    <3>1. status' \in {"overflow", "exit"}
      BY <1>2, <2>2 DEF Read, ReadOperand, ReadArray, ReadOperator, ReadOpen, ReadClose
    <3>. QED
      BY <3>1 DEF MarkInv, BalanceDecides
  <2>. QED
    BY <2>1, <2>2
<1>3. CASE Stop
  <2>1. /\ status = "reading" /\ holding' = holding \o Reverse(solve)
        /\ status' \in {"solving", "overflow"} /\ items' = items /\ freed' = freed
        /\ balance' = balance
    BY <1>3 DEF Stop
  <2>2. \A i \in DOMAIN solve : items[solve[i]] \notin {"("}
    BY <2>1 DEF MarkInv, OfKind
  <2>3. OfKind(holding', {"("}) = Opens
    BY <1>1, <2>1, <2>2, OfKindTurned DEF Opens
  <2>4. Opens' = Opens /\ Lost' = Lost
    BY <2>1, <2>3 DEF Opens, OfKind, Lost
  <2>. QED
    BY <2>1, <2>4 DEF MarkInv, BalanceDecides
<1>4. CASE Reject
  BY <1>4 DEF Reject, MarkInv, BalanceDecides
<1>5. CASE Solve
  <2>1. /\ status = "solving" /\ holding # <<>> /\ holding' = Front(holding)
        /\ items' = items /\ freed' = freed /\ balance' = balance
        /\ status' \in {"solving", "exit", "overflow", "nullderef"}
    BY <1>5 DEF Solve, SolveOperand, SolveUnary, SolveBinary, SolveOpen, Solving
  <2>2. Lost' = Lost /\ Cardinality(Opens) = balance + Cardinality(Lost)
    BY <2>1 DEF Lost, MarkInv
  <2>3. CASE SolveOpen
    <3>1. items[Last(holding)] \in {"("} /\ status' = "nullderef"
      BY <2>3 DEF SolveOpen, Solving
    <3>2. Opens # {} /\ IsFiniteSet(Opens)
      BY <1>1, <2>1, <3>1, OfKindPopped, OfKindFinite DEF Opens
    <3>3. Cardinality(Opens) # 0
      BY <3>2, FS_EmptySet
    <3>4. balance > 0 \/ Cardinality(Lost) # 0
      BY <1>1, <2>2, <3>3
    <3>5. balance > 0 \/ Lost # {}
      BY <3>4, FS_EmptySet
    <3>. QED
      BY <2>1, <3>1, <3>5 DEF MarkInv, BalanceDecides, Lost
  <2>4. CASE SolveOperand \/ SolveUnary \/ SolveBinary
    <3>1. items[Last(holding)] \notin {"("}
      BY <1>1, <2>4 DEF SolveOperand, SolveUnary, SolveBinary, Solving
    <3>2. OfKind(holding', {"("}) = Opens
      BY <1>1, <2>1, <3>1, OfKindPopped DEF Opens
    <3>3. Opens' = Opens
      BY <2>1, <3>2 DEF Opens, OfKind
    <3>4. status' # "nullderef"
      BY <2>4, <2>1 DEF SolveOperand, SolveUnary, SolveBinary
    <3>. QED
      BY <2>1, <2>2, <3>3, <3>4 DEF MarkInv, BalanceDecides
  <2>. QED
    BY <1>5, <2>3, <2>4 DEF Solve
<1>6. CASE Return
  <2>1. /\ status = "solving" /\ holding = <<>> /\ status' = "returned" /\ items' = items
        /\ freed' = freed /\ balance' = balance
    BY <1>6 DEF Return
  <2>2. Opens = {}
    BY <2>1 DEF Opens, OfKind
  <2>3. 0 = balance + Cardinality(Lost)
    BY <2>1, <2>2, FS_EmptySet DEF MarkInv
  <2>4. balance = 0 /\ Cardinality(Lost) = 0
    BY <1>1, <2>3
  <2>5. Lost = {}
    BY <1>1, <2>4, FS_EmptySet
  <2>. QED
    BY <2>1, <2>4, <2>5 DEF MarkInv, BalanceDecides, Lost
<1>7. CASE UNCHANGED vars
  BY <1>7 DEF vars, MarkInv, Marks, Opens, Arrays, Lost, OfKind, BalanceDecides
<1>. QED
  BY <1>2, <1>3, <1>4, <1>5, <1>6, <1>7 DEF Next, Over

\* Nothing has been read and nothing is held.
LEMMA InitMarks == Init => MarkInv
<1>. SUFFICES ASSUME Init PROVE MarkInv
  OBVIOUS
<1>1. OfKind(<<>>, Others) = {} /\ OfKind(<<>>, {"("}) = {} /\ OfKind(<<>>, NeverHeld) = {}
  BY DEF OfKind
<1>2. Arrays = {} /\ Lost = {}
  BY DEF Init, Arrays, Lost
<1>3. Marks = {} /\ Opens = {}
  BY <1>1 DEF Init, Marks, Opens
<1>4. Cardinality({}) = 0
  BY FS_EmptySet
<1>5. Cardinality(Marks) = balance + Cardinality(Arrays)
  BY <1>2, <1>3, <1>4 DEF Init
<1>6. Cardinality(Opens) = balance + Cardinality(Lost)
  BY <1>2, <1>3, <1>4 DEF Init
<1>. QED
  BY <1>1, <1>5, <1>6 DEF Init, MarkInv, BalanceDecides

\* While reading, the nodes without operator that are held are as many as the
\* open parentheses and the arrays seen: a close parenthesis always finds one.
THEOREM MarkersAlwaysMatch == Spec => []MarkersMatchBalance
<1>1. OwnerInv /\ MarkInv => MarkersMatchBalance
  <2>. SUFFICES ASSUME OwnerInv, MarkInv, status = "reading"
                PROVE  Cardinality({i \in DOMAIN holding : ~IsOperator(holding[i])})
                         = balance + Cardinality({n \in 1 .. pos - 1 : items[n] = "array"})
    BY DEF MarkersMatchBalance
  <2>1. {i \in DOMAIN holding : ~IsOperator(holding[i])} = Marks
    <3>1. \A i \in DOMAIN holding : holding[i] \in Node
      BY MarkTypes DEF OwnerInv
    <3>. QED
      BY <3>1, MarkTypes DEF OwnerInv, Marks, OfKind
  <2>. QED
    BY <2>1 DEF MarkInv, Arrays
<1>. QED
  BY <1>1, InitOwner, NextOwner, InitMarks, NextMarks, PTL DEF Spec

\* A call that returns has closed every parenthesis and has freed no array for
\* one; a call that reads through a NULL operator has not.
THEOREM BalanceAlwaysDecides == Spec => []BalanceDecides
<1>1. MarkInv => BalanceDecides
  BY DEF MarkInv
<1>. QED
  BY <1>1, InitOwner, NextOwner, InitMarks, NextMarks, PTL DEF Spec

-----------------------------------------------------------------------------
(* Where the expression ends.                                              *)

\* How often an item is found up to place q.
Count(x, q) == Cardinality({i \in 1 .. q : items[i] = x})

EndsAt(q) == items[q] \in {";", "stop"} \/ Count(")", q) > Count("(", q)

NonePassed == \A q \in 1 .. pos - 1 : ~EndsAt(q)

BalanceCounts == balance + Count(")", pos - 1) = Count("(", pos - 1)

\* Nothing that was passed ends the expression, and balance is what the
\* parentheses passed leave open.
EndInv ==
  /\ status = "reading" => NonePassed /\ BalanceCounts
  /\ StopsAtEnd

\* The item looked at is counted with those before it.
LEMMA CountUpTo ==
  ASSUME TypeOK, NEW x
  PROVE  /\ Count(x, pos) \in Nat /\ Count(x, pos - 1) \in Nat
         /\ items[pos] = x => Count(x, pos) = Count(x, pos - 1) + 1
         /\ items[pos] # x => Count(x, pos) = Count(x, pos - 1)
<1>. DEFINE before == {i \in 1 .. pos - 1 : items[i] = x}
            upto   == {i \in 1 .. pos : items[i] = x}
<1>1. pos \in Nat \ {0} /\ pos - 1 \in Nat
  BY DEF TypeOK
<1>2. 1 .. pos = (1 .. pos - 1) \cup {pos} /\ pos \notin 1 .. pos - 1
  BY <1>1
<1>3. IsFiniteSet(before) /\ IsFiniteSet(upto)
  <2>1. IsFiniteSet(1 .. pos - 1) /\ IsFiniteSet(1 .. pos)
    BY <1>1, FS_Interval
  <2>2. before \subseteq 1 .. pos - 1 /\ upto \subseteq 1 .. pos
    OBVIOUS
  <2>. QED
    BY <2>1, <2>2, FS_Subset
<1>4. items[pos] = x => upto = before \cup {pos} /\ pos \notin before
  BY <1>2
<1>5. items[pos] # x => upto = before
  BY <1>2
<1>6. Cardinality(before) = Count(x, pos - 1) /\ Cardinality(upto) = Count(x, pos)
  BY DEF Count
<1>. HIDE DEF before, upto
<1>7. items[pos] = x => Cardinality(upto) = Cardinality(before) + 1
  BY <1>3, <1>4, FS_AddElement
<1>. QED
  BY <1>3, <1>5, <1>6, <1>7, FS_CardinalityType

\* The first end is the only one that is the first.
LEMMA FirstEnd ==
  ASSUME TypeOK, EndsAt(pos), \A q \in 1 .. pos - 1 : ~EndsAt(q)
  PROVE  ExpressionEnd = pos
<1>. DEFINE First(p) == EndsAt(p) /\ \A q \in 1 .. p - 1 : ~EndsAt(q)
<1>1. ExpressionEnd = CHOOSE p \in DOMAIN items : First(p)
  BY DEF ExpressionEnd, EndsAt, Count
<1>2. First(pos) /\ pos \in DOMAIN items /\ pos \in Nat \ {0}
  BY DEF TypeOK
<1>3. \A p \in DOMAIN items : p \in Nat \ {0}
  BY DEF TypeOK
<1>4. ASSUME NEW p \in DOMAIN items, First(p) PROVE p = pos
  <2>1. ~ p < pos
    <3>1. p < pos => p \in 1 .. pos - 1
      BY <1>2, <1>3
    <3>. QED
      BY <1>2, <1>4, <3>1
  <2>2. ~ pos < p
    <3>1. pos < p => pos \in 1 .. p - 1
      BY <1>2, <1>3
    <3>. QED
      BY <1>2, <1>4, <3>1
  <2>. QED
    BY <1>2, <1>3, <2>1, <2>2
<1>. HIDE DEF First
<1>. QED
  BY <1>1, <1>2, <1>4

\* An item that is read does not end the expression and keeps the balance.
LEMMA ReadEnds ==
  ASSUME TypeOK, EndInv, Read, status' = "reading"
  PROVE  EndInv'
<1>1. /\ status = "reading" /\ items' = items /\ pos' = pos + 1 /\ pos \in Nat \ {0}
      /\ balance \in Nat
  <2>1. status = "reading" /\ items' = items /\ pos' = pos + 1
    BY DEF Read, ReadOperand, ReadArray, ReadOperator, ReadOpen, ReadClose, Reading
  <2>. QED
    BY <2>1 DEF TypeOK
<1>passed. items[pos] \notin {";", "stop"}
  <2>1. items[pos] \in Operators => items[pos] \notin {";", "stop"}
    BY OperatorsAssumption DEF Others
  <2>2. items[pos] \in Operators \/ items[pos] \in {"operand", "array", "(", ")"}
    BY DEF Read, ReadOperand, ReadArray, ReadOperator, ReadOpen, ReadClose, Reading, IsOperator
  <2>. QED
    BY <2>1, <2>2
<1>2. /\ \A q \in 1 .. pos - 1 : ~EndsAt(q)
      /\ balance + Count(")", pos - 1) = Count("(", pos - 1)
  BY <1>1 DEF EndInv, NonePassed, BalanceCounts
<1>3. /\ Count(")", pos) \in Nat /\ Count(")", pos - 1) \in Nat
      /\ items[pos] = ")" => Count(")", pos) = Count(")", pos - 1) + 1
      /\ items[pos] # ")" => Count(")", pos) = Count(")", pos - 1)
  BY CountUpTo
<1>4. /\ Count("(", pos) \in Nat /\ Count("(", pos - 1) \in Nat
      /\ items[pos] = "(" => Count("(", pos) = Count("(", pos - 1) + 1
      /\ items[pos] # "(" => Count("(", pos) = Count("(", pos - 1)
  BY CountUpTo
<1>5. balance' \in Nat /\ balance' + Count(")", pos) = Count("(", pos)
  <2>1. CASE items[pos] = "("
    <3>1. balance' = balance + 1
      BY <1>1, <2>1, OperatorsAssumption
         DEF Read, ReadOperand, ReadArray, ReadOperator, ReadOpen, ReadClose, Reading, IsOperator,
             Others
    <3>. QED
      BY <1>1, <1>2, <1>3, <1>4, <2>1, <3>1
  <2>2. CASE items[pos] = ")"
    <3>1. balance' = balance - 1 /\ balance > 0
      BY <1>1, <2>2, OperatorsAssumption
         DEF Read, ReadOperand, ReadArray, ReadOperator, ReadOpen, ReadClose, Reading, IsOperator,
             Others
    <3>. QED
      BY <1>1, <1>2, <1>3, <1>4, <2>2, <3>1
  <2>3. CASE items[pos] \notin {"(", ")"}
    <3>1. balance' = balance
      BY <1>1, <2>3
         DEF Read, ReadOperand, ReadArray, ReadOperator, ReadOpen, ReadClose, Reading
    <3>. QED
      BY <1>1, <1>2, <1>3, <1>4, <2>3, <3>1
  <2>. QED
    BY <2>1, <2>2, <2>3
<1>6. ~EndsAt(pos)
  <2>1. ~ Count(")", pos) > Count("(", pos)
    BY <1>3, <1>4, <1>5
  <2>. QED
    BY <1>passed, <2>1 DEF EndsAt
<1>7. pos' - 1 = pos /\ 1 .. pos = (1 .. pos - 1) \cup {pos}
  BY <1>1
<1>8. \A q \in 1 .. pos : ~EndsAt(q)
  BY <1>2, <1>6, <1>7
<1>9. NonePassed'
  <2>1. ASSUME NEW q \in 1 .. pos PROVE ~(EndsAt(q)')
    <3>1. Count(")", q)' = Count(")", q) /\ Count("(", q)' = Count("(", q)
      BY <1>1 DEF Count
    <3>. QED
      BY <1>1, <1>8, <3>1 DEF EndsAt
  <2>. QED
    BY <1>7, <2>1 DEF NonePassed
<1>10. BalanceCounts'
  <2>1. (Count(")", pos - 1))' = Count(")", pos) /\ (Count("(", pos - 1))' = Count("(", pos)
    BY <1>1, <1>7 DEF Count
  <2>. QED
    BY <1>5, <2>1 DEF BalanceCounts
<1>. QED
  BY <1>9, <1>10 DEF EndInv, StopsAtEnd

\* What stops the loop is the first end.
LEMMA StopEnds ==
  ASSUME TypeOK, EndInv, Stop
  PROVE  EndInv'
<1>1. /\ status = "reading" /\ items' = items /\ status' \in {"solving", "overflow"}
      /\ \/ items[pos] = ";" /\ pos' = pos + 1
         \/ items[pos] = "stop" /\ pos' = pos
         \/ items[pos] = ")" /\ balance = 0 /\ pos' = pos
  BY DEF Stop
<1>2. /\ \A q \in 1 .. pos - 1 : ~EndsAt(q)
      /\ balance + Count(")", pos - 1) = Count("(", pos - 1)
  BY <1>1 DEF EndInv, NonePassed, BalanceCounts
<1>3. EndsAt(pos)
  <2>1. items[pos] \in {";", "stop"} => EndsAt(pos)
    BY DEF EndsAt
  <2>2. items[pos] = ")" /\ balance = 0 => EndsAt(pos)
    <3>. SUFFICES ASSUME items[pos] = ")", balance = 0 PROVE Count(")", pos) > Count("(", pos)
      BY DEF EndsAt
    <3>1. Count(")", pos - 1) \in Nat /\ Count(")", pos) = Count(")", pos - 1) + 1
      BY CountUpTo
    <3>2. Count("(", pos - 1) \in Nat /\ Count("(", pos) = Count("(", pos - 1)
      BY CountUpTo
    <3>. QED
      BY <1>2, <3>1, <3>2
  <2>. QED
    BY <1>1, <2>1, <2>2
<1>4. ExpressionEnd = pos
  BY <1>2, <1>3, FirstEnd
<1>5. ExpressionEnd' = ExpressionEnd
  BY <1>1 DEF ExpressionEnd
<1>6. pos' = IF items[ExpressionEnd] = ";" THEN ExpressionEnd + 1 ELSE ExpressionEnd
  BY <1>1, <1>4
<1>7. StopsAtEnd'
  BY <1>1, <1>5, <1>6 DEF StopsAtEnd
<1>. QED
  BY <1>1, <1>7 DEF EndInv

\* No step from there on moves the parser.
LEMMA NextEnds == TypeOK /\ EndInv /\ [Next]_vars => EndInv'
<1>. SUFFICES ASSUME TypeOK, EndInv, [Next]_vars PROVE EndInv'
  OBVIOUS
<1>1. CASE Read
  <2>1. CASE status' = "reading"
    BY <1>1, <2>1, ReadEnds
  <2>2. CASE status' # "reading"
    <3>1. status' \in {"overflow", "exit"}
      BY <1>1, <2>2 DEF Read, ReadOperand, ReadArray, ReadOperator, ReadOpen, ReadClose
    <3>. QED
      BY <3>1 DEF EndInv, StopsAtEnd
  <2>. QED
    BY <2>1, <2>2
<1>2. CASE Stop
  BY <1>2, StopEnds
<1>3. CASE Reject
  BY <1>3 DEF Reject, EndInv, StopsAtEnd
<1>4. CASE Solve \/ Return
  <2>1. /\ status = "solving" /\ items' = items /\ pos' = pos /\ status' # "reading"
    BY <1>4 DEF Solve, SolveOperand, SolveUnary, SolveBinary, SolveOpen, Solving, Return
  <2>2. ExpressionEnd' = ExpressionEnd
    BY <2>1 DEF ExpressionEnd
  <2>. QED
    BY <2>1, <2>2 DEF EndInv, StopsAtEnd
<1>5. CASE UNCHANGED vars
  <2>1. status' = status /\ items' = items /\ pos' = pos /\ balance' = balance
    BY <1>5 DEF vars
  <2>2. ExpressionEnd' = ExpressionEnd
    BY <2>1 DEF ExpressionEnd
  <2>. QED
    BY <2>1, <2>2 DEF EndInv, StopsAtEnd, NonePassed, BalanceCounts, EndsAt, Count
<1>. QED
  BY <1>1, <1>2, <1>3, <1>4, <1>5 DEF Next, Over

\* Nothing is passed at first, and nothing is counted.
LEMMA InitEnds == Init => EndInv
<1>. SUFFICES ASSUME Init PROVE EndInv
  OBVIOUS
<1>1. status = "reading" /\ pos = 1 /\ balance = 0
  BY DEF Init
<1>2. 1 .. pos - 1 = {}
  BY <1>1
<1>3. Count(")", pos - 1) = 0 /\ Count("(", pos - 1) = 0
  <2>1. {i \in 1 .. pos - 1 : items[i] = ")"} = {} /\ {i \in 1 .. pos - 1 : items[i] = "("} = {}
    BY <1>2
  <2>. QED
    BY <2>1, FS_EmptySet DEF Count
<1>. QED
  BY <1>1, <1>2, <1>3 DEF EndInv, StopsAtEnd, NonePassed, BalanceCounts

\* A call leaves the parser at the end of its expression.
THEOREM AlwaysStopsAtEnd == Spec => []StopsAtEnd
<1>1. EndInv => StopsAtEnd
  BY DEF EndInv
<1>2. OwnerInv => TypeOK
  BY DEF OwnerInv
<1>. QED
  BY <1>1, <1>2, InitOwner, NextOwner, InitEnds, NextEnds, PTL DEF Spec

=============================================================================
