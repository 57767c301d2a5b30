---------------------------- MODULE Parser_proofs ----------------------------
(***************************************************************************)
(* Proofs about the statement parser: who calls whom, and that the calls   *)
(* on the stack owe exactly the brackets that are open in what has been    *)
(* consumed; and that the nodes they have built say what has been          *)
(* consumed, so that the tree has every word of the text in its place and  *)
(* the fields of a type from one struct.                                   *)
(***************************************************************************)

EXTENDS ParserTree, SequenceLemmas, FiniteSetTheorems

-----------------------------------------------------------------------------
(* Lists of anything: the frames, and what an expression holds.            *)

IsList(s) == Len(s) \in Nat /\ s = [i \in 1 .. Len(s) |-> s[i]]

\* A list is a sequence over its own elements.
LEMMA ListIsSeq ==
  ASSUME NEW s, IsList(s), NEW e
  PROVE  \E V : s \in Seq(V) /\ e \in V
<1>. DEFINE V == {s[i] : i \in 1 .. Len(s)} \cup {e}
<1>1. PICK n \in Nat : n = Len(s) /\ s = [i \in 1 .. n |-> s[i]]
  BY DEF IsList
<1>2. \A i \in 1 .. n : s[i] \in V
  BY <1>1
<1>. HIDE DEF V
<1>3. s \in [1 .. n -> V]
  BY <1>1, <1>2
<1>4. s \in Seq(V)
  BY <1>3
<1>5. e \in V
  BY DEF V
<1>. QED
  BY <1>4, <1>5

\* Sequences are lists.
LEMMA SeqIsList ==
  ASSUME NEW V, NEW s \in Seq(V)
  PROVE  IsList(s)
BY DEF IsList

\* An element more.
LEMMA ListAppend ==
  ASSUME NEW s, IsList(s), NEW e
  PROVE  /\ IsList(Append(s, e)) /\ Len(Append(s, e)) = Len(s) + 1 /\ Len(s) \in Nat
         /\ DOMAIN s = 1 .. Len(s) /\ DOMAIN Append(s, e) = 1 .. Len(s) + 1
         /\ Append(s, e)[Len(s) + 1] = e
         /\ \A i \in 1 .. Len(s) : Append(s, e)[i] = s[i]
         /\ Append(s, e) # <<>>
<1>1. PICK V : s \in Seq(V) /\ e \in V
  BY ListIsSeq
<1>2. /\ Append(s, e) \in Seq(V) /\ Len(Append(s, e)) = Len(s) + 1 /\ Len(s) \in Nat
      /\ Append(s, e)[Len(s) + 1] = e
      /\ \A i \in 1 .. Len(s) : Append(s, e)[i] = s[i]
  BY <1>1, AppendProperties
<1>3. IsList(Append(s, e))
  BY <1>2, SeqIsList
<1>4. DOMAIN s = 1 .. Len(s) /\ DOMAIN Append(s, e) = 1 .. Len(s) + 1
  BY <1>1, <1>2
<1>5. Append(s, e) # <<>>
  BY <1>1, <1>2
<1>. QED
  BY <1>2, <1>3, <1>4, <1>5

\* An element less.
LEMMA ListFront ==
  ASSUME NEW s, IsList(s), Len(s) > 0
  PROVE  /\ IsList(Front(s)) /\ Len(Front(s)) = Len(s) - 1 /\ Len(s) \in Nat \ {0}
         /\ Last(s) = s[Len(s)]
         /\ \A i \in 1 .. Len(s) - 1 : Front(s)[i] = s[i]
<1>1. PICK V : s \in Seq(V)
  BY ListIsSeq
<1>2. s # <<>>
  BY <1>1
<1>3. /\ Front(s) \in Seq(V) /\ Len(Front(s)) = Len(s) - 1 /\ Len(s) \in Nat \ {0}
      /\ Last(s) = s[Len(s)]
      /\ \A i \in 1 .. Len(s) - 1 : Front(s)[i] = s[i]
  BY <1>1, <1>2, FrontLast
<1>4. IsList(Front(s))
  BY <1>3, SeqIsList
<1>. QED
  BY <1>3, <1>4

\* The empty list.
LEMMA ListEmpty ==
  ASSUME NEW s, IsList(s)
  PROVE  s = <<>> <=> Len(s) = 0
<1>1. PICK V : s \in Seq(V)
  BY ListIsSeq
<1>. QED
  BY <1>1, EmptySeq


-----------------------------------------------------------------------------
(* The inductive invariant.                                                *)

IsCall(c) == c = [back |-> c.back, list |-> c.list] /\ c.back \in BOOLEAN

IsNode(n) ==
  /\ n = [type |-> n.type, words |-> n.words, args |-> n.args, body |-> n.body]
  /\ n.words \in Seq(Token) /\ n.words # <<>>

\* The places of the open parentheses among what is held.
Opens(held) == {i \in 1 .. Len(held) : held[i] = Open}

\* An array that is held may be freed in place of a parenthesis, so there may be
\* more parentheses than the balance counts, never less.
ExpressionOK(f) ==
  /\ f.fn = "expression"
  /\ f = [fn |-> "expression", out |-> f.out, held |-> f.held, balance |-> f.balance]
  /\ IsList(f.held)
  /\ f.balance \in Nat /\ f.balance <= Cardinality(Opens(f.held))

ArgumentsOK(f) ==
  /\ f.fn = "arguments"
  /\ f = [fn |-> "arguments", node |-> f.node, end |-> f.end, call |-> f.call]
  /\ f.node = [type |-> f.node.type, words |-> f.node.words,
               args |-> f.node.args, body |-> f.node.body]
  /\ f.end \in Closing /\ IsCall(f.call)

\* A statement waits for a call only at a part that asks for one; a struct has
\* its name or is going to read it.
StatementOK(f) ==
  /\ f.fn = "statement"
  /\ f = [fn |-> "statement", node |-> f.node, parts |-> f.parts, call |-> f.call]
  /\ IsNode(f.node) /\ IsCall(f.call)
  /\ f.parts \in Seq(Parts) /\ Flat(f.parts)
  /\ f.call.back = TRUE => f.parts # <<>> /\ Head(f.parts) \in Asking
  /\ f.node.words[1] = StructKeyword =>
       Last(f.node.words) \in Names \/ \E i \in DOMAIN f.parts : f.parts[i] = "IDENTIFIER"

BlockOK(f) ==
  /\ f.fn = "block"
  /\ f = [fn |-> "block", first |-> f.first, root |-> f.root, call |-> f.call]
  /\ IsCall(f.call)

AnalyzeOK(f) ==
  /\ f.fn = "analyze"
  /\ f = [fn |-> "analyze", root |-> f.root, call |-> f.call]
  /\ IsCall(f.call)

FrameOK(f) == ExpressionOK(f) \/ ArgumentsOK(f) \/ StatementOK(f) \/ BlockOK(f) \/ AnalyzeOK(f)

\* What the callee needs of its caller.
MayCall(caller, callee) ==
  /\ callee.fn # "analyze"
  /\ callee.fn = "expression" => caller.fn # "expression"
  /\ callee.fn = "block" => caller.fn = "statement" /\ Head(caller.parts) = "BLOCK"
  /\ callee.fn \in {"arguments", "statement"} => caller.fn = "expression"
  /\ caller.fn = "statement" => caller.parts # <<>> /\ Head(caller.parts) \in Asking
  /\ caller.fn # "expression" => caller.call.back = FALSE

StackOK(calls) ==
  /\ IsList(calls)
  /\ \A i \in 1 .. Len(calls) : FrameOK(calls[i])
  /\ \A i \in 2 .. Len(calls) : MayCall(calls[i - 1], calls[i])
  /\ Len(calls) > 0 => calls[1].fn = "analyze"

Types ==
  /\ tokens \in Inputs
  /\ pos \in 1 .. Len(tokens) + 1
  /\ status \in {"running", "exit", "nullderef"} => pos <= Len(tokens)
  /\ types \subseteq Names /\ PrimitiveTypes \subseteq types
  /\ status \in {"running", "done", "exit", "nullderef"}
  /\ stack = <<>> <=> status = "done"

\* The brackets calls are going to close.
Debt(calls) == FlattenSeq([i \in 1 .. Len(calls) |-> Owes(calls[i])])

ParserInv ==
  /\ Types
  /\ StackOK(stack)
  /\ BracketsOwed

-----------------------------------------------------------------------------
(* The tokens.                                                             *)

\* A token is of one kind.
LEMMA Kinds ==
  /\ Names \cap Punctuation = {} /\ Numbers \cap Punctuation = {}
  /\ Strings \cap Punctuation = {} /\ Keywords \cap Punctuation = {}
  /\ Names \cap Keywords = {} /\ Names \cap Numbers = {}
  /\ EndOfFile \notin Names \cup Numbers \cup Strings \cup Keywords \cup Punctuation
BY TokensAssumption

\* No word is a bracket.
LEMMA WordKinds ==
  /\ Opening \cup Closing \subseteq Punctuation
  /\ (Names \cup Numbers \cup Strings \cup Keywords \cup {EndOfFile}) \cap (Opening \cup Closing) = {}
  /\ Opening \cap Closing = {}
  /\ {",", ":", ";"} \cap (Opening \cup Closing) = {}
<1>1. /\ Opening \cup Closing \subseteq Punctuation
      /\ Opening \cap Closing = {}
      /\ {",", ":", ";"} \cap (Opening \cup Closing) = {}
  BY DEF Opening, Closing, Punctuation
<1>. QED
  BY <1>1, Kinds, Zenon

\* The list ends at its end of file.
LEMMA Listed ==
  ASSUME Types
  PROVE  /\ tokens \in Seq(Token) /\ Len(tokens) \in Nat \ {0}
         /\ tokens[Len(tokens)] = EndOfFile
         /\ \A i \in 1 .. Len(tokens) : tokens[i] = EndOfFile => i = Len(tokens)
<1>1. tokens \in Inputs
  BY DEF Types
<1>2. tokens \in Seq(Token) /\ tokens # <<>>
  BY <1>1, InputsAssumption, Zenon
<1>3. Len(tokens) \in Nat \ {0} /\ DOMAIN tokens = 1 .. Len(tokens)
  BY <1>2, EmptySeq
<1>4. ASSUME NEW i \in 1 .. Len(tokens)
      PROVE  tokens[i] = EndOfFile <=> i = Len(tokens)
  BY <1>1, <1>3, InputsAssumption, Zenon
<1>5. Len(tokens) \in 1 .. Len(tokens)
  BY <1>3
<1>6. tokens[Len(tokens)] = EndOfFile
  BY <1>4, <1>5, Zenon
<1>. QED
  BY <1>2, <1>3, <1>4, <1>6, Zenon

\* A token that is no end of file has one behind it.
LEMMA Behind ==
  ASSUME Types, NEW i \in 1 .. Len(tokens), tokens[i] # EndOfFile
  PROVE  i + 1 \in 1 .. Len(tokens) /\ tokens[i + 1] \in Token
<1>1. i # Len(tokens)
  BY Listed
<1>2. i + 1 \in 1 .. Len(tokens)
  BY <1>1, Listed
<1>. QED
  BY <1>2, Listed

\* What is owed behind the next token.
LEMMA OwedNext ==
  ASSUME Types, NEW i \in 1 .. Len(tokens)
  PROVE  /\ Owed(<<>>, tokens)[i - 1] \in Dues
         /\ Owed(<<>>, tokens)[i] = OwedBehind(Owed(<<>>, tokens)[i - 1], tokens[i])
<1>1. PICK none : none = <<>> /\ none \in Dues
  <2>1. <<>> \in Dues
    BY DEF Dues
  <2>. QED
    BY <2>1
<1>2. /\ Owed(none, tokens) \in [0 .. Len(tokens) -> Dues]
      /\ \A k \in 1 .. Len(tokens) :
           Owed(none, tokens)[k] = OwedBehind(Owed(none, tokens)[k - 1], tokens[k])
  BY <1>1, Listed, OwedSteps
<1>3. i - 1 \in 0 .. Len(tokens)
  BY Listed
<1>. QED
  BY <1>1, <1>2, <1>3

-----------------------------------------------------------------------------
(* The parts of a declaration.                                             *)

\* A part that closes what was opened before.
IsDue(parts, k) == parts[k] \in Closing /\ Plain(parts, 0, k)

\* Only one part can be.
LEMMA OneDue ==
  ASSUME NEW parts \in Seq(Parts), NEW k \in 1 .. Len(parts), IsDue(parts, k)
  PROVE  Due(parts) = {parts[k]} /\ parts[k] \in Closing
<1>1. k \in DOMAIN parts /\ DOMAIN parts = 1 .. Len(parts) /\ Len(parts) \in Nat
  OBVIOUS
<1>2. parts[k] \in Due(parts)
  BY <1>1 DEF Due, IsDue
<1>3. ASSUME NEW i \in 1 .. Len(parts), IsDue(parts, i)
      PROVE  i = k
  <2>1. ~(i < k) /\ ~(k < i)
    BY <1>1, <1>3 DEF IsDue, Plain, Bracket
  <2>. QED
    BY <1>1, <2>1
<1>4. ASSUME NEW b \in Due(parts)
      PROVE  b = parts[k]
  <2>1. PICK i \in 1 .. Len(parts) : b = parts[i] /\ IsDue(parts, i)
    BY <1>1 DEF Due, IsDue
  <2>. QED
    BY <1>3, <2>1
<1>. QED
  BY <1>2, <1>4 DEF IsDue

\* None may be.
LEMMA NoneDue ==
  ASSUME NEW parts \in Seq(Parts), \A k \in 1 .. Len(parts) : ~IsDue(parts, k)
  PROVE  Due(parts) = {}
<1>1. DOMAIN parts = 1 .. Len(parts)
  OBVIOUS
<1>. QED
  BY <1>1 DEF Due, IsDue


\* What is left behind the first part.
LEMMA TailParts ==
  ASSUME NEW parts \in Seq(Parts), parts # <<>>
  PROVE  /\ Tail(parts) \in Seq(Parts) /\ Head(parts) = parts[1] /\ Head(parts) \in Parts
         /\ Len(parts) \in Nat \ {0} /\ Len(Tail(parts)) = Len(parts) - 1
         /\ \A k \in 1 .. Len(parts) - 1 : Tail(parts)[k] = parts[k + 1]
         /\ DOMAIN parts = 1 .. Len(parts) /\ DOMAIN Tail(parts) = 1 .. Len(parts) - 1
<1>1. Len(parts) \in Nat \ {0}
  BY EmptySeq
<1>. QED
  BY <1>1, HeadTailProperties

\* The brackets between two parts are the same without the first part.
LEMMA PlainTail ==
  ASSUME NEW parts \in Seq(Parts), parts # <<>>, NEW i \in Nat \ {0}, NEW j \in Nat
  PROVE  Plain(Tail(parts), i - 1, j - 1) <=> Plain(parts, i, j)
<1>. DEFINE n == Len(parts)
<1>1. /\ n \in Nat \ {0} /\ DOMAIN parts = 1 .. n /\ DOMAIN Tail(parts) = 1 .. n - 1
      /\ \A k \in 1 .. n - 1 : Tail(parts)[k] = parts[k + 1]
  BY TailParts
<1>. HIDE DEF n
<1>2. ASSUME Plain(parts, i, j), NEW k \in 1 .. n - 1, i - 1 < k, k < j - 1
      PROVE  Tail(parts)[k] \notin Bracket
  <2>1. k + 1 \in 1 .. n /\ i < k + 1 /\ k + 1 < j
    BY <1>1, <1>2
  <2>. QED
    BY <1>1, <1>2, <2>1 DEF Plain
<1>3. ASSUME Plain(Tail(parts), i - 1, j - 1), NEW k \in 1 .. n, i < k, k < j
      PROVE  parts[k] \notin Bracket
  <2>1. k - 1 \in 1 .. n - 1 /\ i - 1 < k - 1 /\ k - 1 < j - 1 /\ (k - 1) + 1 = k
    BY <1>1, <1>3
  <2>. QED
    BY <1>1, <1>3, <2>1 DEF Plain
<1>4. Plain(parts, i, j) => Plain(Tail(parts), i - 1, j - 1)
  BY <1>1, <1>2 DEF Plain
<1>5. Plain(Tail(parts), i - 1, j - 1) => Plain(parts, i, j)
  BY <1>1, <1>3 DEF Plain
<1>. QED
  BY <1>4, <1>5

\* The same of brackets that belong together.
LEMMA MatchedTail ==
  ASSUME NEW parts \in Seq(Parts), parts # <<>>,
         NEW i \in 2 .. Len(parts), NEW j \in 2 .. Len(parts)
  PROVE  Matched(Tail(parts), i - 1, j - 1) <=> Matched(parts, i, j)
<1>1. /\ i \in Nat \ {0} /\ j \in Nat /\ i - 1 \in 1 .. Len(parts) - 1 /\ j - 1 \in 1 .. Len(parts) - 1
      /\ (i - 1) + 1 = i /\ (j - 1) + 1 = j
  BY TailParts
<1>2. Tail(parts)[i - 1] = parts[i] /\ Tail(parts)[j - 1] = parts[j]
  BY <1>1, TailParts
<1>3. Plain(Tail(parts), i - 1, j - 1) <=> Plain(parts, i, j)
  BY <1>1, PlainTail
<1>. QED
  BY <1>2, <1>3, Zenon DEF Matched

\* The rest of a declaration is as flat as the declaration.
LEMMA FlatTail ==
  ASSUME NEW parts \in Seq(Parts), parts # <<>>, Flat(parts)
  PROVE  Flat(Tail(parts))
<1>. DEFINE n == Len(parts)
            t == Tail(parts)
<1>1. /\ n \in Nat \ {0} /\ DOMAIN parts = 1 .. n /\ DOMAIN t = 1 .. n - 1 /\ Len(t) = n - 1
      /\ \A k \in 1 .. n - 1 : t[k] = parts[k + 1]
  BY TailParts
<1>2. \A i, j \in 2 .. n : Matched(t, i - 1, j - 1) <=> Matched(parts, i, j)
  BY MatchedTail
<1>3. \A j \in 2 .. n : Plain(t, 0, j - 1) <=> Plain(parts, 1, j)
  <2>1. ASSUME NEW j \in 2 .. n
        PROVE  Plain(t, 1 - 1, j - 1) <=> Plain(parts, 1, j)
    BY <1>1, PlainTail
  <2>2. 1 - 1 = 0
    OBVIOUS
  <2>. QED
    BY <2>1, <2>2
<1>. HIDE DEF n, t
<1>4. ASSUME NEW i \in 1 .. n - 1, t[i] \in Opening
      PROVE  \E j \in i + 1 .. n - 1 : Matched(t, i, j)
  <2>1. i + 1 \in 1 .. n /\ parts[i + 1] \in Opening
    BY <1>1, <1>4
  <2>2. PICK j \in (i + 1) + 1 .. n : Matched(parts, i + 1, j)
    BY <1>1, <2>1 DEF Flat, n
  <2>3. i + 1 \in 2 .. n /\ j \in 2 .. n /\ (i + 1) - 1 = i /\ j - 1 \in i + 1 .. n - 1
    BY <1>1, <2>2
  <2>4. Matched(t, i, j - 1)
    BY <1>2, <2>2, <2>3
  <2>. QED
    BY <2>3, <2>4
<1>5. ASSUME NEW i \in 1 .. n - 1, t[i] \in Closing
      PROVE  Plain(t, 0, i) \/ \E j \in 1 .. i - 1 : Matched(t, j, i)
  <2>1. /\ i + 1 \in 1 .. n /\ i + 1 \in 2 .. n /\ parts[i + 1] \in Closing
        /\ (i + 1) - 1 = i
    BY <1>1, <1>5
  <2>2. Plain(parts, 0, i + 1) \/ \E j \in 1 .. i : Matched(parts, j, i + 1)
    BY <1>1, <2>1 DEF Flat
  <2>3. CASE Plain(parts, 0, i + 1)
    <3>1. Plain(parts, 1, i + 1)
      BY <1>1, <2>3 DEF Plain
    <3>. QED
      BY <1>3, <2>1, <3>1
  <2>4. ASSUME NEW j \in 1 .. i, Matched(parts, j, i + 1)
        PROVE  Plain(t, 0, i) \/ \E k \in 1 .. i - 1 : Matched(t, k, i)
    <3>1. CASE j = 1
      <4>1. Plain(parts, 1, i + 1)
        BY <2>4, <3>1 DEF Matched
      <4>. QED
        BY <1>3, <2>1, <4>1
    <3>2. CASE j # 1
      <4>1. j \in 2 .. n /\ j - 1 \in 1 .. i - 1
        BY <1>1, <2>1, <3>2
      <4>2. Matched(t, j - 1, i)
        BY <1>2, <2>1, <2>4, <4>1
      <4>. QED
        BY <4>1, <4>2
    <3>. QED
      BY <3>1, <3>2
  <2>. QED
    BY <2>2, <2>3, <2>4
<1>6. Flat(t)
  BY <1>1, <1>4, <1>5 DEF Flat
<1>. QED
  BY <1>6 DEF t

\* What is due behind the first part: the same if that is no bracket, nothing if
\* it closes one, and its counterpart if it opens one.
LEMMA DueTail ==
  ASSUME NEW parts \in Seq(Parts), parts # <<>>, Flat(parts)
  PROVE  /\ Head(parts) \notin Bracket => Due(Tail(parts)) = Due(parts)
         /\ Head(parts) \in Closing => Due(parts) = {Head(parts)} /\ Due(Tail(parts)) = {}
         /\ Head(parts) \in Opening => Due(parts) = {} /\ Due(Tail(parts)) = {Closer[Head(parts)]}
<1>. DEFINE n == Len(parts)
            t == Tail(parts)
<1>1. /\ n \in Nat \ {0} /\ DOMAIN parts = 1 .. n /\ DOMAIN t = 1 .. n - 1 /\ Len(t) = n - 1
      /\ \A k \in 1 .. n - 1 : t[k] = parts[k + 1]
      /\ t \in Seq(Parts) /\ Head(parts) = parts[1]
  BY TailParts
<1>. HIDE DEF n, t
<1>2. ASSUME NEW k \in 1 .. n - 1
      PROVE  IsDue(t, k) <=> parts[k + 1] \in Closing /\ Plain(parts, 1, k + 1)
  <2>1. 1 \in Nat \ {0} /\ k + 1 \in Nat /\ 1 - 1 = 0 /\ (k + 1) - 1 = k
    OBVIOUS
  <2>2. Plain(t, 1 - 1, (k + 1) - 1) <=> Plain(parts, 1, k + 1)
    BY <2>1, PlainTail DEF t
  <2>. QED
    BY <1>1, <2>1, <2>2 DEF IsDue
<1>3. CASE Head(parts) \notin Bracket
  <2>1. ASSUME NEW k \in 1 .. n
        PROVE  Plain(parts, 1, k) <=> Plain(parts, 0, k)
    BY <1>1, <1>3 DEF Plain
  <2>2. ASSUME NEW b
        PROVE  b \in Due(t) <=> b \in Due(parts)
    <3>1. ASSUME NEW k \in 1 .. n - 1, IsDue(t, k), b = t[k]
          PROVE  b \in Due(parts)
      <4>1. k + 1 \in 1 .. n /\ b = parts[k + 1]
        BY <1>1, <3>1
      <4>2. parts[k + 1] \in Closing /\ Plain(parts, 0, k + 1)
        BY <1>2, <2>1, <3>1, <4>1
      <4>. QED
        BY <1>1, <4>1, <4>2 DEF Due
    <3>2. ASSUME NEW k \in 1 .. n, parts[k] \in Closing, Plain(parts, 0, k), b = parts[k]
          PROVE  b \in Due(t)
      <4>1. k # 1
        BY <1>1, <1>3, <3>2 DEF Bracket
      <4>2. k - 1 \in 1 .. n - 1 /\ (k - 1) + 1 = k
        BY <1>1, <4>1
      <4>3. IsDue(t, k - 1) /\ b = t[k - 1]
        BY <1>1, <1>2, <2>1, <3>2, <4>2
      <4>. QED
        BY <1>1, <4>2, <4>3 DEF Due, IsDue
    <3>. QED
      BY <1>1, <3>1, <3>2 DEF Due, IsDue
  <2>3. Due(t) = Due(parts)
    BY <2>2
  <2>. QED
    BY <1>3, <2>3 DEF t, Bracket
<1>4. CASE Head(parts) \in Closing
  <2>1. IsDue(parts, 1) /\ 1 \in 1 .. n
    BY <1>1, <1>4 DEF IsDue, Plain
  <2>2. Due(parts) = {Head(parts)}
    BY <1>1, <2>1, OneDue DEF n
  <2>3. ASSUME NEW k \in 1 .. n - 1, IsDue(t, k)
        PROVE  FALSE
    <3>1. k + 1 \in 1 .. n /\ parts[k + 1] \in Closing /\ Plain(parts, 1, k + 1)
      BY <1>1, <1>2, <2>3
    <3>2. ~Plain(parts, 0, k + 1)
      BY <1>1, <1>4, <3>1 DEF Plain, Bracket
    <3>3. PICK j \in 1 .. k : Matched(parts, j, k + 1)
      BY <1>1, <3>1, <3>2 DEF Flat
    <3>4. j # 1 /\ parts[j] \in Opening
      BY <1>1, <1>4, <3>3, WordKinds DEF Matched
    <3>5. j \in 1 .. n /\ 1 < j /\ j < k + 1
      BY <1>1, <3>4
    <3>6. parts[j] \notin Bracket
      BY <1>1, <3>1, <3>5 DEF Plain
    <3>. QED
      BY <3>4, <3>6 DEF Bracket
  <2>4. Due(t) = {}
    BY <1>1, <2>3, NoneDue
  <2>. QED
    BY <1>4, <2>2, <2>4, WordKinds DEF t, Bracket
<1>5. CASE Head(parts) \in Opening
  <2>1. ASSUME NEW k \in 1 .. n, IsDue(parts, k)
        PROVE  FALSE
    <3>1. k # 1
      BY <1>1, <1>5, <2>1, WordKinds DEF IsDue
    <3>. QED
      BY <1>1, <1>5, <2>1, <3>1 DEF IsDue, Plain, Bracket
  <2>2. Due(parts) = {}
    BY <1>1, <2>1, NoneDue DEF n
  <2>3. PICK j \in 2 .. n : Matched(parts, 1, j)
    BY <1>1, <1>5 DEF Flat, n
  <2>4. parts[j] = Closer[Head(parts)] /\ Plain(parts, 1, j)
    BY <1>1, <2>3 DEF Matched
  <2>5. parts[j] \in Closing
    BY <1>5, <2>4 DEF Closer, Opening, Closing
  <2>6. j - 1 \in 1 .. n - 1 /\ (j - 1) + 1 = j
    BY <1>1
  <2>7. IsDue(t, j - 1) /\ t[j - 1] = Closer[Head(parts)]
    BY <1>1, <1>2, <2>4, <2>5, <2>6
  <2>8. Due(t) = {Closer[Head(parts)]}
    BY <1>1, <2>6, <2>7, OneDue
  <2>. QED
    BY <1>5, <2>2, <2>8, WordKinds DEF t, Bracket
<1>. QED
  BY <1>3, <1>4, <1>5 DEF Bracket

-----------------------------------------------------------------------------
(* What the calls owe.                                                     *)

\* No element, and one, as a sequence.
LEMMA FewToSeq ==
  ASSUME NEW b
  PROVE  SetToSeq({}) = <<>> /\ SetToSeq({b}) = <<b>>
<1>1. Cardinality({}) = 0 /\ Cardinality({b}) = 1
  BY FS_EmptySet, FS_Singleton
<1>2. SetToSeq({}) = <<>>
  <2>1. SetToSeq({}) = CHOOSE f \in [1 .. 0 -> {}] : IsInjective(f)
    BY <1>1 DEF SetToSeq
  <2>2. <<>> \in [1 .. 0 -> {}] /\ IsInjective(<<>>)
    BY DEF IsInjective
  <2>3. \A f \in [1 .. 0 -> {}] : f = <<>>
    OBVIOUS
  <2>. QED
    BY <2>1, <2>2, <2>3
<1>3. SetToSeq({b}) = <<b>>
  <2>1. SetToSeq({b}) = CHOOSE f \in [1 .. 1 -> {b}] : IsInjective(f)
    BY <1>1 DEF SetToSeq
  <2>2. <<b>> \in [1 .. 1 -> {b}] /\ IsInjective(<<b>>)
    BY DEF IsInjective
  <2>3. \A f \in [1 .. 1 -> {b}] : f = <<b>>
    OBVIOUS
  <2>. QED
    BY <2>1, <2>2, <2>3
<1>. QED
  BY <1>2, <1>3

\* The kinds of frames, and what each owes.
LEMMA FrameKinds ==
  ASSUME NEW f, FrameOK(f)
  PROVE  /\ f.fn = "expression" <=> ExpressionOK(f)
         /\ f.fn = "arguments" <=> ArgumentsOK(f)
         /\ f.fn = "statement" <=> StatementOK(f)
         /\ f.fn = "block" <=> BlockOK(f)
         /\ f.fn = "analyze" <=> AnalyzeOK(f)
         /\ f.fn \in Frames
<1>1. /\ ExpressionOK(f) => f.fn = "expression"
      /\ ArgumentsOK(f) => f.fn = "arguments"
      /\ StatementOK(f) => f.fn = "statement"
      /\ BlockOK(f) => f.fn = "block"
      /\ AnalyzeOK(f) => f.fn = "analyze"
  BY DEF ExpressionOK, ArgumentsOK, StatementOK, BlockOK, AnalyzeOK
<1>. QED
  BY <1>1 DEF FrameOK, Frames

\* An expression owes a parenthesis for each it has counted.
LEMMA OwesExpression ==
  ASSUME NEW f, f.fn = "expression", f.balance \in Nat
  PROVE  /\ Owes(f) = [i \in 1 .. f.balance |-> ")"]
         /\ Owes(f) \in Seq(Closing) /\ Len(Owes(f)) = f.balance
         /\ f.balance = 0 => Owes(f) = <<>>
<1>1. Owes(f) = [i \in 1 .. f.balance |-> ")"]
  BY DEF Owes
<1>2. ")" \in Closing
  BY DEF Closing
<1>3. Owes(f) \in Seq(Closing) /\ Len(Owes(f)) = f.balance
  BY <1>1, <1>2
<1>. QED
  BY <1>1, <1>3

\* The arguments owe their end, a statement one bracket at most.
LEMMA OwesOthers ==
  ASSUME NEW f
  PROVE  /\ f.fn = "arguments" => Owes(f) = <<f.end>>
         /\ f.fn = "statement" /\ Due(f.parts) = {} => Owes(f) = <<>>
         /\ \A b : f.fn = "statement" /\ Due(f.parts) = {b} => Owes(f) = <<b>>
         /\ f.fn \in {"block", "analyze"} => Owes(f) = <<>>
<1>1. f.fn = "statement" => Owes(f) = SetToSeq(Due(f.parts))
  BY DEF Owes
<1>2. f.fn = "arguments" => Owes(f) = <<f.end>>
  BY DEF Owes
<1>3. f.fn \in {"block", "analyze"} => Owes(f) = <<>>
  BY DEF Owes
<1>. QED
  BY <1>1, <1>2, <1>3, FewToSeq

\* What a frame owes are closing brackets.
LEMMA OwesType ==
  ASSUME NEW f, FrameOK(f)
  PROVE  Owes(f) \in Seq(Closing)
<1>1. CASE ExpressionOK(f)
  BY <1>1, OwesExpression DEF ExpressionOK
<1>2. CASE ArgumentsOK(f)
  <2>1. Owes(f) = <<f.end>> /\ f.end \in Closing
    BY <1>2, OwesOthers DEF ArgumentsOK
  <2>. QED
    BY <2>1
<1>3. CASE StatementOK(f)
  <2>1. f.parts \in Seq(Parts) /\ f.fn = "statement"
    BY <1>3 DEF StatementOK
  <2>2. CASE \A k \in 1 .. Len(f.parts) : ~IsDue(f.parts, k)
    <3>1. Owes(f) = <<>>
      BY <2>1, <2>2, NoneDue, OwesOthers
    <3>. QED
      BY <3>1
  <2>3. ASSUME NEW k \in 1 .. Len(f.parts), IsDue(f.parts, k)
        PROVE  Owes(f) \in Seq(Closing)
    <3>1. PICK b \in Closing : Due(f.parts) = {b}
      BY <2>1, <2>3, OneDue
    <3>2. Owes(f) = <<b>>
      BY <2>1, <3>1, OwesOthers
    <3>. QED
      BY <3>2
  <2>. QED
    BY <2>2, <2>3
<1>4. CASE BlockOK(f) \/ AnalyzeOK(f)
  <2>1. Owes(f) = <<>>
    BY <1>4, OwesOthers DEF BlockOK, AnalyzeOK
  <2>. QED
    BY <2>1
<1>. QED
  BY <1>1, <1>2, <1>3, <1>4 DEF FrameOK

-----------------------------------------------------------------------------
(* Calls and returns.                                                      *)

\* What the frames owe, as a sequence of sequences.
LEMMA DebtType ==
  ASSUME NEW calls, StackOK(calls)
  PROVE  /\ [i \in 1 .. Len(calls) |-> Owes(calls[i])] \in Seq(Seq(Closing))
         /\ Len([i \in 1 .. Len(calls) |-> Owes(calls[i])]) = Len(calls)
         /\ Debt(calls) \in Seq(Closing)
<1>1. Len(calls) \in Nat /\ \A i \in 1 .. Len(calls) : FrameOK(calls[i])
  BY DEF StackOK, IsList
<1>2. \A i \in 1 .. Len(calls) : Owes(calls[i]) \in Seq(Closing)
  BY <1>1, OwesType
<1>3. PICK n : n = Len(calls) /\ n \in Nat
  BY <1>1
<1>4. PICK owed : owed = [i \in 1 .. n |-> Owes(calls[i])]
  OBVIOUS
<1>5. owed \in Seq(Seq(Closing)) /\ Len(owed) = n
  BY <1>2, <1>3, <1>4
<1>6. <<>> \in Seq(Closing)
  OBVIOUS
<1>7. FlattenSeq(owed) \in Seq(Closing)
  BY <1>5, <1>6, FlattenAppend
<1>. QED
  BY <1>3, <1>4, <1>5, <1>7 DEF Debt

\* Without frames nothing is owed.
LEMMA NothingOwed == FlattenSeq(<<>>) = <<>>
<1>1. <<>> \in Seq({}) /\ <<>> \in Seq(Seq({}))
  OBVIOUS
<1>. QED
  BY <1>1, FlattenAppend

\* A call is made.
LEMMA Entered ==
  ASSUME NEW calls, StackOK(calls), NEW f, FrameOK(f),
         IF Len(calls) = 0 THEN f.fn = "analyze" ELSE MayCall(calls[Len(calls)], f)
  PROVE  /\ StackOK(Append(calls, f))
         /\ Debt(Append(calls, f)) = Debt(calls) \o Owes(f)
<1>1. PICK n : n = Len(calls) /\ n \in Nat
  BY DEF StackOK, IsList
<1>2. PICK more : /\ more = Append(calls, f) /\ IsList(more) /\ Len(more) = n + 1
                  /\ more[n + 1] = f
                  /\ \A i \in 1 .. n : more[i] = calls[i]
  <2>1. IsList(calls)
    BY DEF StackOK
  <2>2. /\ IsList(Append(calls, f)) /\ Len(Append(calls, f)) = Len(calls) + 1
        /\ Append(calls, f)[Len(calls) + 1] = f
        /\ \A i \in 1 .. Len(calls) : Append(calls, f)[i] = calls[i]
    BY <2>1, ListAppend
  <2>. QED
    BY <1>1, <2>2, Zenon
<1>3. StackOK(more)
  <2>1. \A i \in 1 .. n + 1 : FrameOK(more[i])
    BY <1>1, <1>2 DEF StackOK
  <2>2. ASSUME NEW i \in 2 .. n + 1
        PROVE  MayCall(more[i - 1], more[i])
    <3>1. CASE i = n + 1
      BY <1>1, <1>2, <3>1
    <3>2. CASE i \in 2 .. n
      <4>1. i - 1 \in 1 .. n /\ i \in 1 .. n
        BY <1>1, <3>2
      <4>. QED
        BY <1>1, <1>2, <3>2, <4>1 DEF StackOK
    <3>. QED
      BY <1>1, <3>1, <3>2
  <2>3. more[1].fn = "analyze"
    BY <1>1, <1>2 DEF StackOK
  <2>. QED
    BY <1>2, <2>1, <2>2, <2>3 DEF StackOK
<1>4. PICK owed : owed = [i \in 1 .. n |-> Owes(calls[i])] /\ owed \in Seq(Seq(Closing)) /\ Len(owed) = n
  BY <1>1, DebtType
<1>5. PICK last : last = Owes(f) /\ last \in Seq(Closing)
  BY OwesType
<1>6. [i \in 1 .. n + 1 |-> Owes(more[i])] = Append(owed, last)
  <2>1. /\ Append(owed, last) \in Seq(Seq(Closing)) /\ Len(Append(owed, last)) = n + 1
        /\ Append(owed, last)[n + 1] = last
        /\ \A i \in 1 .. n : Append(owed, last)[i] = owed[i]
    BY <1>1, <1>4, <1>5, AppendProperties
  <2>2. PICK both : both = Append(owed, last)
    OBVIOUS
  <2>3. both = [i \in 1 .. n + 1 |-> both[i]]
    <3>1. IsList(both) /\ Len(both) = n + 1
      BY <2>1, <2>2, SeqIsList
    <3>. QED
      BY <3>1, Zenon DEF IsList
  <2>4. \A i \in 1 .. n + 1 : both[i] = Owes(more[i])
    BY <1>1, <1>2, <1>4, <1>5, <2>1, <2>2
  <2>. QED
    BY <2>2, <2>3, <2>4
<1>7. FlattenSeq(Append(owed, last)) = FlattenSeq(owed) \o last
  BY <1>4, <1>5, FlattenAppend
<1>. QED
  BY <1>1, <1>2, <1>3, <1>4, <1>5, <1>6, <1>7 DEF Debt

\* The call on top is gone.
LEMMA Left ==
  ASSUME NEW calls, StackOK(calls), Len(calls) > 0
  PROVE  /\ StackOK(Front(calls)) /\ Len(Front(calls)) = Len(calls) - 1
         /\ Len(calls) \in Nat \ {0}
         /\ Last(calls) = calls[Len(calls)] /\ FrameOK(Last(calls))
         /\ \A i \in 1 .. Len(calls) - 1 : Front(calls)[i] = calls[i]
         /\ Debt(calls) = Debt(Front(calls)) \o Owes(Last(calls))
<1>1. PICK n : n = Len(calls) /\ n \in Nat \ {0}
  BY DEF StackOK, IsList
<1>2. PICK less, f : /\ less = Front(calls) /\ IsList(less) /\ Len(less) = n - 1
                     /\ f = Last(calls) /\ f = calls[n]
                     /\ \A i \in 1 .. n - 1 : less[i] = calls[i]
  BY <1>1, ListFront DEF StackOK
<1>3. FrameOK(f) /\ n \in 1 .. n
  BY <1>1, <1>2 DEF StackOK
<1>4. StackOK(less)
  <2>1. \A i \in 1 .. n - 1 : FrameOK(less[i])
    BY <1>1, <1>2 DEF StackOK
  <2>2. ASSUME NEW i \in 2 .. n - 1
        PROVE  MayCall(less[i - 1], less[i])
    <3>1. i - 1 \in 1 .. n - 1 /\ i \in 1 .. n - 1 /\ i \in 2 .. n
      BY <1>1
    <3>2. MayCall(calls[i - 1], calls[i])
      BY <1>1, <3>1 DEF StackOK
    <3>. QED
      BY <1>2, <3>1, <3>2
  <2>3. n - 1 > 0 => less[1].fn = "analyze"
    BY <1>1, <1>2 DEF StackOK
  <2>. QED
    BY <1>2, <2>1, <2>2, <2>3 DEF StackOK
<1>5. IF Len(less) = 0 THEN f.fn = "analyze" ELSE MayCall(less[Len(less)], f)
  BY <1>1, <1>2 DEF StackOK
<1>6. Append(less, f) = calls
  <2>1. PICK more : /\ more = Append(less, f) /\ IsList(more) /\ Len(more) = n
                    /\ more[n] = f /\ \A i \in 1 .. n - 1 : more[i] = less[i]
    <3>1. /\ IsList(Append(less, f)) /\ Len(Append(less, f)) = Len(less) + 1
          /\ Append(less, f)[Len(less) + 1] = f
          /\ \A i \in 1 .. Len(less) : Append(less, f)[i] = less[i]
      BY <1>2, ListAppend
    <3>2. Len(less) + 1 = n /\ Len(less) = n - 1
      BY <1>1, <1>2
    <3>3. Len(Append(less, f)) = n /\ Append(less, f)[n] = f
      BY <3>1, <3>2, Zenon
    <3>4. \A i \in 1 .. n - 1 : Append(less, f)[i] = less[i]
      BY <3>1, <3>2, Zenon
    <3>. QED
      BY <3>1, <3>3, <3>4, Zenon
  <2>2. \A i \in 1 .. n : more[i] = calls[i]
    BY <1>1, <1>2, <2>1
  <2>3. calls = [i \in 1 .. n |-> calls[i]] /\ more = [i \in 1 .. n |-> more[i]]
    BY <1>1, <2>1 DEF StackOK, IsList
  <2>. QED
    BY <2>1, <2>2, <2>3
<1>7. Debt(Append(less, f)) = Debt(less) \o Owes(f)
  BY <1>3, <1>4, <1>5, Entered
<1>. QED
  BY <1>1, <1>2, <1>3, <1>4, <1>6, <1>7

\* The call on top goes on.
LEMMA Replaced ==
  ASSUME NEW calls, StackOK(calls), Len(calls) > 0, NEW f, FrameOK(f), f.fn = Last(calls).fn
  PROVE  /\ StackOK(Append(Front(calls), f))
         /\ Debt(Append(Front(calls), f)) = Debt(Front(calls)) \o Owes(f)
         /\ Append(Front(calls), f) # <<>>
<1>1. PICK n, less : /\ n = Len(calls) /\ n \in Nat \ {0}
                     /\ less = Front(calls) /\ StackOK(less) /\ Len(less) = n - 1
                     /\ Last(calls) = calls[n]
                     /\ \A i \in 1 .. n - 1 : less[i] = calls[i]
  BY Left
<1>2. IF Len(less) = 0 THEN f.fn = "analyze" ELSE MayCall(less[Len(less)], f)
  <2>1. CASE n = 1
    BY <1>1, <2>1 DEF StackOK
  <2>2. CASE n > 1
    <3>1. MayCall(calls[n - 1], calls[n]) /\ less[n - 1] = calls[n - 1] /\ n - 1 # 0
      BY <1>1, <2>2 DEF StackOK
    <3>. QED
      BY <1>1, <3>1 DEF MayCall
  <2>. QED
    BY <1>1, <2>1, <2>2
<1>3. StackOK(Append(less, f)) /\ Debt(Append(less, f)) = Debt(less) \o Owes(f)
  BY <1>1, <1>2, Entered
<1>4. Append(less, f) # <<>>
  BY <1>1, ListAppend DEF StackOK
<1>. QED
  BY <1>1, <1>3, <1>4

-----------------------------------------------------------------------------
(* Expressions.                                                            *)

\* A token once more.
LEMMA Repeated ==
  ASSUME NEW n \in Nat, NEW t
  PROVE  [i \in 1 .. n + 1 |-> t] = Append([i \in 1 .. n |-> t], t)
<1>1. PICK s : s = [i \in 1 .. n |-> t] /\ s \in Seq({t}) /\ Len(s) = n
  <2>1. [i \in 1 .. n |-> t] \in Seq({t}) /\ Len([i \in 1 .. n |-> t]) = n
    OBVIOUS
  <2>. QED
    BY <2>1, Zenon
<1>2. PICK u : /\ u = Append(s, t) /\ u \in Seq({t}) /\ Len(u) = n + 1
  <2>1. Append(s, t) \in Seq({t}) /\ Len(Append(s, t)) = n + 1
    BY <1>1, AppendProperties
  <2>. QED
    BY <2>1, Zenon
<1>3. u = [i \in 1 .. n + 1 |-> u[i]]
  <2>1. IsList(u)
    BY <1>2, SeqIsList
  <2>. QED
    BY <1>2, <2>1, Zenon DEF IsList
<1>4. \A i \in 1 .. n + 1 : u[i] = t
  BY <1>2
<1>. QED
  BY <1>1, <1>2, <1>3, <1>4

\* The open parentheses are finitely many.
LEMMA OpensFinite ==
  ASSUME NEW held, IsList(held)
  PROVE  IsFiniteSet(Opens(held)) /\ Cardinality(Opens(held)) \in Nat
<1>0. Len(held) \in Nat
  BY DEF IsList
<1>1. IsFiniteSet(1 .. Len(held))
  BY <1>0, FS_Interval
<1>2. IsFiniteSet(Opens(held))
  BY <1>1, FS_Subset DEF Opens
<1>. QED
  BY <1>2, FS_CardinalityType

\* A node more on the holding stack.
LEMMA OpensAppend ==
  ASSUME NEW held, IsList(held), NEW node
  PROVE  Cardinality(Opens(Append(held, node)))
           = IF node = Open THEN Cardinality(Opens(held)) + 1 ELSE Cardinality(Opens(held))
<1>1. PICK n, more : /\ n = Len(held) /\ n \in Nat /\ more = Append(held, node) /\ Len(more) = n + 1
                     /\ more[n + 1] = node /\ \A i \in 1 .. n : more[i] = held[i]
  <2>1. /\ Len(held) \in Nat /\ Len(Append(held, node)) = Len(held) + 1
        /\ Append(held, node)[Len(held) + 1] = node
        /\ \A i \in 1 .. Len(held) : Append(held, node)[i] = held[i]
    BY ListAppend
  <2>. QED
    BY <2>1, Zenon
<1>2. CASE node = Open
  <2>1. Opens(more) = Opens(held) \cup {n + 1} /\ n + 1 \notin Opens(held)
    BY <1>1, <1>2 DEF Opens
  <2>. QED
    BY <1>1, <1>2, <2>1, OpensFinite, FS_AddElement
<1>3. CASE node # Open
  <2>1. Opens(more) = Opens(held)
    BY <1>1, <1>3 DEF Opens
  <2>. QED
    BY <1>1, <1>3, <2>1
<1>. QED
  BY <1>2, <1>3

\* A node less.
LEMMA OpensFront ==
  ASSUME NEW held, IsList(held), Len(held) > 0
  PROVE  Cardinality(Opens(held)) <= Cardinality(Opens(Front(held))) + 1
<1>1. PICK n, less : /\ n = Len(held) /\ n \in Nat \ {0} /\ less = Front(held) /\ Len(less) = n - 1
                     /\ IsList(less) /\ \A i \in 1 .. n - 1 : less[i] = held[i]
  BY ListFront, Zenon
<1>2. Opens(held) \subseteq Opens(less) \cup {n}
  BY <1>1 DEF Opens
<1>3. /\ IsFiniteSet(Opens(less)) /\ Cardinality(Opens(less)) \in Nat
      /\ n \notin Opens(less)
  BY <1>1, OpensFinite DEF Opens
<1>4. IsFiniteSet(Opens(less) \cup {n}) /\ Cardinality(Opens(less) \cup {n}) = Cardinality(Opens(less)) + 1
  BY <1>3, FS_AddElement
<1>5. Cardinality(Opens(held)) <= Cardinality(Opens(less) \cup {n})
  BY <1>2, <1>4, FS_Subset
<1>. QED
  BY <1>1, <1>4, <1>5

\* Under a balance there is a parenthesis.
LEMMA BalanceHolds ==
  ASSUME NEW f, ExpressionOK(f), f.balance > 0
  PROVE  Len(f.held) > 0 /\ Contains(f.held, Open)
<1>1. f.balance \in Nat /\ Cardinality(Opens(f.held)) >= f.balance /\ IsList(f.held)
  BY DEF ExpressionOK
<1>2. Opens(f.held) # {}
  BY <1>1, FS_EmptySet, OpensFinite
<1>3. PICK i \in 1 .. Len(f.held) : f.held[i] = Open
  BY <1>2 DEF Opens
<1>4. Len(f.held) > 0
  BY <1>1, <1>3 DEF IsList
<1>5. Contains(f.held, Open)
  BY <1>3 DEF Contains
<1>. QED
  BY <1>4, <1>5

\* An operand more.
LEMMA ExpressionOut ==
  ASSUME NEW f, ExpressionOK(f), NEW list, NEW g, g = [f EXCEPT !.out = list]
  PROVE  FrameOK(g) /\ g.fn = "expression" /\ Owes(g) = Owes(f)
<1>1. g = [fn |-> "expression", out |-> list, held |-> f.held, balance |-> f.balance]
  BY DEF ExpressionOK
<1>2. ExpressionOK(g) /\ g.balance = f.balance /\ g.fn = "expression"
  BY <1>1 DEF ExpressionOK
<1>3. Owes(g) = Owes(f)
  BY <1>2, OwesExpression DEF ExpressionOK
<1>. QED
  BY <1>2, <1>3 DEF FrameOK

\* An array literal on the holding stack.
LEMMA ExpressionHolds ==
  ASSUME NEW f, ExpressionOK(f), NEW node, NEW g, g = [f EXCEPT !.held = Append(f.held, node)]
  PROVE  FrameOK(g) /\ g.fn = "expression" /\ Owes(g) = Owes(f)
<1>1. g = [fn |-> "expression", out |-> f.out, held |-> Append(f.held, node), balance |-> f.balance]
  BY DEF ExpressionOK
<1>2. IsList(f.held) /\ IsList(Append(f.held, node))
  BY ListAppend DEF ExpressionOK
<1>3. f.balance <= Cardinality(Opens(Append(f.held, node)))
  BY <1>2, OpensAppend, OpensFinite DEF ExpressionOK
<1>4. ExpressionOK(g) /\ g.balance = f.balance /\ g.fn = "expression"
  BY <1>1, <1>2, <1>3 DEF ExpressionOK
<1>5. Owes(g) = Owes(f)
  BY <1>4, OwesExpression DEF ExpressionOK
<1>. QED
  BY <1>4, <1>5 DEF FrameOK

\* A parenthesis more.
LEMMA ExpressionOpens ==
  ASSUME NEW f, ExpressionOK(f),
         NEW g, g = [f EXCEPT !.balance = f.balance + 1, !.held = Append(f.held, Open)]
  PROVE  FrameOK(g) /\ g.fn = "expression" /\ Owes(g) = Append(Owes(f), ")")
<1>1. g = [fn |-> "expression", out |-> f.out, held |-> Append(f.held, Open), balance |-> f.balance + 1]
  BY DEF ExpressionOK
<1>2. IsList(f.held) /\ IsList(Append(f.held, Open)) /\ f.balance \in Nat
  BY ListAppend DEF ExpressionOK
<1>3. f.balance + 1 <= Cardinality(Opens(Append(f.held, Open)))
  BY <1>2, OpensAppend, OpensFinite DEF ExpressionOK
<1>4. ExpressionOK(g) /\ g.balance = f.balance + 1 /\ g.fn = "expression"
  <2>1. PICK held, balance : /\ held = Append(f.held, Open) /\ balance = f.balance + 1
                             /\ IsList(held) /\ balance \in Nat
                             /\ balance <= Cardinality(Opens(held))
    <3>1. f.balance + 1 \in Nat
      BY <1>2
    <3>. QED
      BY <1>2, <1>3, <3>1, Zenon
  <2>2. g = [fn |-> "expression", out |-> f.out, held |-> held, balance |-> balance]
    BY <1>1, <2>1, Zenon
  <2>3. ExpressionOK(g) /\ g.balance = balance /\ g.fn = "expression"
    BY <2>1, <2>2 DEF ExpressionOK
  <2>. QED
    BY <2>1, <2>3
<1>5. PICK n \in Nat : n = f.balance
  BY <1>2
<1>6. Owes(g) = [i \in 1 .. n + 1 |-> ")"] /\ Owes(f) = [i \in 1 .. n |-> ")"]
  BY <1>4, <1>5, OwesExpression DEF ExpressionOK
<1>7. [i \in 1 .. n + 1 |-> ")"] = Append([i \in 1 .. n |-> ")"], ")")
  BY Repeated
<1>. QED
  BY <1>4, <1>6, <1>7 DEF FrameOK

\* A parenthesis less.
LEMMA ExpressionCloses ==
  ASSUME NEW f, ExpressionOK(f), f.balance > 0,
         NEW g, g = [f EXCEPT !.balance = f.balance - 1, !.held = Front(f.held)]
  PROVE  FrameOK(g) /\ g.fn = "expression" /\ Owes(f) = Append(Owes(g), ")")
<1>1. g = [fn |-> "expression", out |-> f.out, held |-> Front(f.held), balance |-> f.balance - 1]
  BY DEF ExpressionOK
<1>2. Len(f.held) > 0 /\ f.balance \in Nat \ {0} /\ IsList(f.held)
  BY BalanceHolds DEF ExpressionOK
<1>3. IsList(Front(f.held))
  BY <1>2, ListFront
<1>4. f.balance - 1 <= Cardinality(Opens(Front(f.held)))
  BY <1>2, <1>3, OpensFront, OpensFinite DEF ExpressionOK
<1>5. ExpressionOK(g) /\ g.balance = f.balance - 1 /\ g.fn = "expression"
  <2>1. PICK held, balance : /\ held = Front(f.held) /\ balance = f.balance - 1
                             /\ IsList(held) /\ balance \in Nat
                             /\ balance <= Cardinality(Opens(held))
    <3>1. f.balance - 1 \in Nat
      BY <1>2
    <3>. QED
      BY <1>2, <1>3, <1>4, <3>1, Zenon
  <2>2. g = [fn |-> "expression", out |-> f.out, held |-> held, balance |-> balance]
    BY <1>1, <2>1, Zenon
  <2>3. ExpressionOK(g) /\ g.balance = balance /\ g.fn = "expression"
    BY <2>1, <2>2 DEF ExpressionOK
  <2>. QED
    BY <2>1, <2>3
<1>6. PICK n \in Nat : n = f.balance - 1 /\ f.balance = n + 1
  BY <1>2
<1>7. Owes(f) = [i \in 1 .. n + 1 |-> ")"] /\ Owes(g) = [i \in 1 .. n |-> ")"]
  BY <1>5, <1>6, OwesExpression DEF ExpressionOK
<1>8. [i \in 1 .. n + 1 |-> ")"] = Append([i \in 1 .. n |-> ")"], ")")
  BY Repeated
<1>. QED
  BY <1>5, <1>7, <1>8 DEF FrameOK

-----------------------------------------------------------------------------
(* The other frames.                                                       *)

\* A call that has not returned, and one that has.
LEMMA Calling ==
  /\ IsCall(Waiting) /\ Waiting.back = FALSE
  /\ \A list : LET c == [back |-> TRUE, list |-> list] IN IsCall(c) /\ c.back = TRUE
<1>1. Waiting = [back |-> FALSE, list |-> <<>>]
  BY DEF Waiting
<1>. QED
  BY <1>1 DEF IsCall

\* The frames that calls start with.
LEMMA NewFrames ==
  /\ FrameOK(Expression) /\ Expression.fn = "expression" /\ Owes(Expression) = <<>>
  /\ FrameOK(Block) /\ Block.fn = "block" /\ Owes(Block) = <<>>
  /\ FrameOK(Analyze) /\ Analyze.fn = "analyze" /\ Owes(Analyze) = <<>>
<1>1. ExpressionOK(Expression) /\ Expression.fn = "expression" /\ Expression.balance = 0
  <2>1. PICK none : none = <<>> /\ IsList(none)
    <3>1. <<>> \in Seq({})
      OBVIOUS
    <3>. QED
      BY <3>1, SeqIsList
  <2>2. Cardinality(Opens(none)) \in Nat
    BY <2>1, OpensFinite
  <2>3. Expression = [fn |-> "expression", out |-> none, held |-> none, balance |-> 0]
    BY <2>1, Zenon DEF Expression
  <2>. QED
    BY <2>1, <2>2, <2>3 DEF ExpressionOK
<1>2. BlockOK(Block) /\ Block.fn = "block"
  BY Calling DEF BlockOK, Block
<1>3. AnalyzeOK(Analyze) /\ Analyze.fn = "analyze"
  BY Calling DEF AnalyzeOK, Analyze
<1>4. Owes(Expression) = <<>>
  BY <1>1, OwesExpression
<1>5. Owes(Block) = <<>> /\ Owes(Analyze) = <<>>
  BY <1>2, <1>3, OwesOthers
<1>. QED
  BY <1>1, <1>2, <1>3, <1>4, <1>5 DEF FrameOK

\* Arguments up to their end.
LEMMA NewArguments ==
  ASSUME NEW type, NEW words, NEW end \in Closing, NEW g, g = Arguments(Node(type, words), end)
  PROVE  FrameOK(g) /\ g.fn = "arguments" /\ Owes(g) = <<end>>
<1>1. g = [fn |-> "arguments", node |-> Node(type, words), end |-> end, call |-> Waiting]
  BY DEF Arguments
<1>2. ArgumentsOK(g) /\ g.fn = "arguments" /\ g.end = end
  BY <1>1, Calling DEF ArgumentsOK, Node
<1>. QED
  BY <1>2, OwesOthers DEF FrameOK

\* A statement with a declaration of the tables owes nothing yet.
LEMMA NewStatement ==
  ASSUME NEW type, NEW words \in Seq(Token), words # <<>>,
         NEW decl \in {FuncDecl} \cup {KeywordDecl[k] : k \in Keywords},
         words[1] = StructKeyword => decl = KeywordDecl[StructKeyword],
         NEW g, g = Statement(Node(type, words), decl)
  PROVE  FrameOK(g) /\ g.fn = "statement" /\ Owes(g) = <<>>
<1>1. decl \in Seq(Parts) /\ Flat(decl) /\ Due(decl) = {}
  BY DeclAssumption
<1>2. words[1] = StructKeyword => \E i \in DOMAIN decl : decl[i] = "IDENTIFIER"
  BY DeclAssumption
<1>3. g = [fn |-> "statement", node |-> Node(type, words), parts |-> decl, call |-> Waiting]
  BY DEF Statement
<1>4. g.fn = "statement" /\ g.node = Node(type, words) /\ g.parts = decl /\ g.call = Waiting
  BY <1>3
<1>5. IsNode(Node(type, words)) /\ Node(type, words).words = words
  BY DEF IsNode, Node
<1>6. StatementOK(g)
  BY <1>1, <1>2, <1>3, <1>4, <1>5, Calling DEF StatementOK
<1>. QED
  BY <1>1, <1>4, <1>6, OwesOthers DEF FrameOK

\* A call returns to a frame that may make it.
LEMMA Called ==
  ASSUME NEW f, FrameOK(f), f.fn # "expression",
         f.fn = "statement" => f.parts # <<>> /\ Head(f.parts) \in Asking,
         NEW list, NEW g, g = [f EXCEPT !.call = [back |-> TRUE, list |-> list]]
  PROVE  FrameOK(g) /\ g.fn = f.fn /\ Owes(g) = Owes(f)
<1>1. PICK c : c = [back |-> TRUE, list |-> list] /\ IsCall(c) /\ c.back = TRUE
  BY Calling
<1>2. CASE ArgumentsOK(f)
  <2>1. g = [fn |-> "arguments", node |-> f.node, end |-> f.end, call |-> c]
    BY <1>1, <1>2 DEF ArgumentsOK
  <2>2. ArgumentsOK(g) /\ g.fn = f.fn /\ g.end = f.end /\ g.fn = "arguments"
    BY <1>1, <1>2, <2>1 DEF ArgumentsOK
  <2>3. Owes(g) = Owes(f)
    BY <2>2, OwesOthers
  <2>. QED
    BY <2>2, <2>3 DEF FrameOK
<1>3. CASE StatementOK(f)
  <2>1. g = [fn |-> "statement", node |-> f.node, parts |-> f.parts, call |-> c]
    BY <1>1, <1>3 DEF StatementOK
  <2>2. g.fn = "statement" /\ f.fn = "statement" /\ g.node = f.node /\ g.parts = f.parts /\ g.call = c
    BY <1>3, <2>1 DEF StatementOK
  <2>3. StatementOK(g)
    BY <1>1, <1>3, <2>1, <2>2 DEF StatementOK
  <2>4. Owes(g) = Owes(f)
    BY <2>2 DEF Owes
  <2>. QED
    BY <2>2, <2>3, <2>4 DEF FrameOK
<1>4. CASE BlockOK(f)
  <2>1. g = [fn |-> "block", first |-> f.first, root |-> f.root, call |-> c]
    BY <1>1, <1>4 DEF BlockOK
  <2>2. BlockOK(g) /\ g.fn = f.fn /\ g.fn = "block"
    BY <1>1, <1>4, <2>1 DEF BlockOK
  <2>3. Owes(g) = Owes(f)
    BY <2>2, OwesOthers
  <2>. QED
    BY <2>2, <2>3 DEF FrameOK
<1>5. CASE AnalyzeOK(f)
  <2>1. g = [fn |-> "analyze", root |-> f.root, call |-> c]
    BY <1>1, <1>5 DEF AnalyzeOK
  <2>2. AnalyzeOK(g) /\ g.fn = f.fn /\ g.fn = "analyze"
    BY <1>1, <1>5, <2>1 DEF AnalyzeOK
  <2>3. Owes(g) = Owes(f)
    BY <2>2, OwesOthers
  <2>. QED
    BY <2>2, <2>3 DEF FrameOK
<1>. QED
  BY <1>2, <1>3, <1>4, <1>5 DEF FrameOK, ExpressionOK

\* parser_analyze and a block take the statement that was returned.
LEMMA TakesRoot ==
  ASSUME NEW f, BlockOK(f) \/ AnalyzeOK(f), NEW list, NEW g,
         g = [f EXCEPT !.root = list, !.call = Waiting]
  PROVE  FrameOK(g) /\ g.fn = f.fn /\ Owes(g) = Owes(f)
<1>1. IsCall(Waiting)
  BY Calling
<1>2. CASE BlockOK(f)
  <2>1. g = [fn |-> "block", first |-> f.first, root |-> list, call |-> Waiting]
    BY <1>2 DEF BlockOK
  <2>2. BlockOK(g) /\ g.fn = f.fn /\ g.fn = "block"
    BY <1>1, <1>2, <2>1 DEF BlockOK
  <2>3. Owes(g) = Owes(f)
    BY <2>2, OwesOthers
  <2>. QED
    BY <2>2, <2>3 DEF FrameOK
<1>3. CASE AnalyzeOK(f)
  <2>1. g = [fn |-> "analyze", root |-> list, call |-> Waiting]
    BY <1>3 DEF AnalyzeOK
  <2>2. AnalyzeOK(g) /\ g.fn = f.fn /\ g.fn = "analyze"
    BY <1>1, <1>3, <2>1 DEF AnalyzeOK
  <2>3. Owes(g) = Owes(f)
    BY <2>2, OwesOthers
  <2>. QED
    BY <2>2, <2>3 DEF FrameOK
<1>. QED
  BY <1>2, <1>3

\* The arguments take one more, and a block its first statement.
LEMMA Takes ==
  ASSUME NEW f, NEW list
  PROVE  /\ \A g : /\ ArgumentsOK(f)
                 /\ g = [fn |-> "arguments", node |-> [f.node EXCEPT !.args = list],
                         end |-> f.end, call |-> Waiting]
                     => FrameOK(g) /\ g.fn = f.fn /\ Owes(g) = Owes(f)
         /\ \A g, b : BlockOK(f) /\ g = [f EXCEPT !.first = b, !.root = list, !.call = Waiting]
                     => FrameOK(g) /\ g.fn = f.fn /\ Owes(g) = Owes(f)
<1>1. IsCall(Waiting)
  BY Calling
<1>2. ASSUME ArgumentsOK(f), NEW g,
             g = [fn |-> "arguments", node |-> [f.node EXCEPT !.args = list],
                  end |-> f.end, call |-> Waiting]
      PROVE  FrameOK(g) /\ g.fn = f.fn /\ Owes(g) = Owes(f)
  <2>1. g = [fn |-> "arguments", node |-> [f.node EXCEPT !.args = list], end |-> f.end, call |-> Waiting]
    BY <1>2, Zenon
  <2>2. [f.node EXCEPT !.args = list]
          = [type |-> f.node.type, words |-> f.node.words, args |-> list, body |-> f.node.body]
    BY <1>2 DEF ArgumentsOK
  <2>3. ArgumentsOK(g) /\ g.fn = f.fn /\ g.end = f.end /\ g.fn = "arguments"
    BY <1>1, <1>2, <2>1, <2>2 DEF ArgumentsOK
  <2>4. Owes(g) = Owes(f)
    BY <2>3, OwesOthers
  <2>. QED
    BY <2>3, <2>4 DEF FrameOK
<1>3. ASSUME BlockOK(f), NEW b, NEW g,
             g = [f EXCEPT !.first = b, !.root = list, !.call = Waiting]
      PROVE  FrameOK(g) /\ g.fn = f.fn /\ Owes(g) = Owes(f)
  <2>1. g = [fn |-> "block", first |-> b, root |-> list, call |-> Waiting]
    BY <1>3 DEF BlockOK
  <2>2. BlockOK(g) /\ g.fn = f.fn /\ g.fn = "block"
    BY <1>1, <1>3, <2>1 DEF BlockOK
  <2>3. Owes(g) = Owes(f)
    BY <2>2, OwesOthers
  <2>. QED
    BY <2>2, <2>3 DEF FrameOK
<1>4. \A g : /\ ArgumentsOK(f)
            /\ g = [fn |-> "arguments", node |-> [f.node EXCEPT !.args = list],
                    end |-> f.end, call |-> Waiting]
               => FrameOK(g) /\ g.fn = f.fn /\ Owes(g) = Owes(f)
  BY <1>2, Zenon
<1>5. \A g, b : BlockOK(f) /\ g = [f EXCEPT !.first = b, !.root = list, !.call = Waiting]
               => FrameOK(g) /\ g.fn = f.fn /\ Owes(g) = Owes(f)
  BY <1>3, Zenon
<1>. QED
  BY <1>4, <1>5, Zenon

\* Arguments are records.
LEMMA ArgumentsRecord ==
  ASSUME NEW f, ArgumentsOK(f), NEW list, NEW g, g = [f EXCEPT !.node.args = list, !.call = Waiting]
  PROVE  g = [fn |-> "arguments", node |-> [f.node EXCEPT !.args = list],
              end |-> f.end, call |-> Waiting]
BY DEF ArgumentsOK

\* With the same parts or behind the first of them, which is kept if it is a name.
GoesOn(f, node, parts) ==
  \/ parts = f.parts /\ node.words = f.node.words
  \/ /\ f.parts # <<>> /\ parts = Tail(f.parts)
     /\ \/ node.words = f.node.words /\ Head(f.parts) # "IDENTIFIER"
        \/ \E name \in Names : node.words = Append(f.node.words, name)

IsStatement(g, node, parts, c) ==
  g = [fn |-> "statement", node |-> node, parts |-> parts, call |-> c]

Pending(c) == IsCall(c) /\ c.back = FALSE

\* A statement goes on.
LEMMA StatementGoes ==
  ASSUME NEW f, StatementOK(f), NEW node, IsNode(node), NEW parts, NEW c, Pending(c),
         GoesOn(f, node, parts), NEW g, IsStatement(g, node, parts, c)
  PROVE  FrameOK(g) /\ g.fn = "statement" /\ g.parts = parts
<1>0. \/ parts = f.parts /\ node.words = f.node.words
      \/ /\ f.parts # <<>> /\ parts = Tail(f.parts)
         /\ \/ node.words = f.node.words /\ Head(f.parts) # "IDENTIFIER"
            \/ \E name \in Names : node.words = Append(f.node.words, name)
  BY DEF GoesOn
<1>1. /\ g = [fn |-> "statement", node |-> node, parts |-> parts, call |-> c]
      /\ g.fn = "statement" /\ g.node = node /\ g.parts = parts /\ g.call = c
  BY DEF IsStatement
<1>2. parts \in Seq(Parts) /\ Flat(parts)
  <2>1. f.parts \in Seq(Parts) /\ Flat(f.parts)
    BY DEF StatementOK
  <2>. QED
    BY <1>0, <2>1, TailParts, FlatTail
<1>3. ASSUME node.words[1] = StructKeyword
      PROVE  Last(node.words) \in Names \/ \E i \in DOMAIN parts : parts[i] = "IDENTIFIER"
  <2>1. f.node.words \in Seq(Token) /\ f.node.words # <<>> /\ f.parts \in Seq(Parts)
    BY DEF StatementOK, IsNode
  <2>2. CASE \E name \in Names : node.words = Append(f.node.words, name)
    <3>1. PICK name \in Names : node.words = Append(f.node.words, name)
      BY <2>2
    <3>2. Last(node.words) = name
      <4>1. IsList(f.node.words)
        BY <2>1, SeqIsList
      <4>2. PICK more : /\ more = Append(f.node.words, name) /\ IsList(more)
                        /\ Len(more) = Len(f.node.words) + 1
                        /\ more[Len(f.node.words) + 1] = name
        <5>1. /\ IsList(Append(f.node.words, name))
              /\ Len(Append(f.node.words, name)) = Len(f.node.words) + 1
              /\ Append(f.node.words, name)[Len(f.node.words) + 1] = name
          BY <4>1, ListAppend
        <5>. QED
          BY <5>1, Zenon
      <4>. QED
        BY <3>1, <4>2, Zenon DEF Last
    <3>. QED
      BY <3>2
  <2>3. CASE node.words = f.node.words
    <3>1. Last(f.node.words) \in Names \/ \E i \in DOMAIN f.parts : f.parts[i] = "IDENTIFIER"
      BY <1>3, <2>3 DEF StatementOK
    <3>2. CASE parts = f.parts
      BY <2>3, <3>1, <3>2
    <3>3. CASE f.parts # <<>> /\ parts = Tail(f.parts) /\ Head(f.parts) # "IDENTIFIER"
      <4>1. ASSUME NEW i \in DOMAIN f.parts, f.parts[i] = "IDENTIFIER"
            PROVE  \E k \in DOMAIN parts : parts[k] = "IDENTIFIER"
        <5>1. i # 1
          BY <2>1, <3>3, <4>1, TailParts
        <5>2. i - 1 \in DOMAIN parts /\ parts[i - 1] = "IDENTIFIER"
          <6>1. /\ DOMAIN f.parts = 1 .. Len(f.parts) /\ Len(f.parts) \in Nat \ {0}
                /\ DOMAIN parts = 1 .. Len(f.parts) - 1
                /\ \A k \in 1 .. Len(f.parts) - 1 : parts[k] = f.parts[k + 1]
            BY <2>1, <3>3, TailParts
          <6>2. i - 1 \in 1 .. Len(f.parts) - 1 /\ (i - 1) + 1 = i
            BY <5>1, <6>1
          <6>. QED
            BY <4>1, <6>1, <6>2
        <5>. QED
          BY <5>2
      <4>. QED
        BY <2>3, <3>1, <4>1
    <3>4. CASE \E name \in Names : node.words = Append(f.node.words, name)
      BY <2>2, <3>4
    <3>. QED
      BY <1>0, <2>3, <3>2, <3>3, <3>4
  <2>. QED
    BY <1>0, <2>2, <2>3
<1>4. StatementOK(g)
  BY <1>1, <1>2, <1>3 DEF StatementOK, Pending
<1>. QED
  BY <1>1, <1>4 DEF FrameOK

\* What a statement owes behind its first part.
LEMMA PartsOwe ==
  ASSUME NEW f, StatementOK(f), f.parts # <<>>,
         NEW g, g.fn = "statement", g.parts = Tail(f.parts)
  PROVE  /\ Head(f.parts) \notin Bracket => Owes(g) = Owes(f)
         /\ Head(f.parts) \in Closing => Owes(f) = <<Head(f.parts)>> /\ Owes(g) = <<>>
         /\ Head(f.parts) \in Opening => Owes(f) = <<>> /\ Owes(g) = <<Closer[Head(f.parts)]>>
<1>1. f.fn = "statement" /\ f.parts \in Seq(Parts) /\ Flat(f.parts)
  BY DEF StatementOK
<1>2. /\ Head(f.parts) \notin Bracket => Due(g.parts) = Due(f.parts)
      /\ Head(f.parts) \in Closing => Due(f.parts) = {Head(f.parts)} /\ Due(g.parts) = {}
      /\ Head(f.parts) \in Opening => Due(f.parts) = {} /\ Due(g.parts) = {Closer[Head(f.parts)]}
  BY <1>1, DueTail
<1>3. Head(f.parts) \notin Bracket => Owes(g) = Owes(f)
  BY <1>1, <1>2 DEF Owes
<1>4. Head(f.parts) \in Closing => Owes(f) = <<Head(f.parts)>> /\ Owes(g) = <<>>
  BY <1>1, <1>2, OwesOthers
<1>5. Head(f.parts) \in Opening => Owes(f) = <<>> /\ Owes(g) = <<Closer[Head(f.parts)]>>
  BY <1>1, <1>2, OwesOthers
<1>. QED
  BY <1>3, <1>4, <1>5

-----------------------------------------------------------------------------
(* The steps.                                                              *)

\* What is owed behind the first tokens.
OwedAt(i) == Owed(<<>>, tokens)[i]

\* WordKinds leave it, an opening bracket adds its counterpart, and a closing bracket
\* takes itself away.
LEMMA Reads ==
  ASSUME Types, NEW i \in 1 .. Len(tokens)
  PROVE  /\ tokens[i] \notin Bracket => OwedAt(i) = OwedAt(i - 1)
         /\ tokens[i] \in Opening => OwedAt(i) = OwedAt(i - 1) \o <<Closer[tokens[i]]>>
         /\ \A d \in Seq(Closing) :
              tokens[i] \in Closing /\ OwedAt(i - 1) = d \o <<tokens[i]>> => OwedAt(i) = d
<1>1. PICK w, t : /\ w = OwedAt(i - 1) /\ t = tokens[i] /\ w \in Dues
                  /\ OwedAt(i) = OwedBehind(w, t)
  BY OwedNext DEF OwedAt
<1>2. t \notin Bracket => OwedBehind(w, t) = w
  BY DEF OwedBehind, Bracket
<1>3. t \in Opening => OwedBehind(w, t) = w \o <<Closer[t]>>
  <2>1. Closer[t] \in Closing \cup {"unmatched"} /\ w \in Seq(Closing \cup {"unmatched"}) => Append(w, Closer[t]) = w \o <<Closer[t]>>
    OBVIOUS
  <2>2. t \in Opening => Closer[t] \in Closing
    BY DEF Closer, Opening, Closing
  <2>. QED
    BY <1>1, <2>1, <2>2 DEF OwedBehind, Dues
<1>4. ASSUME NEW d \in Seq(Closing), t \in Closing, w = d \o <<t>>
      PROVE  OwedBehind(w, t) = d
  <2>1. w = Append(d, t)
    BY <1>4
  <2>2. /\ w \in Seq(Closing) /\ Len(w) = Len(d) + 1 /\ w[Len(d) + 1] = t /\ Len(d) \in Nat
        /\ \A k \in 1 .. Len(d) : w[k] = d[k]
    BY <1>4, <2>1, AppendProperties
  <2>3. w # <<>>
    BY <2>2
  <2>4. /\ Last(w) = t /\ Front(w) \in Seq(Closing) /\ Len(Front(w)) = Len(d)
        /\ \A k \in 1 .. Len(d) : Front(w)[k] = w[k]
    BY <2>2, <2>3, FrontLast
  <2>5. Front(w) = d
    BY <2>2, <2>4
  <2>6. t \notin Opening
    BY <1>4, WordKinds
  <2>. QED
    BY <1>4, <2>3, <2>4, <2>5, <2>6 DEF OwedBehind
<1>. QED
  BY <1>1, <1>2, <1>3, <1>4

\* The call on top.
LEMMA Running ==
  ASSUME ParserInv, status = "running"
  PROVE  /\ Types /\ StackOK(stack) /\ Len(stack) \in Nat \ {0} /\ stack # <<>>
         /\ Top = stack[Len(stack)] /\ FrameOK(Top)
         /\ pos \in 1 .. Len(tokens) /\ Len(tokens) \in Nat
         /\ OwedAt(pos - 1) = Debt(stack)
         /\ StackOK(Front(stack)) /\ Debt(Front(stack)) \in Seq(Closing)
         /\ Len(Front(stack)) = Len(stack) - 1
         /\ \A i \in 1 .. Len(stack) - 1 : Front(stack)[i] = stack[i]
         /\ Debt(stack) = Debt(Front(stack)) \o Owes(Top) /\ Debt(stack) \in Seq(Closing)
         /\ Owes(Top) \in Seq(Closing)
<1>1. Types /\ StackOK(stack) /\ IsList(stack)
  BY DEF ParserInv, StackOK
<1>2. stack # <<>> /\ Len(tokens) \in Nat
  BY <1>1, Listed DEF Types
<1>3. Len(stack) > 0 /\ Len(stack) \in Nat \ {0}
  <2>1. Len(stack) \in Nat /\ Len(stack) # 0
    BY <1>1, <1>2, ListEmpty DEF IsList
  <2>. QED
    BY <2>1
<1>4. /\ Top = stack[Len(stack)] /\ FrameOK(Top)
      /\ StackOK(Front(stack)) /\ Len(Front(stack)) = Len(stack) - 1
      /\ \A i \in 1 .. Len(stack) - 1 : Front(stack)[i] = stack[i]
      /\ Debt(stack) = Debt(Front(stack)) \o Owes(Top)
  BY <1>1, <1>3, Left DEF Top
<1>5. Debt(Front(stack)) \in Seq(Closing) /\ Debt(stack) \in Seq(Closing) /\ Owes(Top) \in Seq(Closing)
  BY <1>1, <1>4, DebtType, OwesType
<1>6. OwedAt(pos - 1) = Debt(stack)
  <2>1. DOMAIN stack = 1 .. Len(stack)
    <3>1. PICK V : stack \in Seq(V)
      BY <1>1, ListIsSeq
    <3>. QED
      BY <3>1
  <2>2. OwedAt(pos - 1) = FlattenSeq([i \in DOMAIN stack |-> Owes(stack[i])])
    BY DEF ParserInv, BracketsOwed, OwedAt
  <2>. QED
    BY <2>1, <2>2, Zenon DEF Debt
<1>7. pos \in 1 .. Len(tokens)
  BY <1>1, <1>2 DEF Types
<1>. QED
  BY <1>1, <1>2, <1>3, <1>4, <1>5, <1>6, <1>7

\* What has to be shown of a step that goes on, or ends in an error.
LEMMA Holds ==
  ASSUME ParserInv, status = "running", tokens' = tokens,
         pos' \in 1 .. Len(tokens), types' \subseteq Names, PrimitiveTypes \subseteq types',
         status' \in {"running", "exit", "nullderef"},
         StackOK(stack'), Len(stack') > 0,
         status' = "running" => OwedAt(pos' - 1) = Debt(stack')
  PROVE  ParserInv'
<1>1. IsList(stack') /\ Len(stack') \in Nat
  BY DEF StackOK, IsList
<1>2. stack' # <<>>
  BY <1>1, ListEmpty
<1>3. Types'
  <2>1. Types /\ Len(tokens) \in Nat
    BY Running
  <2>. QED
    BY <1>2, <2>1 DEF Types
<1>4. BracketsOwed'
  <2>1. DOMAIN stack' = 1 .. Len(stack')
    <3>1. PICK V : stack' \in Seq(V)
      BY <1>1, ListIsSeq
    <3>. QED
      BY <3>1
  <2>2. status' = "running" =>
          Owed(<<>>, tokens)[pos' - 1] = FlattenSeq([i \in DOMAIN stack' |-> Owes(stack'[i])])
    BY <2>1, Zenon DEF OwedAt, Debt
  <2>3. status' # "done"
    OBVIOUS
  <2>. QED
    BY <2>2, <2>3 DEF BracketsOwed
<1>. QED
  BY <1>3, <1>4 DEF ParserInv

\* The call on top goes on.
LEMMA Goes ==
  ASSUME ParserInv, status = "running", NEW g, FrameOK(g), g.fn = Top.fn, Become(g),
         tokens' = tokens, pos' \in 1 .. Len(tokens), types' = types, status' = status,
         OwedAt(pos' - 1) = Debt(Front(stack)) \o Owes(g)
  PROVE  ParserInv'
<1>1. StackOK(stack) /\ Len(stack) > 0
  BY Running
<1>2. PICK more : /\ more = Append(Front(stack), g) /\ StackOK(more) /\ more # <<>>
                  /\ Debt(more) = Debt(Front(stack)) \o Owes(g)
  BY <1>1, Replaced, Zenon DEF Top
<1>3. stack' = more /\ Len(more) > 0
  <2>1. IsList(more) /\ Len(more) \in Nat
    BY <1>2 DEF StackOK, IsList
  <2>. QED
    BY <1>2, <2>1, ListEmpty DEF Become
<1>4. types' \subseteq Names /\ PrimitiveTypes \subseteq types'
  BY DEF ParserInv, Types
<1>. QED
  BY <1>2, <1>3, <1>4, Holds

\* The call on top makes another one.
LEMMA Enters ==
  ASSUME ParserInv, status = "running", NEW f, FrameOK(f), MayCall(Top, f), Enter(f),
         tokens' = tokens, pos' \in 1 .. Len(tokens), types' = types, status' = status,
         OwedAt(pos' - 1) = Debt(stack) \o Owes(f)
  PROVE  ParserInv'
<1>1. StackOK(stack) /\ Len(stack) \in Nat \ {0} /\ Top = stack[Len(stack)]
  BY Running
<1>2. PICK more : /\ more = Append(stack, f) /\ StackOK(more)
                  /\ Debt(more) = Debt(stack) \o Owes(f) /\ Len(more) = Len(stack) + 1
  <2>1. StackOK(Append(stack, f)) /\ Debt(Append(stack, f)) = Debt(stack) \o Owes(f)
    BY <1>1, Entered
  <2>2. Len(Append(stack, f)) = Len(stack) + 1
    BY <1>1, ListAppend DEF StackOK
  <2>. QED
    BY <2>1, <2>2, Zenon
<1>3. stack' = more /\ Len(more) > 0
  BY <1>1, <1>2 DEF Enter
<1>4. types' \subseteq Names /\ PrimitiveTypes \subseteq types'
  BY DEF ParserInv, Types
<1>. QED
  BY <1>2, <1>3, <1>4, Holds

\* The parser ends in an error.
LEMMA Stops ==
  ASSUME ParserInv, status = "running", status' \in {"exit", "nullderef"}, stack' = stack,
         tokens' = tokens, pos' \in 1 .. Len(tokens), types' = types
  PROVE  ParserInv'
<1>1. StackOK(stack) /\ Len(stack) > 0
  BY Running
<1>2. types' \subseteq Names /\ PrimitiveTypes \subseteq types'
  BY DEF ParserInv, Types
<1>. QED
  BY <1>1, <1>2, Holds

\* Sequences behind each other.
LEMMA Joins ==
  ASSUME NEW V, NEW a \in Seq(V), NEW b \in Seq(V), NEW c \in Seq(V)
  PROVE  /\ a \o <<>> = a /\ a \o b \in Seq(V)
         /\ (a \o b) \o c = a \o (b \o c)
OBVIOUS

Word == Names \cup Numbers \cup Strings \cup Keywords \cup {",", ":", ";"}

\* One element more behind them.
LEMMA JoinsOne ==
  \A a, b \in Seq(Closing) : \A t \in Closing : (a \o b) \o <<t>> = a \o Append(b, t)
<1>1. ASSUME NEW V, NEW a \in Seq(V), NEW b \in Seq(V), NEW t \in V
      PROVE  (a \o b) \o <<t>> = a \o Append(b, t)
  OBVIOUS
<1>. QED
  BY <1>1

\* A word is read.
LEMMA ReadsWord ==
  ASSUME Types, NEW i \in 1 .. Len(tokens), tokens[i] \in Word
  PROVE  i + 1 \in 1 .. Len(tokens) /\ OwedAt((i + 1) - 1) = OwedAt(i - 1)
<1>1. tokens[i] \notin Bracket /\ tokens[i] # EndOfFile
  <2>1. {",", ":", ";"} \subseteq Punctuation
    BY DEF Punctuation
  <2>. QED
    BY <2>1, WordKinds, Kinds, Zenon DEF Bracket, Word
<1>2. i + 1 \in 1 .. Len(tokens)
  BY <1>1, Behind
<1>3. OwedAt(i) = OwedAt(i - 1)
  BY <1>1, Reads, Zenon
<1>4. (i + 1) - 1 = i
  OBVIOUS
<1>. QED
  BY <1>2, <1>3, <1>4, Zenon

\* A bracket is opened.
LEMMA ReadsOpening ==
  ASSUME Types, NEW i \in 1 .. Len(tokens), tokens[i] \in Opening
  PROVE  /\ i + 1 \in 1 .. Len(tokens)
         /\ OwedAt((i + 1) - 1) = OwedAt(i - 1) \o <<Closer[tokens[i]]>>
         /\ Closer[tokens[i]] \in Closing
<1>1. tokens[i] # EndOfFile
  BY WordKinds, Kinds
<1>2. i + 1 \in 1 .. Len(tokens)
  BY <1>1, Behind
<1>3. OwedAt(i) = OwedAt(i - 1) \o <<Closer[tokens[i]]>>
  BY Reads, Zenon
<1>4. Closer[tokens[i]] \in Closing
  BY DEF Closer, Opening, Closing
<1>5. (i + 1) - 1 = i
  OBVIOUS
<1>. QED
  BY <1>2, <1>3, <1>4, <1>5, Zenon

\* A bracket is closed.
LEMMA ReadsClosing ==
  ASSUME Types, NEW i \in 1 .. Len(tokens), tokens[i] \in Closing,
         NEW d \in Seq(Closing), OwedAt(i - 1) = d \o <<tokens[i]>>
  PROVE  i + 1 \in 1 .. Len(tokens) /\ OwedAt((i + 1) - 1) = d
<1>1. tokens[i] # EndOfFile
  BY WordKinds, Kinds
<1>2. i + 1 \in 1 .. Len(tokens)
  BY <1>1, Behind
<1>3. OwedAt(i) = d
  BY Reads, Zenon
<1>4. (i + 1) - 1 = i
  OBVIOUS
<1>. QED
  BY <1>2, <1>3, <1>4, Zenon

\* An operand is complete.
LEMMA ReadsOperand ==
  ASSUME ParserInv, In("expression"), NEW list, Become([Top EXCEPT !.out = list]),
         tokens' = tokens, types' = types, status' = status,
         pos' \in 1 .. Len(tokens), OwedAt(pos' - 1) = OwedAt(pos - 1)
  PROVE  ParserInv'
<1>1. status = "running" /\ ExpressionOK(Top)
  BY Running, FrameKinds DEF In
<1>2. PICK g : /\ g = [Top EXCEPT !.out = list]
               /\ FrameOK(g) /\ g.fn = Top.fn /\ Owes(g) = Owes(Top)
  <2>1. Top.fn = "expression"
    BY DEF In
  <2>2. \A g : g = [Top EXCEPT !.out = list] =>
          FrameOK(g) /\ g.fn = "expression" /\ Owes(g) = Owes(Top)
    BY <1>1, ExpressionOut, Zenon
  <2>. QED
    BY <2>1, <2>2, Zenon
<1>3. OwedAt(pos' - 1) = Debt(Front(stack)) \o Owes(g)
  BY <1>1, <1>2, Running
<1>4. Become(g)
  BY <1>2, Zenon
<1>. QED
  BY <1>1, <1>2, <1>3, <1>4, Goes, Zenon

\* ReadConstant.
LEMMA ReadConstantHolds ==
  ASSUME ParserInv, ReadConstant PROVE ParserInv'
<1>1. status = "running" /\ In("expression") /\ pos' = pos + 1
  BY DEF ReadConstant, In, Advance
<1>2. pos + 1 \in 1 .. Len(tokens) /\ OwedAt((pos + 1) - 1) = OwedAt(pos - 1)
  BY <1>1, Running, ReadsWord DEF ReadConstant, Current, Word
<1>3. \E list : Become([Top EXCEPT !.out = list])
  BY Zenon DEF ReadConstant
<1>4. tokens' = tokens /\ types' = types /\ status' = status
  BY DEF ReadConstant
<1>. QED
  BY <1>1, <1>2, <1>3, <1>4, ReadsOperand

\* ReadIdentifier.
LEMMA ReadIdentifierHolds ==
  ASSUME ParserInv, ReadIdentifier PROVE ParserInv'
<1>1. status = "running" /\ In("expression") /\ pos' = pos + 1
  BY DEF ReadIdentifier, In, Advance
<1>2. pos + 1 \in 1 .. Len(tokens) /\ OwedAt((pos + 1) - 1) = OwedAt(pos - 1)
  BY <1>1, Running, ReadsWord DEF ReadIdentifier, Current, Word
<1>3. \E list : Become([Top EXCEPT !.out = list])
  BY Zenon DEF ReadIdentifier
<1>4. tokens' = tokens /\ types' = types /\ status' = status
  BY DEF ReadIdentifier
<1>. QED
  BY <1>1, <1>2, <1>3, <1>4, ReadsOperand

\* A type and a name are read.
LEMMA ReadsNames ==
  ASSUME ParserInv, Declares
  PROVE  /\ status = "running" /\ In("expression") /\ Types /\ pos \in Nat
         /\ pos + 2 \in 1 .. Len(tokens)
         /\ OwedAt((pos + 2) - 1) = OwedAt(pos - 1)
<1>1. status = "running" /\ In("expression") /\ tokens[pos] \in Names /\ tokens[pos + 1] \in Names
  BY DEF Declares, In, Current, Following
<1>2. pos \in 1 .. Len(tokens) /\ Types /\ Len(tokens) \in Nat
  BY <1>1, Running
<1>3. pos + 1 \in 1 .. Len(tokens) /\ OwedAt((pos + 1) - 1) = OwedAt(pos - 1)
  BY <1>1, <1>2, ReadsWord DEF Word
<1>4. (pos + 1) + 1 \in 1 .. Len(tokens) /\ OwedAt(((pos + 1) + 1) - 1) = OwedAt((pos + 1) - 1)
  BY <1>1, <1>2, <1>3, ReadsWord DEF Word
<1>5. (pos + 1) + 1 = pos + 2
  BY <1>2
<1>6. pos \in Nat
  BY <1>2
<1>. QED
  BY <1>1, <1>2, <1>3, <1>4, <1>5, <1>6, Zenon

\* UnknownType.
LEMMA UnknownTypeHolds ==
  ASSUME ParserInv, UnknownType PROVE ParserInv'
<1>1. pos' = pos + 2 /\ status' = "exit" /\ UNCHANGED <<tokens, stack, types>>
  BY DEF UnknownType, Advance
<1>2. status = "running" /\ pos + 2 \in 1 .. Len(tokens)
  BY ReadsNames DEF UnknownType
<1>. QED
  BY <1>1, <1>2, Stops

\* ReadVariable.
LEMMA ReadVariableHolds ==
  ASSUME ParserInv, ReadVariable PROVE ParserInv'
<1>1. pos' = pos + 2 /\ tokens' = tokens /\ types' = types /\ status' = status
  BY DEF ReadVariable, Advance
<1>2. /\ In("expression") /\ pos + 2 \in 1 .. Len(tokens)
      /\ OwedAt((pos + 2) - 1) = OwedAt(pos - 1)
  BY ReadsNames DEF ReadVariable
<1>3. \E list : Become([Top EXCEPT !.out = list])
  BY Zenon DEF ReadVariable
<1>. QED
  BY <1>1, <1>2, <1>3, ReadsOperand

\* ReadArrayVariable: the brackets around the length are read at once.
LEMMA ReadArrayVariableHolds ==
  ASSUME ParserInv, ReadArrayVariable PROVE ParserInv'
<1>1. tokens' = tokens /\ types' = types /\ tokens[pos + 2] = "["
  BY DEF ReadArrayVariable, Following
<1>2. /\ status = "running" /\ In("expression") /\ Types /\ pos \in Nat
      /\ pos + 2 \in 1 .. Len(tokens) /\ OwedAt((pos + 2) - 1) = OwedAt(pos - 1)
  BY ReadsNames DEF ReadArrayVariable
<1>3. PICK d \in Seq(Closing) : d = OwedAt(pos - 1)
  BY <1>2, Running
<1>4. pos + 3 \in 1 .. Len(tokens) /\ OwedAt((pos + 3) - 1) = d \o <<"]">>
  <2>1. "[" \in Opening /\ Closer["["] = "]"
    BY DEF Opening, Closer
  <2>2. /\ (pos + 2) + 1 \in 1 .. Len(tokens)
        /\ OwedAt(((pos + 2) + 1) - 1) = OwedAt((pos + 2) - 1) \o <<Closer["["]>>
    BY <1>1, <1>2, <2>1, ReadsOpening
  <2>3. (pos + 2) + 1 = pos + 3
    BY <1>2
  <2>. QED
    BY <1>2, <1>3, <2>1, <2>2, <2>3
<1>5. CASE tokens[pos + 3] \in Numbers
  <2>1. pos + 4 \in 1 .. Len(tokens) /\ OwedAt((pos + 4) - 1) = d \o <<"]">>
    <3>1. /\ (pos + 3) + 1 \in 1 .. Len(tokens)
          /\ OwedAt(((pos + 3) + 1) - 1) = OwedAt((pos + 3) - 1)
      BY <1>2, <1>4, <1>5, ReadsWord DEF Word
    <3>2. (pos + 3) + 1 = pos + 4
      BY <1>2
    <3>. QED
      BY <1>4, <3>1, <3>2
  <2>2. CASE tokens[pos + 4] = "]"
    <3>1. pos + 5 \in 1 .. Len(tokens) /\ OwedAt((pos + 5) - 1) = d
      <4>1. "]" \in Closing
        BY DEF Closing
      <4>2. (pos + 4) + 1 \in 1 .. Len(tokens) /\ OwedAt(((pos + 4) + 1) - 1) = d
        BY <1>2, <2>1, <2>2, <4>1, ReadsClosing
      <4>3. (pos + 4) + 1 = pos + 5
        BY <1>2
      <4>. QED
        BY <4>2, <4>3
    <3>2. pos' = pos + 5 /\ status' = status /\ \E list : Become([Top EXCEPT !.out = list])
      BY <1>5, <2>2, Zenon DEF ReadArrayVariable, Following, Advance
    <3>. QED
      BY <1>1, <1>2, <1>3, <3>1, <3>2, ReadsOperand
  <2>3. CASE tokens[pos + 4] # "]"
    <3>1. pos' = pos + 4 /\ status' = "exit" /\ stack' = stack
      BY <1>5, <2>3 DEF ReadArrayVariable, Following, Advance
    <3>. QED
      BY <1>1, <1>2, <2>1, <3>1, Stops
  <2>. QED
    BY <2>2, <2>3
<1>6. CASE tokens[pos + 3] \notin Numbers
  <2>1. pos' = pos + 3 /\ status' = "exit" /\ stack' = stack
    BY <1>6 DEF ReadArrayVariable, Following, Advance
  <2>. QED
    BY <1>1, <1>2, <1>4, <2>1, Stops
<1>. QED
  BY <1>5, <1>6

\* An expression calls parse_arguments or parse_stmt_declaration.
LEMMA ExpressionCalls ==
  ASSUME ParserInv, In("expression"), NEW f, FrameOK(f), f.fn \in {"arguments", "statement"},
         Enter(f), tokens' = tokens, types' = types, status' = status,
         pos' \in 1 .. Len(tokens), OwedAt(pos' - 1) = OwedAt(pos - 1) \o Owes(f)
  PROVE  ParserInv'
<1>1. status = "running" /\ Top.fn = "expression"
  BY DEF In
<1>2. MayCall(Top, f)
  BY <1>1 DEF MayCall
<1>3. OwedAt(pos - 1) = Debt(stack)
  BY <1>1, Running
<1>. QED
  BY <1>1, <1>2, <1>3, Enters

\* The same with arguments whose opening bracket is at i.
LEMMA ReadsArguments ==
  ASSUME ParserInv, In("expression"), NEW type, NEW words, NEW end,
         Enter(Arguments(Node(type, words), end)),
         tokens' = tokens, types' = types, status' = status,
         NEW i \in 1 .. Len(tokens), tokens[i] \in Opening, Closer[tokens[i]] = end,
         OwedAt(i - 1) = OwedAt(pos - 1), pos' = i + 1
  PROVE  ParserInv'
<1>1. /\ i + 1 \in 1 .. Len(tokens) /\ OwedAt((i + 1) - 1) = OwedAt(pos - 1) \o <<end>>
      /\ end \in Closing
  <2>1. Types
    BY DEF ParserInv
  <2>2. /\ i + 1 \in 1 .. Len(tokens)
        /\ OwedAt((i + 1) - 1) = OwedAt(i - 1) \o <<Closer[tokens[i]]>>
        /\ Closer[tokens[i]] \in Closing
    BY <2>1, ReadsOpening
  <2>. QED
    BY <2>2, Zenon
<1>2. PICK f : /\ f = Arguments(Node(type, words), end)
               /\ FrameOK(f) /\ f.fn = "arguments" /\ Owes(f) = <<end>>
  <2>1. PICK f : f = Arguments(Node(type, words), end)
    OBVIOUS
  <2>2. end \in Closing
    BY <1>1
  <2>3. FrameOK(f) /\ f.fn = "arguments" /\ Owes(f) = <<end>>
    BY <2>1, <2>2, NewArguments
  <2>. QED
    BY <2>1, <2>3, Zenon
<1>3. Enter(f)
  BY <1>2, Zenon
<1>4. f.fn \in {"arguments", "statement"}
  BY <1>2
<1>5. pos' \in 1 .. Len(tokens) /\ OwedAt(pos' - 1) = OwedAt(pos - 1) \o Owes(f)
  BY <1>1, <1>2, Zenon
<1>. QED
  BY <1>2, <1>3, <1>4, <1>5, ExpressionCalls, Zenon

\* The brackets that open arguments.
LEMMA ArgumentBrackets ==
  /\ "(" \in Opening /\ Closer["("] = ")"
  /\ "[" \in Opening /\ Closer["["] = "]"
  /\ "{" \in Opening /\ Closer["{"] = "}"
BY DEF Opening, Closer

\* ReadCall.
LEMMA ReadCallHolds ==
  ASSUME ParserInv, ReadCall PROVE ParserInv'
<1>1. /\ In("expression") /\ status = "running" /\ tokens[pos] \in Word
      /\ tokens' = tokens /\ types' = types /\ status' = status /\ pos' = pos + 2
  BY DEF ReadCall, In, Current, Advance, Word
<1>2. Types /\ pos \in 1 .. Len(tokens) /\ Len(tokens) \in Nat
  BY <1>1, Running
<1>3. pos + 1 \in 1 .. Len(tokens) /\ OwedAt((pos + 1) - 1) = OwedAt(pos - 1)
  BY <1>1, <1>2, ReadsWord
<1>4. pos' = (pos + 1) + 1
  BY <1>1, <1>2
<1>5. \/ /\ tokens[pos + 1] = "("
         /\ Enter(Arguments(Node("FUNCTION_CALL", <<Current>>), ")"))
      \/ /\ tokens[pos + 1] = "["
         /\ Enter(Arguments(Node("ARRAY_ACCESS", <<Current>>), "]"))
  BY Zenon DEF ReadCall, Following
<1>6. \E type, words, end : /\ Enter(Arguments(Node(type, words), end))
                            /\ tokens[pos + 1] \in Opening /\ Closer[tokens[pos + 1]] = end
  BY <1>5, ArgumentBrackets, Zenon
<1>. QED
  BY <1>1, <1>3, <1>4, <1>6, ReadsArguments, Zenon

\* ReadObject.
LEMMA ReadObjectHolds ==
  ASSUME ParserInv, ReadObject PROVE ParserInv'
<1>0. pos' = pos + 3
  BY DEF ReadObject, Advance
<1>1. /\ Declares /\ tokens' = tokens /\ types' = types /\ status' = status
      /\ tokens[pos + 2] = "{"
  BY DEF ReadObject, Following
<1>2. /\ In("expression") /\ pos + 2 \in 1 .. Len(tokens)
      /\ OwedAt((pos + 2) - 1) = OwedAt(pos - 1) /\ pos \in Nat
  BY <1>1, ReadsNames
<1>3. pos' = (pos + 2) + 1
  BY <1>0, <1>2
<1>4. \E type, words : Enter(Arguments(Node(type, words), "}"))
  BY Zenon DEF ReadObject
<1>5. tokens[pos + 2] \in Opening /\ Closer[tokens[pos + 2]] = "}"
  BY <1>1, ArgumentBrackets
<1>. QED
  BY <1>1, <1>2, <1>3, <1>4, <1>5, ReadsArguments, Zenon

\* ReadArray.
LEMMA ReadArrayHolds ==
  ASSUME ParserInv, ReadArray PROVE ParserInv'
<1>1. /\ In("expression") /\ status = "running" /\ tokens[pos] = "["
      /\ tokens' = tokens /\ types' = types /\ status' = status /\ pos' = pos + 1
  BY DEF ReadArray, In, Current, Advance
<1>2. pos \in 1 .. Len(tokens)
  BY <1>1, Running
<1>3. \E type, words : Enter(Arguments(Node(type, words), "]"))
  BY Zenon DEF ReadArray
<1>4. tokens[pos] \in Opening /\ Closer[tokens[pos]] = "]"
  BY <1>1, ArgumentBrackets
<1>. QED
  BY <1>1, <1>2, <1>3, <1>4, ReadsArguments, Zenon

\* The same with a statement, whose first tokens are words.
LEMMA ReadsStatement ==
  ASSUME ParserInv, In("expression"), NEW type, NEW words \in Seq(Token), words # <<>>,
         NEW decl \in {FuncDecl} \cup {KeywordDecl[k] : k \in Keywords},
         words[1] = StructKeyword => decl = KeywordDecl[StructKeyword],
         Enter(Statement(Node(type, words), decl)),
         tokens' = tokens, types' = types, status' = status,
         pos' \in 1 .. Len(tokens), OwedAt(pos' - 1) = OwedAt(pos - 1)
  PROVE  ParserInv'
<1>1. PICK f : /\ f = Statement(Node(type, words), decl)
               /\ FrameOK(f) /\ f.fn = "statement" /\ Owes(f) = <<>>
  <2>1. \A g : g = Statement(Node(type, words), decl) =>
           FrameOK(g) /\ g.fn = "statement" /\ Owes(g) = <<>>
    BY NewStatement, Zenon
  <2>. QED
    BY <2>1, Zenon
<1>2. Enter(f)
  BY <1>1, Zenon
<1>3. f.fn \in {"arguments", "statement"}
  BY <1>1
<1>4. OwedAt(pos - 1) \o <<>> = OwedAt(pos - 1)
  <2>1. OwedAt(pos - 1) \in Seq(Closing)
    BY Running DEF In
  <2>. QED
    BY <2>1
<1>5. OwedAt(pos' - 1) = OwedAt(pos - 1) \o Owes(f)
  BY <1>1, <1>4, Zenon
<1>. QED
  BY <1>1, <1>2, <1>3, <1>5, ExpressionCalls, Zenon

\* ReadFunction.
LEMMA ReadFunctionHolds ==
  ASSUME ParserInv, ReadFunction PROVE ParserInv'
<1>1. /\ Declares /\ tokens' = tokens /\ types' = types /\ status' = status /\ pos' = pos + 2
      /\ Enter(Statement(Node("DECL_FUNCTION", <<Current, Following(1)>>), FuncDecl))
  BY Zenon DEF ReadFunction, Advance
<1>2. /\ In("expression") /\ pos + 2 \in 1 .. Len(tokens)
      /\ OwedAt((pos + 2) - 1) = OwedAt(pos - 1) /\ pos \in Nat
  BY <1>1, ReadsNames
<1>3. Current \in Names /\ Following(1) \in Names /\ Names \subseteq Token
  BY <1>1 DEF Declares, Token
<1>4. PICK words : /\ words = <<Current, Following(1)>> /\ words \in Seq(Token) /\ words # <<>>
                   /\ words[1] \in Names
  <2>1. \A a, b \in Token : <<a, b>> \in Seq(Token) /\ <<a, b>> # <<>> /\ <<a, b>>[1] = a
    OBVIOUS
  <2>2. Current \in Token /\ Following(1) \in Token
    BY <1>3
  <2>. QED
    BY <1>3, <2>1, <2>2, Zenon
<1>5. words[1] # StructKeyword
  BY <1>4, TokensAssumption
<1>6. /\ Enter(Statement(Node("DECL_FUNCTION", words), FuncDecl))
      /\ FuncDecl \in {FuncDecl} \cup {KeywordDecl[k] : k \in Keywords}
      /\ pos' \in 1 .. Len(tokens) /\ OwedAt(pos' - 1) = OwedAt(pos - 1)
  BY <1>1, <1>2, <1>4, Zenon
<1>. QED
  BY <1>1, <1>2, <1>4, <1>5, <1>6, ReadsStatement, Zenon

\* ReadKeyword.
LEMMA ReadKeywordHolds ==
  ASSUME ParserInv, ReadKeyword PROVE ParserInv'
<1>1. /\ In("expression") /\ status = "running" /\ tokens[pos] \in Keywords
      /\ tokens' = tokens /\ types' = types /\ status' = status /\ pos' = pos + 1
      /\ Enter(Statement(Node("KEYWORD", <<Current>>), KeywordDecl[Current]))
  BY Zenon DEF ReadKeyword, In, Current, Advance
<1>2. Types /\ pos \in 1 .. Len(tokens) /\ Len(tokens) \in Nat
  BY <1>1, Running
<1>3. pos + 1 \in 1 .. Len(tokens) /\ OwedAt((pos + 1) - 1) = OwedAt(pos - 1)
  BY <1>1, <1>2, ReadsWord DEF Word
<1>4. Current \in Keywords /\ Keywords \subseteq Token
  BY <1>1 DEF Current, Token
<1>5. PICK words : /\ words = <<Current>> /\ words \in Seq(Token) /\ words # <<>>
                   /\ words[1] = Current
  <2>1. \A a \in Token : <<a>> \in Seq(Token) /\ <<a>> # <<>> /\ <<a>>[1] = a
    OBVIOUS
  <2>2. Current \in Token
    BY <1>4
  <2>. QED
    BY <2>1, <2>2, Zenon
<1>6. /\ Enter(Statement(Node("KEYWORD", words), KeywordDecl[Current]))
      /\ KeywordDecl[Current] \in {FuncDecl} \cup {KeywordDecl[k] : k \in Keywords}
      /\ words[1] = StructKeyword => KeywordDecl[Current] = KeywordDecl[StructKeyword]
      /\ pos' \in 1 .. Len(tokens) /\ OwedAt(pos' - 1) = OwedAt(pos - 1)
  BY <1>1, <1>3, <1>4, <1>5, Zenon
<1>. QED
  BY <1>1, <1>5, <1>6, ReadsStatement, Zenon

\* ReadOpen.
LEMMA ReadOpenHolds ==
  ASSUME ParserInv, ReadOpen PROVE ParserInv'
<1>1. /\ status = "running" /\ Top.fn = "expression" /\ tokens[pos] = "("
      /\ tokens' = tokens /\ types' = types /\ status' = status /\ pos' = pos + 1
  BY DEF ReadOpen, In, Current, Advance
<1>2. PICK g : g = [Top EXCEPT !.balance = Top.balance + 1, !.held = Append(Top.held, Open)]
  OBVIOUS
<1>3. ExpressionOK(Top)
  BY <1>1, Running, FrameKinds
<1>4. FrameOK(g) /\ g.fn = "expression" /\ Owes(g) = Append(Owes(Top), ")")
  BY <1>2, <1>3, ExpressionOpens, Zenon
<1>5. Become(g)
  BY <1>2, Zenon DEF ReadOpen
<1>6. pos + 1 \in 1 .. Len(tokens) /\ OwedAt((pos + 1) - 1) = OwedAt(pos - 1) \o <<")">>
  BY <1>1, Running, ReadsOpening, ArgumentBrackets, Zenon
<1>7. OwedAt(pos - 1) \o <<")">> = Debt(Front(stack)) \o Owes(g)
  <2>1. PICK d, o : /\ d = Debt(Front(stack)) /\ d \in Seq(Closing)
                    /\ o = Owes(Top) /\ o \in Seq(Closing) /\ OwedAt(pos - 1) = d \o o
    BY <1>1, Running
  <2>2. (d \o o) \o <<")">> = d \o Append(o, ")")
    <3>1. \A t \in Closing : (d \o o) \o <<t>> = d \o Append(o, t)
      BY <2>1
    <3>2. ")" \in Closing
      BY DEF Closing
    <3>. QED
      BY <3>1, <3>2
  <2>. QED
    BY <1>4, <2>1, <2>2, Zenon
<1>8. pos' \in 1 .. Len(tokens) /\ OwedAt(pos' - 1) = Debt(Front(stack)) \o Owes(g)
  BY <1>1, <1>6, <1>7, Zenon
<1>9. g.fn = Top.fn
  BY <1>1, <1>4
<1>. QED
  BY <1>1, <1>4, <1>5, <1>8, <1>9, Goes, Zenon

\* ReadClose.
LEMMA ReadCloseHolds ==
  ASSUME ParserInv, ReadClose PROVE ParserInv'
<1>1. /\ status = "running" /\ Top.fn = "expression" /\ tokens[pos] = ")" /\ Top.balance > 0
      /\ tokens' = tokens /\ types' = types /\ status' = status /\ pos' = pos + 1
  BY DEF ReadClose, In, Current, Advance
<1>2. PICK g : g = [Top EXCEPT !.balance = Top.balance - 1, !.held = Front(Top.held)]
  OBVIOUS
<1>3. ExpressionOK(Top)
  BY <1>1, Running, FrameKinds
<1>4. FrameOK(g) /\ g.fn = "expression" /\ Owes(Top) = Append(Owes(g), ")")
  BY <1>1, <1>2, <1>3, ExpressionCloses, Zenon
<1>5. Become(g)
  BY <1>2, Zenon DEF ReadClose
<1>6. PICK d, o : /\ d = Debt(Front(stack)) /\ d \in Seq(Closing)
                  /\ o = Owes(g) /\ o \in Seq(Closing) /\ d \o o \in Seq(Closing)
                  /\ OwedAt(pos - 1) = d \o Owes(Top)
  <2>1. Owes(g) \in Seq(Closing)
    BY <1>4, OwesType
  <2>2. Debt(Front(stack)) \in Seq(Closing) /\ OwedAt(pos - 1) = Debt(Front(stack)) \o Owes(Top)
    BY <1>1, Running
  <2>3. Debt(Front(stack)) \o Owes(g) \in Seq(Closing)
    BY <2>1, <2>2
  <2>. QED
    BY <2>1, <2>2, <2>3, Zenon
<1>7. OwedAt(pos - 1) = (d \o o) \o <<")">>
  <2>1. \A t \in Closing : (d \o o) \o <<t>> = d \o Append(o, t)
    <3>1. d \in Seq(Closing) /\ o \in Seq(Closing)
      BY <1>6
    <3>. QED
      BY <3>1, JoinsOne, Zenon
  <2>2. ")" \in Closing
    BY DEF Closing
  <2>3. (d \o o) \o <<")">> = d \o Append(o, ")")
    BY <2>1, <2>2, Zenon
  <2>4. Owes(Top) = Append(o, ")")
    BY <1>4, <1>6, Zenon
  <2>5. OwedAt(pos - 1) = d \o Append(o, ")")
    BY <1>6, <2>4, Zenon
  <2>. QED
    BY <2>3, <2>5, Zenon
<1>8. pos' \in 1 .. Len(tokens) /\ OwedAt(pos' - 1) = d \o o
  <2>1. ")" \in Closing
    BY DEF Closing
  <2>. QED
    BY <1>1, <1>6, <1>7, <2>1, Running, ReadsClosing, Zenon
<1>9. g.fn = Top.fn
  BY <1>1, <1>4
<1>. QED
  BY <1>1, <1>4, <1>5, <1>6, <1>8, <1>9, Goes, Zenon

\* The caller.
LEMMA Below ==
  ASSUME ParserInv, status = "running", Top.fn # "analyze"
  PROVE  /\ StackOK(Front(stack)) /\ Len(Front(stack)) > 0
         /\ FrameOK(Last(Front(stack))) /\ MayCall(Last(Front(stack)), Top)
         /\ Debt(Front(stack)) = Debt(Front(Front(stack))) \o Owes(Last(Front(stack)))
<1>1. /\ StackOK(stack) /\ Len(stack) \in Nat \ {0} /\ Top = stack[Len(stack)]
      /\ StackOK(Front(stack)) /\ Len(Front(stack)) = Len(stack) - 1
      /\ \A i \in 1 .. Len(stack) - 1 : Front(stack)[i] = stack[i]
  BY Running
<1>2. Len(stack) # 1
  BY <1>1 DEF StackOK
<1>3. Len(Front(stack)) > 0
  BY <1>1, <1>2
<1>4. /\ Last(Front(stack)) = Front(stack)[Len(Front(stack))] /\ FrameOK(Last(Front(stack)))
      /\ Debt(Front(stack)) = Debt(Front(Front(stack))) \o Owes(Last(Front(stack)))
  BY <1>1, <1>3, Left
<1>5. Last(Front(stack)) = stack[Len(stack) - 1]
  BY <1>1, <1>3, <1>4
<1>6. MayCall(stack[Len(stack) - 1], stack[Len(stack)])
  BY <1>1, <1>2 DEF StackOK
<1>. QED
  BY <1>1, <1>3, <1>4, <1>5, <1>6

\* A return, or an error of the caller.
LEMMA Returns ==
  ASSUME ParserInv, status = "running", Top.fn # "analyze",
         NEW g, FrameOK(g), g.fn = Last(Front(stack)).fn, Owes(g) = Owes(Last(Front(stack))),
         stack' = Append(Front(Front(stack)), g),
         tokens' = tokens, pos' \in 1 .. Len(tokens),
         types' \subseteq Names, PrimitiveTypes \subseteq types', status' \in {"running", "exit"},
         OwedAt(pos' - 1) = Debt(Front(stack))
  PROVE  ParserInv'
<1>1. PICK less : /\ less = Front(stack) /\ StackOK(less) /\ Len(less) > 0
                  /\ Debt(less) = Debt(Front(less)) \o Owes(Last(less))
  BY Below, Zenon
<1>2. PICK more : /\ more = Append(Front(less), g) /\ StackOK(more) /\ more # <<>>
                  /\ Debt(more) = Debt(Front(less)) \o Owes(g)
  BY <1>1, Replaced, Zenon
<1>3. stack' = more /\ Debt(more) = Debt(less)
  BY <1>1, <1>2, Zenon
<1>4. Len(more) > 0
  <2>1. IsList(more) /\ Len(more) \in Nat
    BY <1>2 DEF StackOK, IsList
  <2>. QED
    BY <1>2, <2>1, ListEmpty
<1>5. status' \in {"running", "exit", "nullderef"}
  OBVIOUS
<1>. QED
  BY <1>1, <1>2, <1>3, <1>4, <1>5, Holds, Zenon

\* A list is returned by an expression without open parentheses, or by a block.
LEMMA ReturnsList ==
  ASSUME ParserInv, status = "running", Top.fn \in {"expression", "block"}, Owes(Top) = <<>>,
         NEW list, ReturnList(list),
         tokens' = tokens, pos' \in 1 .. Len(tokens), types' = types, status' = status,
         OwedAt(pos' - 1) = OwedAt(pos - 1)
  PROVE  ParserInv'
<1>1. PICK caller : /\ caller = Last(Front(stack)) /\ FrameOK(caller) /\ MayCall(caller, Top)
  BY Below
<1>2. PICK g : g = [caller EXCEPT !.call = [back |-> TRUE, list |-> list]]
  OBVIOUS
<1>3. stack' = Append(Front(Front(stack)), g)
  BY <1>1, <1>2, Zenon DEF ReturnList
<1>4. /\ caller.fn # "expression"
      /\ caller.fn = "statement" => caller.parts # <<>> /\ Head(caller.parts) \in Asking
  BY <1>1 DEF MayCall
<1>5. FrameOK(g) /\ g.fn = caller.fn /\ Owes(g) = Owes(caller)
  BY <1>1, <1>2, <1>4, Called, Zenon
<1>6. OwedAt(pos' - 1) = Debt(Front(stack))
  <2>1. Debt(Front(stack)) \in Seq(Closing) /\ OwedAt(pos - 1) = Debt(Front(stack)) \o <<>>
    BY Running
  <2>. QED
    BY <2>1
<1>7. types' \subseteq Names /\ PrimitiveTypes \subseteq types' /\ status' \in {"running", "exit"}
  BY DEF ParserInv, Types
<1>8. Top.fn # "analyze"
  OBVIOUS
<1>. QED
  BY <1>1, <1>3, <1>5, <1>6, <1>7, <1>8, Returns, Zenon

\* ExpressionEnds.
LEMMA ExpressionEndsHolds ==
  ASSUME ParserInv, ExpressionEnds PROVE ParserInv'
<1>1. /\ status = "running" /\ Top.fn = "expression"
      /\ tokens' = tokens /\ types' = types
  BY DEF ExpressionEnds, In
<1>2. pos' \in 1 .. Len(tokens) /\ OwedAt(pos' - 1) = OwedAt(pos - 1)
  <2>1. Types /\ pos \in 1 .. Len(tokens) /\ Len(tokens) \in Nat
    BY <1>1, Running
  <2>2. (tokens[pos] = ";" /\ pos' = pos + 1) \/ pos' = pos + 0
    BY Zenon DEF ExpressionEnds, Current, Advance
  <2>3. CASE tokens[pos] = ";" /\ pos' = pos + 1
    <3>1. tokens[pos] \in Word
      BY <2>3, Zenon DEF Word
    <3>. QED
      BY <2>1, <2>3, <3>1, ReadsWord, Zenon
  <2>4. CASE pos' = pos + 0
    BY <2>1, <2>4
  <2>. QED
    BY <2>2, <2>3, <2>4
<1>3. ExpressionOK(Top)
  BY <1>1, Running, FrameKinds
<1>4. CASE Contains(Top.held, Open)
  <2>1. status' = "nullderef" /\ stack' = stack
    BY <1>4 DEF ExpressionEnds
  <2>. QED
    BY <1>1, <1>2, <2>1, Stops
<1>5. CASE ~Contains(Top.held, Open)
  <2>1. status' = status /\ \E list : ReturnList(list)
    BY <1>5, Zenon DEF ExpressionEnds
  <2>2. Top.balance = 0
    <3>1. Top.balance \in Nat
      BY <1>3 DEF ExpressionOK
    <3>2. ~(Top.balance > 0)
      BY <1>3, <1>5, BalanceHolds
    <3>. QED
      BY <3>1, <3>2
  <2>3. Owes(Top) = <<>>
    BY <1>1, <2>2, OwesExpression
  <2>4. Top.fn \in {"expression", "block"}
    BY <1>1
  <2>. QED
    BY <1>1, <1>2, <2>1, <2>3, <2>4, ReturnsList, Zenon
<1>. QED
  BY <1>4, <1>5

\* A call that owes nothing is made in front of the same token.
LEMMA Nests ==
  ASSUME ParserInv, status = "running", NEW f, FrameOK(f), Owes(f) = <<>>, MayCall(Top, f), Enter(f),
         tokens' = tokens, pos' = pos, types' = types, status' = status
  PROVE  ParserInv'
<1>1. pos' \in 1 .. Len(tokens)
  BY Running
<1>2. OwedAt(pos' - 1) = Debt(stack) \o Owes(f)
  <2>1. Debt(stack) \in Seq(Closing) /\ OwedAt(pos - 1) = Debt(stack)
    BY Running
  <2>2. Debt(stack) \o <<>> = Debt(stack)
    BY <2>1
  <2>. QED
    BY <2>1, <2>2, Zenon
<1>. QED
  BY <1>1, <1>2, Enters, Zenon

\* A call goes on that owes what it has owed.
LEMMA Keeps ==
  ASSUME ParserInv, status = "running", NEW g, FrameOK(g), g.fn = Top.fn, Owes(g) = Owes(Top), Become(g),
         tokens' = tokens, pos' \in 1 .. Len(tokens), types' = types, status' = status,
         OwedAt(pos' - 1) = OwedAt(pos - 1)
  PROVE  ParserInv'
<1>1. OwedAt(pos' - 1) = Debt(Front(stack)) \o Owes(g)
  BY Running
<1>. QED
  BY <1>1, Goes, Zenon

\* A word is read, or nothing.
LEMMA MayRead ==
  ASSUME ParserInv, status = "running", pos' = pos + 0 \/ (pos' = pos + 1 /\ tokens[pos] \in Word)
  PROVE  pos' \in 1 .. Len(tokens) /\ OwedAt(pos' - 1) = OwedAt(pos - 1)
<1>1. Types /\ pos \in 1 .. Len(tokens) /\ Len(tokens) \in Nat
  BY Running
<1>2. CASE pos' = pos + 0
  BY <1>1, <1>2
<1>3. CASE pos' = pos + 1 /\ tokens[pos] \in Word
  BY <1>1, <1>3, ReadsWord
<1>. QED
  BY <1>2, <1>3

\* A call that is about to go on.
LEMMA Ready ==
  ASSUME ParserInv, NEW fn \in {"arguments", "statement", "block", "analyze"}, Calls(fn)
  PROVE  /\ status = "running" /\ Top.fn = fn /\ Top.call.back = FALSE
         /\ FrameOK(Top) /\ fn # "expression"
<1>1. status = "running" /\ Top.fn = fn /\ ~Top.call.back
  BY DEF Calls, In
<1>2. FrameOK(Top) /\ fn # "expression"
  BY <1>1, Running
<1>3. IsCall(Top.call)
  <2>1. ~ExpressionOK(Top)
    BY <1>1, <1>2, FrameKinds
  <2>. QED
    BY <1>2, <2>1 DEF FrameOK, ArgumentsOK, StatementOK, BlockOK, AnalyzeOK
<1>4. Top.call.back = FALSE
  BY <1>1, <1>3 DEF IsCall
<1>. QED
  BY <1>1, <1>2, <1>4

\* ArgumentsCall.
LEMMA ArgumentsCallHolds ==
  ASSUME ParserInv, ArgumentsCall PROVE ParserInv'
<1>1. /\ Calls("arguments") /\ Enter(Expression)
      /\ tokens' = tokens /\ pos' = pos /\ types' = types /\ status' = status
  BY DEF ArgumentsCall
<1>2. status = "running" /\ Top.fn = "arguments" /\ Top.call.back = FALSE
  BY <1>1, Ready
<1>3. MayCall(Top, Expression)
  BY <1>2, NewFrames DEF MayCall
<1>. QED
  BY <1>1, <1>2, <1>3, NewFrames, Nests, Zenon

\* BlockCall.
LEMMA BlockCallHolds ==
  ASSUME ParserInv, BlockCall PROVE ParserInv'
<1>1. /\ Calls("block") /\ Enter(Expression)
      /\ tokens' = tokens /\ pos' = pos /\ types' = types /\ status' = status
  BY DEF BlockCall
<1>2. status = "running" /\ Top.fn = "block" /\ Top.call.back = FALSE
  BY <1>1, Ready
<1>3. MayCall(Top, Expression)
  BY <1>2, NewFrames DEF MayCall
<1>. QED
  BY <1>1, <1>2, <1>3, NewFrames, Nests, Zenon

\* AnalyzeCall.
LEMMA AnalyzeCallHolds ==
  ASSUME ParserInv, AnalyzeCall PROVE ParserInv'
<1>1. /\ Calls("analyze") /\ Enter(Expression)
      /\ tokens' = tokens /\ pos' = pos /\ types' = types /\ status' = status
  BY DEF AnalyzeCall
<1>2. status = "running" /\ Top.fn = "analyze" /\ Top.call.back = FALSE
  BY <1>1, Ready
<1>3. MayCall(Top, Expression)
  BY <1>2, NewFrames DEF MayCall
<1>. QED
  BY <1>1, <1>2, <1>3, NewFrames, Nests, Zenon

\* PartCall.
LEMMA PartCallHolds ==
  ASSUME ParserInv, PartCall PROVE ParserInv'
<1>1. /\ Calls("statement") /\ Part({"EXPRESSION", "EXPRESSIONS", "BLOCK"})
      /\ Enter(IF Part({"BLOCK"}) THEN Block ELSE Expression)
      /\ tokens' = tokens /\ pos' = pos /\ types' = types /\ status' = status
  BY DEF PartCall
<1>2. status = "running" /\ Top.fn = "statement" /\ Top.call.back = FALSE
  BY <1>1, Ready
<1>3. Top.parts # <<>> /\ Head(Top.parts) \in Asking
  BY <1>1 DEF Part, Asking
<1>4. CASE Part({"BLOCK"})
  <2>1. Head(Top.parts) = "BLOCK"
    BY <1>4 DEF Part
  <2>2. MayCall(Top, Block)
    BY <1>2, <1>3, <2>1, NewFrames DEF MayCall
  <2>3. Enter(Block)
    BY <1>1, <1>4, Zenon
  <2>. QED
    BY <1>1, <1>2, <2>2, <2>3, NewFrames, Nests, Zenon
<1>5. CASE ~Part({"BLOCK"})
  <2>1. MayCall(Top, Expression)
    BY <1>2, <1>3, NewFrames DEF MayCall
  <2>2. Enter(Expression)
    BY <1>1, <1>5, Zenon
  <2>. QED
    BY <1>1, <1>2, <2>1, <2>2, NewFrames, Nests, Zenon
<1>. QED
  BY <1>4, <1>5

\* ArgumentsResume.
LEMMA ArgumentsResumeHolds ==
  ASSUME ParserInv, ArgumentsResume PROVE ParserInv'
<1>1. /\ status = "running" /\ Top.fn = "arguments"
      /\ tokens' = tokens /\ types' = types /\ status' = status
  BY DEF ArgumentsResume, Resumes, In
<1>2. pos' = pos + (IF tokens[pos] = "," THEN 1 ELSE 0)
  BY Zenon DEF ArgumentsResume, Advance, Current
<1>3. ArgumentsOK(Top)
  BY <1>1, Running, FrameKinds
<1>4. PICK list : list = Top.node.args \o Top.call.list
  OBVIOUS
<1>5. PICK g : g = [Top EXCEPT !.node.args = list, !.call = Waiting]
  OBVIOUS
<1>6. Become(g)
  <2>1. Become([Top EXCEPT !.node.args = list, !.call = Waiting])
    BY <1>4 DEF ArgumentsResume
  <2>. QED
    BY <1>5, <2>1
<1>7. FrameOK(g) /\ g.fn = Top.fn /\ Owes(g) = Owes(Top)
  <2>1. g = [fn |-> "arguments", node |-> [Top.node EXCEPT !.args = list],
             end |-> Top.end, call |-> Waiting]
    BY <1>3, <1>5, ArgumentsRecord
  <2>. QED
    BY <1>3, <2>1, Takes, Zenon
<1>8. pos' \in 1 .. Len(tokens) /\ OwedAt(pos' - 1) = OwedAt(pos - 1)
  <2>1. "," \in Word
    BY Zenon DEF Word
  <2>2. pos' = pos + 0 \/ (pos' = pos + 1 /\ tokens[pos] \in Word)
    <3>1. CASE tokens[pos] = ","
      <4>1. pos' = pos + 1
        BY <1>2, <3>1, Zenon
      <4>2. tokens[pos] \in Word
        BY <2>1, <3>1, Zenon
      <4>. QED
        BY <4>1, <4>2, Zenon
    <3>2. CASE tokens[pos] # ","
      BY <1>2, <3>2, Zenon
    <3>. QED
      BY <3>1, <3>2
  <2>. QED
    BY <1>1, <2>2, MayRead, Zenon
<1>. QED
  BY <1>1, <1>6, <1>7, <1>8, Keeps, Zenon

\* BlockFirst.
LEMMA BlockFirstHolds ==
  ASSUME ParserInv, BlockFirst PROVE ParserInv'
<1>1. /\ status = "running" /\ Top.fn = "block"
      /\ tokens' = tokens /\ pos' = pos /\ types' = types /\ status' = status
  BY DEF BlockFirst, Resumes, In
<1>2. PICK list, first, g : /\ g = [Top EXCEPT !.first = first, !.root = list, !.call = Waiting]
                            /\ Become(g)
  BY Zenon DEF BlockFirst
<1>3. BlockOK(Top)
  BY <1>1, Running, FrameKinds
<1>4. FrameOK(g) /\ g.fn = Top.fn /\ Owes(g) = Owes(Top)
  BY <1>2, <1>3, Takes, Zenon
<1>5. pos' \in 1 .. Len(tokens) /\ OwedAt(pos' - 1) = OwedAt(pos - 1)
  BY <1>1, Running
<1>. QED
  BY <1>1, <1>2, <1>4, <1>5, Keeps, Zenon

\* BlockNext.
LEMMA BlockNextHolds ==
  ASSUME ParserInv, BlockNext PROVE ParserInv'
<1>1. /\ status = "running" /\ Top.fn = "block"
      /\ tokens' = tokens /\ pos' = pos /\ types' = types
  BY DEF BlockNext, Resumes, In
<1>2. pos' \in 1 .. Len(tokens) /\ OwedAt(pos' - 1) = OwedAt(pos - 1)
  BY <1>1, Running
<1>3. CASE Top.root = <<>>
  <2>1. status' = "nullderef" /\ stack' = stack
    BY <1>3, Zenon DEF BlockNext
  <2>. QED
    BY <1>1, <1>2, <2>1, Stops
<1>4. CASE Top.root # <<>>
  <2>1. PICK list, g : /\ g = [Top EXCEPT !.root = list, !.call = Waiting]
                       /\ Become(g) /\ status' = status
    BY <1>4, Zenon DEF BlockNext
  <2>2. BlockOK(Top)
    BY <1>1, Running, FrameKinds
  <2>3. FrameOK(g) /\ g.fn = Top.fn /\ Owes(g) = Owes(Top)
    <3>1. \A f, h : BlockOK(f) /\ h = [f EXCEPT !.root = list, !.call = Waiting]
                      => FrameOK(h) /\ h.fn = f.fn /\ Owes(h) = Owes(f)
      BY TakesRoot
    <3>. QED
      BY <2>1, <2>2, <3>1, Zenon
  <2>. QED
    BY <1>1, <1>2, <2>1, <2>3, Keeps, Zenon
<1>. QED
  BY <1>3, <1>4

\* BlockEnd.
LEMMA BlockEndHolds ==
  ASSUME ParserInv, BlockEnd PROVE ParserInv'
<1>1. /\ status = "running" /\ Top.fn = "block" /\ \E list : ReturnList(list)
      /\ tokens' = tokens /\ pos' = pos /\ types' = types /\ status' = status
  BY Zenon DEF BlockEnd, Resumes, In
<1>2. pos' \in 1 .. Len(tokens) /\ OwedAt(pos' - 1) = OwedAt(pos - 1)
  BY <1>1, Running
<1>3. Owes(Top) = <<>> /\ Top.fn \in {"expression", "block"}
  BY <1>1, OwesOthers
<1>. QED
  BY <1>1, <1>2, <1>3, ReturnsList, Zenon

\* A node is completed for the expression below.
LEMMA Completes ==
  ASSUME ParserInv, status = "running", Top.fn \in {"arguments", "statement"},
         NEW node, Complete(node), tokens' = tokens, pos' \in 1 .. Len(tokens),
         types' \subseteq Names, PrimitiveTypes \subseteq types',
         OwedAt(pos' - 1) = Debt(Front(stack))
  PROVE  ParserInv'
<1>1. PICK caller : /\ caller = Last(Front(stack)) /\ FrameOK(caller) /\ MayCall(caller, Top)
  BY Below
<1>2. caller.fn = "expression" /\ ExpressionOK(caller)
  <2>1. caller.fn = "expression"
    BY <1>1 DEF MayCall
  <2>. QED
    BY <1>1, <2>1, FrameKinds
<1>3. PICK g : g = IF node.type = "ARRAY" THEN [caller EXCEPT !.held = Append(caller.held, node)]
                                          ELSE [caller EXCEPT !.out = Append(caller.out, node)]
  OBVIOUS
<1>4. stack' = Append(Front(Front(stack)), g)
  BY <1>1, <1>3, Zenon DEF Complete
<1>5. FrameOK(g) /\ g.fn = "expression" /\ Owes(g) = Owes(caller)
  <2>1. CASE node.type = "ARRAY"
    <3>1. g = [caller EXCEPT !.held = Append(caller.held, node)]
      BY <1>3, <2>1, Zenon
    <3>. QED
      BY <1>2, <3>1, ExpressionHolds, Zenon
  <2>2. CASE node.type # "ARRAY"
    <3>1. g = [caller EXCEPT !.out = Append(caller.out, node)]
      BY <1>3, <2>2, Zenon
    <3>. QED
      BY <1>2, <3>1, ExpressionOut, Zenon
  <2>. QED
    BY <2>1, <2>2
<1>6. status' \in {"running", "exit"}
  BY DEF Complete
<1>7. Top.fn # "analyze" /\ g.fn = Last(Front(stack)).fn /\ Owes(g) = Owes(Last(Front(stack)))
  BY <1>1, <1>2, <1>5
<1>. QED
  BY <1>4, <1>5, <1>6, <1>7, Returns, Zenon

\* ArgumentsEnd.
LEMMA ArgumentsEndHolds ==
  ASSUME ParserInv, ArgumentsEnd PROVE ParserInv'
<1>1. /\ Calls("arguments") /\ tokens[pos] = Top.end /\ pos' = pos + 1
      /\ Complete(Top.node) /\ tokens' = tokens /\ types' = types
  BY DEF ArgumentsEnd, Consume, Current, Advance
<1>2. status = "running" /\ Top.fn = "arguments" /\ FrameOK(Top)
  BY <1>1, Ready
<1>3. ArgumentsOK(Top)
  BY <1>2, FrameKinds
<1>4. Top.end \in Closing /\ Owes(Top) = <<Top.end>>
  BY <1>2, <1>3, OwesOthers DEF ArgumentsOK
<1>5. PICK d \in Seq(Closing) : d = Debt(Front(stack)) /\ OwedAt(pos - 1) = d \o <<tokens[pos]>>
  BY <1>1, <1>2, <1>4, Running
<1>6. pos + 1 \in 1 .. Len(tokens) /\ OwedAt((pos + 1) - 1) = d
  <2>1. tokens[pos] \in Closing
    BY <1>1, <1>4
  <2>. QED
    BY <1>2, <1>5, <2>1, Running, ReadsClosing
<1>7. /\ Top.fn \in {"arguments", "statement"}
      /\ types' \subseteq Names /\ PrimitiveTypes \subseteq types'
  BY <1>1, <1>2 DEF ParserInv, Types
<1>8. pos' \in 1 .. Len(tokens) /\ OwedAt(pos' - 1) = Debt(Front(stack))
  BY <1>1, <1>5, <1>6
<1>. QED
  BY <1>1, <1>2, <1>7, <1>8, Completes, Zenon

\* StatementEnd.
LEMMA StatementEndHolds ==
  ASSUME ParserInv, StatementEnd PROVE ParserInv'
<1>1. /\ Calls("statement") /\ Top.parts = <<>> /\ pos' = pos /\ tokens' = tokens
  BY DEF StatementEnd
<1>2. status = "running" /\ Top.fn = "statement" /\ FrameOK(Top)
  BY <1>1, Ready
<1>3. StatementOK(Top)
  BY <1>2, FrameKinds
<1>4. PICK name : name = Last(Top.node.words)
  OBVIOUS
<1>5. Top.node.words[1] = StructKeyword => name \in Names
  <2>1. DOMAIN Top.parts = {}
    BY <1>1
  <2>. QED
    BY <1>3, <1>4, <2>1 DEF StatementOK
<1>6. pos' \in 1 .. Len(tokens) /\ OwedAt(pos' - 1) = Debt(Front(stack))
  <2>1. Owes(Top) = <<>>
    <3>1. PICK none : none = <<>> /\ none \in Seq(Parts) /\ Len(none) = 0
      <4>1. <<>> \in Seq(Parts) /\ Len(<<>>) = 0
        OBVIOUS
      <4>. QED
        BY <4>1, Zenon
    <3>2. Due(none) = {}
      <4>1. \A k \in 1 .. Len(none) : ~IsDue(none, k)
        BY <3>1
      <4>. QED
        BY <3>1, <4>1, NoneDue, Zenon
    <3>. QED
      BY <1>1, <1>2, <3>1, <3>2, OwesOthers, Zenon
  <2>2. PICK d \in Seq(Closing) : d = Debt(Front(stack)) /\ OwedAt(pos - 1) = d \o <<>>
    BY <1>2, <2>1, Running
  <2>3. d \o <<>> = d
    OBVIOUS
  <2>4. pos' \in 1 .. Len(tokens)
    BY <1>1, <1>2, Running
  <2>. QED
    BY <1>1, <2>2, <2>3, <2>4, Zenon
<1>7. \/ status' = "nullderef" /\ UNCHANGED <<stack, types>>
      \/ /\ types' = IF Top.node.words[1] = StructKeyword THEN types \cup {name} ELSE types
         /\ Complete(Top.node)
  BY <1>4, Zenon DEF StatementEnd
<1>8. CASE status' = "nullderef" /\ UNCHANGED <<stack, types>>
  BY <1>1, <1>2, <1>6, <1>8, Stops
<1>9. CASE /\ types' = IF Top.node.words[1] = StructKeyword THEN types \cup {name} ELSE types
           /\ Complete(Top.node)
  <2>1. types \subseteq Names /\ PrimitiveTypes \subseteq types
    BY DEF ParserInv, Types
  <2>2. types' \subseteq Names /\ PrimitiveTypes \subseteq types'
    BY <1>5, <1>9, <2>1
  <2>3. Top.fn \in {"arguments", "statement"}
    BY <1>2
  <2>. QED
    BY <1>1, <1>2, <1>6, <1>9, <2>2, <2>3, Completes, Zenon
<1>. QED
  BY <1>7, <1>8, <1>9

\* Statements are records.
LEMMA StatementParts ==
  ASSUME NEW f, StatementOK(f), NEW parts, NEW g, g = [f EXCEPT !.parts = parts]
  PROVE  g = [fn |-> "statement", node |-> f.node, parts |-> parts, call |-> f.call]
BY DEF StatementOK

\* The same with a name more.
LEMMA StatementWords ==
  ASSUME NEW f, StatementOK(f), NEW value, NEW parts,
         NEW g, g = [f EXCEPT !.parts = parts, !.node.words = value]
  PROVE  g = [fn |-> "statement", node |-> [f.node EXCEPT !.words = value],
              parts |-> parts, call |-> f.call]
BY DEF StatementOK

\* The same when a call has returned.
LEMMA StatementReturns ==
  ASSUME NEW f, StatementOK(f), NEW parts,
         NEW g, g = [f EXCEPT !.call = Waiting, !.parts = parts]
  PROVE  g = [fn |-> "statement", node |-> f.node, parts |-> parts, call |-> Waiting]
BY DEF StatementOK

\* With a body.
LEMMA StatementBody ==
  ASSUME NEW node, NEW parts, NEW c, NEW value,
         NEW f, f = [fn |-> "statement", node |-> node, parts |-> parts, call |-> c],
         NEW g, g = [f EXCEPT !.node.body = value]
  PROVE  g = [fn |-> "statement", node |-> [node EXCEPT !.body = value],
              parts |-> parts, call |-> c]
OBVIOUS

\* With arguments.
LEMMA StatementArgs ==
  ASSUME NEW node, NEW parts, NEW c, NEW value,
         NEW f, f = [fn |-> "statement", node |-> node, parts |-> parts, call |-> c],
         NEW g, g = [f EXCEPT !.node.args = value]
  PROVE  g = [fn |-> "statement", node |-> [node EXCEPT !.args = value],
              parts |-> parts, call |-> c]
OBVIOUS

\* A node of a statement keeps its form.
LEMMA NodeRecord ==
  ASSUME NEW n, IsNode(n), NEW value
  PROVE  /\ IsNode([n EXCEPT !.body = value]) /\ [n EXCEPT !.body = value].words = n.words
         /\ IsNode([n EXCEPT !.args = value]) /\ [n EXCEPT !.args = value].words = n.words
         /\ value \in Seq(Token) /\ value # <<>> =>
              IsNode([n EXCEPT !.words = value]) /\ [n EXCEPT !.words = value].words = value
<1>1. PICK t, w, a, b : /\ n = [type |-> t, words |-> w, args |-> a, body |-> b]
                        /\ w \in Seq(Token) /\ w # <<>> /\ n.words = w
  BY DEF IsNode
<1>2. ASSUME NEW m, m = [n EXCEPT !.body = value]
      PROVE  IsNode(m) /\ m.words = n.words
  <2>1. m = [type |-> t, words |-> w, args |-> a, body |-> value]
    BY <1>1, <1>2
  <2>. QED
    BY <1>1, <2>1 DEF IsNode
<1>3. ASSUME NEW m, m = [n EXCEPT !.args = value]
      PROVE  IsNode(m) /\ m.words = n.words
  <2>1. m = [type |-> t, words |-> w, args |-> value, body |-> b]
    BY <1>1, <1>3
  <2>. QED
    BY <1>1, <2>1 DEF IsNode
<1>4. ASSUME value \in Seq(Token), value # <<>>, NEW m, m = [n EXCEPT !.words = value]
      PROVE  IsNode(m) /\ m.words = value
  <2>1. m = [type |-> t, words |-> value, args |-> a, body |-> b]
    BY <1>1, <1>4
  <2>. QED
    BY <1>4, <2>1 DEF IsNode
<1>. QED
  BY <1>2, <1>3, <1>4, Zenon

\* Punctuation is a bracket or a word.
LEMMA PunctuationKinds ==
  /\ Punctuation \subseteq Bracket \cup Word
  /\ "IDENTIFIER" \notin Punctuation
  /\ Asking \cap (Bracket \cup {"IDENTIFIER"}) = {}
<1>1. Punctuation \subseteq Bracket \cup Word
  BY Zenon DEF Punctuation, Bracket, Opening, Closing, Word
<1>2. "IDENTIFIER" \notin Punctuation
  BY DEF Punctuation
<1>3. Asking \cap (Bracket \cup {"IDENTIFIER"}) = {}
  BY DEF Asking, Bracket, Opening, Closing
<1>. QED
  BY <1>1, <1>2, <1>3

\* A token of the declaration is read.
LEMMA ReadsPart ==
  ASSUME ParserInv, status = "running", StatementOK(Top), Top.parts # <<>>,
         Head(Top.parts) \in Punctuation, tokens[pos] = Head(Top.parts),
         NEW g, FrameOK(g), g.fn = "statement", g.parts = Tail(Top.parts), Become(g),
         tokens' = tokens, pos' = pos + 1, types' = types, status' = status
  PROVE  ParserInv'
<1>1. PICK t : t = tokens[pos] /\ t = Head(Top.parts) /\ t \in Punctuation
  OBVIOUS
<1>2. /\ t \notin Bracket => Owes(g) = Owes(Top)
      /\ t \in Closing => Owes(Top) = <<t>> /\ Owes(g) = <<>>
      /\ t \in Opening => Owes(Top) = <<>> /\ Owes(g) = <<Closer[t]>>
  BY <1>1, PartsOwe, Zenon
<1>3. g.fn = Top.fn
  BY DEF StatementOK
<1>4. Types /\ pos \in 1 .. Len(tokens)
  BY Running
<1>5. PICK d \in Seq(Closing) : d = Debt(Front(stack)) /\ OwedAt(pos - 1) = d \o Owes(Top)
  BY Running
<1>6. d \o <<>> = d
  OBVIOUS
<1>7. CASE t \notin Bracket
  <2>1. t \in Word
    BY <1>1, <1>7, PunctuationKinds, Zenon
  <2>2. pos' \in 1 .. Len(tokens) /\ OwedAt(pos' - 1) = OwedAt(pos - 1)
    BY <1>1, <1>4, <2>1, ReadsWord, Zenon
  <2>. QED
    BY <1>2, <1>3, <1>7, <2>2, Keeps, Zenon
<1>8. CASE t \in Closing
  <2>1. pos' \in 1 .. Len(tokens) /\ OwedAt(pos' - 1) = d
    BY <1>1, <1>2, <1>4, <1>5, <1>8, ReadsClosing, Zenon
  <2>2. OwedAt(pos' - 1) = Debt(Front(stack)) \o Owes(g)
    BY <1>2, <1>5, <1>6, <1>8, <2>1, Zenon
  <2>. QED
    BY <1>3, <2>1, <2>2, Goes, Zenon
<1>9. CASE t \in Opening
  <2>1. pos' \in 1 .. Len(tokens) /\ OwedAt(pos' - 1) = OwedAt(pos - 1) \o <<Closer[t]>>
    BY <1>1, <1>4, <1>9, ReadsOpening, Zenon
  <2>2. OwedAt(pos' - 1) = Debt(Front(stack)) \o Owes(g)
    BY <1>2, <1>5, <1>6, <1>9, <2>1, Zenon
  <2>. QED
    BY <1>3, <2>1, <2>2, Goes, Zenon
<1>. QED
  BY <1>7, <1>8, <1>9 DEF Bracket

\* PartToken.
LEMMA PartTokenHolds ==
  ASSUME ParserInv, PartToken PROVE ParserInv'
<1>1. /\ Calls("statement") /\ Part(Punctuation) /\ tokens' = tokens /\ types' = types
  BY DEF PartToken
<1>2. status = "running" /\ Top.fn = "statement" /\ Top.call.back = FALSE /\ FrameOK(Top)
  BY <1>1, Ready
<1>3. StatementOK(Top) /\ Top.parts # <<>> /\ Head(Top.parts) \in Punctuation
  BY <1>1, <1>2, FrameKinds DEF Part
<1>4. CASE tokens[pos] = Head(Top.parts)
  <2>1. PICK g : g = [Top EXCEPT !.parts = Tail(Top.parts)]
    OBVIOUS
  <2>2. Become(g) /\ pos' = pos + 1 /\ status' = status
    BY <1>4, <2>1, Zenon DEF PartToken, Current, Advance
  <2>3. g = [fn |-> "statement", node |-> Top.node, parts |-> Tail(Top.parts), call |-> Top.call]
    BY <1>3, <2>1, StatementParts
  <2>4. IsNode(Top.node) /\ IsCall(Top.call)
    BY <1>3 DEF StatementOK
  <2>5. Head(Top.parts) # "IDENTIFIER"
    BY <1>3, PunctuationKinds, Zenon
  <2>6. FrameOK(g) /\ g.fn = "statement" /\ g.parts = Tail(Top.parts)
    <3>1. GoesOn(Top, Top.node, Tail(Top.parts))
      BY <1>3, <2>5, Zenon DEF GoesOn
    <3>2. PICK c, n, rest : c = Top.call /\ n = Top.node /\ rest = Tail(Top.parts)
      OBVIOUS
    <3>3. IsStatement(g, n, rest, c)
      BY <2>3, <3>2, Zenon DEF IsStatement
    <3>4. GoesOn(Top, n, rest) /\ StatementOK(Top) /\ IsNode(n) /\ Pending(c)
      BY <1>2, <1>3, <2>4, <3>1, <3>2, Zenon DEF Pending
    <3>5. FrameOK(g) /\ g.fn = "statement" /\ g.parts = rest
      <4>1. \A h : IsStatement(h, n, rest, c) => FrameOK(h) /\ h.fn = "statement" /\ h.parts = rest
        BY <3>4, StatementGoes
      <4>. QED
        BY <3>3, <4>1, Zenon
    <3>. QED
      BY <3>2, <3>5
  <2>. QED
    BY <1>1, <1>2, <1>3, <1>4, <2>2, <2>6, ReadsPart, Zenon
<1>5. CASE tokens[pos] # Head(Top.parts)
  <2>1. status' = "exit" /\ UNCHANGED <<pos, stack>>
    BY <1>5, Zenon DEF PartToken, Current
  <2>2. pos' \in 1 .. Len(tokens)
    BY <1>2, <2>1, Running
  <2>. QED
    BY <1>1, <1>2, <2>1, <2>2, Stops
<1>. QED
  BY <1>4, <1>5

\* PartIdentifier.
LEMMA PartIdentifierHolds ==
  ASSUME ParserInv, PartIdentifier PROVE ParserInv'
<1>1. /\ Calls("statement") /\ Part({"IDENTIFIER"}) /\ tokens' = tokens /\ types' = types
  BY DEF PartIdentifier
<1>2. status = "running" /\ Top.fn = "statement" /\ Top.call.back = FALSE /\ FrameOK(Top)
  BY <1>1, Ready
<1>3. StatementOK(Top) /\ Top.parts # <<>> /\ Head(Top.parts) = "IDENTIFIER"
  BY <1>1, <1>2, FrameKinds DEF Part
<1>4. CASE tokens[pos] \in Names
  <2>1. PICK words : words = Append(Top.node.words, tokens[pos])
    OBVIOUS
  <2>2. PICK g : g = [Top EXCEPT !.parts = Tail(Top.parts), !.node.words = words]
    OBVIOUS
  <2>3. Become(g) /\ pos' = pos + 1 /\ status' = status
    BY <1>4, <2>1, <2>2 DEF PartIdentifier, Current, Advance
  <2>4. PICK node : node = [Top.node EXCEPT !.words = words]
    OBVIOUS
  <2>5. g = [fn |-> "statement", node |-> node, parts |-> Tail(Top.parts), call |-> Top.call]
    <3>1. g = [fn |-> "statement", node |-> [Top.node EXCEPT !.words = words],
               parts |-> Tail(Top.parts), call |-> Top.call]
      BY <1>3, <2>2, StatementWords
    <3>. QED
      BY <2>4, <3>1, Zenon
  <2>6. IsNode(node) /\ node.words = words
    <3>1. IsNode(Top.node) /\ Top.node.words \in Seq(Token) /\ tokens[pos] \in Token
      BY <1>3, <1>4 DEF StatementOK, IsNode, Token
    <3>2. words \in Seq(Token) /\ words # <<>>
      BY <2>1, <3>1, AppendProperties
    <3>. QED
      BY <2>4, <3>1, <3>2, NodeRecord, Zenon
  <2>7. IsCall(Top.call)
    BY <1>3 DEF StatementOK
  <2>8. FrameOK(g) /\ g.fn = "statement" /\ g.parts = Tail(Top.parts)
    <3>1. GoesOn(Top, node, Tail(Top.parts))
      BY <1>3, <1>4, <2>1, <2>6, Zenon DEF GoesOn
    <3>2. PICK c, n, rest : c = Top.call /\ n = node /\ rest = Tail(Top.parts)
      OBVIOUS
    <3>3. IsStatement(g, n, rest, c)
      BY <2>5, <3>2, Zenon DEF IsStatement
    <3>4. GoesOn(Top, n, rest) /\ StatementOK(Top) /\ IsNode(n) /\ Pending(c)
      BY <1>2, <1>3, <2>6, <2>7, <3>1, <3>2, Zenon DEF Pending
    <3>5. FrameOK(g) /\ g.fn = "statement" /\ g.parts = rest
      <4>1. \A h : IsStatement(h, n, rest, c) => FrameOK(h) /\ h.fn = "statement" /\ h.parts = rest
        BY <3>4, StatementGoes
      <4>. QED
        BY <3>3, <4>1, Zenon
    <3>. QED
      BY <3>2, <3>5
  <2>9. Owes(g) = Owes(Top) /\ g.fn = Top.fn
    <3>1. Head(Top.parts) \notin Bracket
      BY <1>3 DEF Bracket, Opening, Closing
    <3>. QED
      BY <1>2, <1>3, <2>8, <3>1, PartsOwe, Zenon
  <2>10. pos' \in 1 .. Len(tokens) /\ OwedAt(pos' - 1) = OwedAt(pos - 1)
    <3>1. tokens[pos] \in Word
      BY <1>4, Zenon DEF Word
    <3>. QED
      BY <1>2, <2>3, <3>1, MayRead, Zenon
  <2>. QED
    BY <1>1, <1>2, <2>3, <2>8, <2>9, <2>10, Keeps, Zenon
<1>5. CASE tokens[pos] \notin Names
  <2>1. status' = "exit" /\ UNCHANGED <<pos, stack>>
    BY <1>5, Zenon DEF PartIdentifier, Current
  <2>2. pos' \in 1 .. Len(tokens)
    BY <1>2, <2>1, Running
  <2>. QED
    BY <1>1, <1>2, <2>1, <2>2, Stops
<1>. QED
  BY <1>4, <1>5

\* PartResume.
LEMMA PartResumeHolds ==
  ASSUME ParserInv, PartResume PROVE ParserInv'
<1>1. /\ status = "running" /\ Top.fn = "statement" /\ Top.call.back
      /\ tokens' = tokens /\ types' = types /\ status' = status
  BY DEF PartResume, Resumes, In
<1>2. StatementOK(Top)
  BY <1>1, Running, FrameKinds
<1>3. IsNode(Top.node) /\ Top.parts # <<>> /\ Head(Top.parts) \in Asking
  <2>1. Top.call.back = TRUE
    BY <1>1, <1>2 DEF StatementOK, IsCall
  <2>. QED
    BY <1>2, <2>1 DEF StatementOK
<1>4. PICK again : again = (Part({"EXPRESSIONS"}) /\ tokens[pos] = ",")
  OBVIOUS
<1>5. PICK parts, next : /\ parts = IF again THEN Top.parts ELSE Tail(Top.parts)
                         /\ next = [Top EXCEPT !.call = Waiting, !.parts = parts]
  OBVIOUS
<1>6. PICK value, g : /\ \/ g = [next EXCEPT !.node.body = value]
                         \/ g = [next EXCEPT !.node.args = value]
                      /\ Become(g)
  BY <1>4, <1>5, Zenon DEF PartResume, Current
<1>7. PICK node : /\ g = [fn |-> "statement", node |-> node, parts |-> parts, call |-> Waiting]
                  /\ IsNode(node) /\ node.words = Top.node.words
  <2>1. next = [fn |-> "statement", node |-> Top.node, parts |-> parts, call |-> Waiting]
    BY <1>2, <1>5, StatementReturns
  <2>2. CASE g = [next EXCEPT !.node.body = value]
    <3>1. g = [fn |-> "statement", node |-> [Top.node EXCEPT !.body = value],
               parts |-> parts, call |-> Waiting]
      BY <2>1, <2>2, StatementBody
    <3>. QED
      BY <1>3, <3>1, NodeRecord, Zenon
  <2>3. CASE g = [next EXCEPT !.node.args = value]
    <3>1. g = [fn |-> "statement", node |-> [Top.node EXCEPT !.args = value],
               parts |-> parts, call |-> Waiting]
      BY <2>1, <2>3, StatementArgs
    <3>. QED
      BY <1>3, <3>1, NodeRecord, Zenon
  <2>. QED
    BY <1>6, <2>2, <2>3, Zenon
<1>8. Head(Top.parts) # "IDENTIFIER" /\ Head(Top.parts) \notin Bracket
  BY <1>3, PunctuationKinds
<1>9. parts = Top.parts \/ parts = Tail(Top.parts)
  BY <1>5, Zenon
<1>10. FrameOK(g) /\ g.fn = "statement" /\ g.parts = parts
  <2>1. GoesOn(Top, node, parts)
    BY <1>3, <1>7, <1>8, <1>9, Zenon DEF GoesOn
  <2>2. IsStatement(g, node, parts, Waiting)
    BY <1>7, Zenon DEF IsStatement
  <2>. QED
    <3>1. Pending(Waiting)
      BY Calling, Zenon DEF Pending
    <3>. QED
      BY <1>2, <1>7, <2>1, <2>2, <3>1, StatementGoes, Zenon
<1>11. Owes(g) = Owes(Top)
  <2>1. CASE parts = Top.parts
    BY <1>1, <1>10, <2>1 DEF Owes
  <2>2. CASE parts = Tail(Top.parts)
    BY <1>2, <1>3, <1>8, <1>10, <2>2, PartsOwe, Zenon
  <2>. QED
    BY <1>9, <2>1, <2>2
<1>12. pos' \in 1 .. Len(tokens) /\ OwedAt(pos' - 1) = OwedAt(pos - 1)
  <2>1. "," \in Word
    BY Zenon DEF Word
  <2>2. pos' = pos + (IF again THEN 1 ELSE 0)
    BY <1>4, Zenon DEF PartResume, Advance, Current
  <2>3. pos' = pos + 0 \/ (pos' = pos + 1 /\ tokens[pos] \in Word)
    <3>1. CASE again
      <4>1. pos' = pos + 1
        BY <2>2, <3>1, Zenon
      <4>2. tokens[pos] \in Word
        BY <1>4, <2>1, <3>1, Zenon
      <4>. QED
        BY <4>1, <4>2, Zenon
    <3>2. CASE ~again
      BY <2>2, <3>2, Zenon
    <3>. QED
      BY <3>1, <3>2
  <2>. QED
    BY <1>1, <2>3, MayRead, Zenon
<1>13. g.fn = Top.fn
  BY <1>1, <1>10
<1>. QED
  BY <1>1, <1>6, <1>10, <1>11, <1>12, <1>13, Keeps, Zenon

\* AnalyzeResume: at the end of the file no call is left that owes a bracket.
LEMMA AnalyzeResumeHolds ==
  ASSUME ParserInv, AnalyzeResume PROVE ParserInv'
<1>1. /\ status = "running" /\ Top.fn = "analyze" /\ tokens' = tokens /\ types' = types
  BY DEF AnalyzeResume, Resumes, In
<1>2. CASE tokens[pos] # EndOfFile
  <2>1. pos' = pos /\ status' = status
    BY <1>2, Zenon DEF AnalyzeResume, Current
  <2>2. PICK list, g : g = [Top EXCEPT !.root = list, !.call = Waiting] /\ Become(g)
    BY <1>2, Zenon DEF AnalyzeResume, Current
  <2>3. AnalyzeOK(Top)
    BY <1>1, Running, FrameKinds
  <2>4. FrameOK(g) /\ g.fn = Top.fn /\ Owes(g) = Owes(Top)
    <3>1. \A f, h : AnalyzeOK(f) /\ h = [f EXCEPT !.root = list, !.call = Waiting]
                      => FrameOK(h) /\ h.fn = f.fn /\ Owes(h) = Owes(f)
      BY TakesRoot
    <3>2. g = [Top EXCEPT !.root = list, !.call = Waiting]
      BY <2>2, Zenon
    <3>. QED
      BY <2>3, <3>1, <3>2, Zenon
  <2>5. pos' \in 1 .. Len(tokens) /\ OwedAt(pos' - 1) = OwedAt(pos - 1)
    BY <1>1, <2>1, Running
  <2>. QED
    BY <1>1, <2>1, <2>2, <2>4, <2>5, Keeps, Zenon
<1>3. CASE tokens[pos] = EndOfFile
  <2>1. pos' = pos + 1 /\ stack' = <<>> /\ status' = "done"
    BY <1>3, Zenon DEF AnalyzeResume, Current, Advance
  <2>2. /\ Types /\ pos \in 1 .. Len(tokens) /\ Len(tokens) \in Nat \ {0}
        /\ pos = Len(tokens)
    BY <1>1, <1>3, Running, Listed
  <2>3. Len(stack) = 1
    <3>1. ASSUME Len(stack) > 1
          PROVE  FALSE
      <4>1. /\ Len(stack) \in Nat \ {0} /\ Top = stack[Len(stack)]
            /\ MayCall(stack[Len(stack) - 1], stack[Len(stack)])
        BY <1>1, <3>1, Running DEF StackOK
      <4>. QED
        BY <1>1, <4>1 DEF MayCall
    <3>2. ~(Len(stack) > 1)
      BY <3>1, Zenon
    <3>3. PICK n : n \in Nat \ {0} /\ n = Len(stack)
      BY <1>1, Running
    <3>4. ~(n > 1)
      BY <3>2, <3>3, Zenon
    <3>5. n = 1
      BY <3>3, <3>4
    <3>. QED
      BY <3>3, <3>5, Zenon
  <2>4. Debt(Front(stack)) = <<>>
    <3>1. PICK less : less = Front(stack) /\ StackOK(less) /\ Len(less) = 0
      BY <1>1, <2>3, Running
    <3>2. [i \in 1 .. Len(less) |-> Owes(less[i])] = <<>>
      BY <3>1
    <3>3. FlattenSeq(<<>>) = <<>>
      BY NothingOwed
    <3>. QED
      BY <3>1, <3>2, <3>3, Zenon DEF Debt
  <2>5. OwedAt(pos - 1) = <<>>
    <3>1. OwedAt(pos - 1) = Debt(Front(stack)) \o Owes(Top)
      BY <1>1, Running
    <3>2. Owes(Top) = <<>>
      BY <1>1, OwesOthers
    <3>3. <<>> \o <<>> = <<>>
      OBVIOUS
    <3>. QED
      BY <2>4, <3>1, <3>2, <3>3, Zenon
  <2>6. OwedAt(Len(tokens)) = <<>>
    <3>1. EndOfFile \notin Bracket
      BY Kinds, WordKinds, Zenon DEF Bracket
    <3>2. OwedAt(pos) = OwedAt(pos - 1)
      BY <1>3, <2>2, <3>1, Reads, Zenon
    <3>. QED
      BY <2>2, <2>5, <3>2
  <2>7. Balanced(tokens)
    BY <2>6 DEF Balanced, Owing, OwedAt
  <2>8. BracketsOwed'
    <3>1. Balanced(tokens')
      BY <1>1, <2>7, Zenon
    <3>2. status' # "running"
      BY <2>1
    <3>. QED
      BY <3>1, <3>2, Zenon DEF BracketsOwed
  <2>9. StackOK(stack')
    <3>1. PICK none : none = <<>> /\ IsList(none) /\ Len(none) = 0
      <4>1. <<>> \in Seq({}) /\ Len(<<>>) = 0
        OBVIOUS
      <4>2. IsList(<<>>)
        BY <4>1, SeqIsList
      <4>. QED
        BY <4>1, <4>2, Zenon
    <3>2. StackOK(none)
      BY <3>1 DEF StackOK
    <3>. QED
      BY <2>1, <3>1, <3>2, Zenon
  <2>10. Types'
    <3>1. pos' \in 1 .. Len(tokens) + 1
      BY <2>1, <2>2
    <3>. QED
      BY <1>1, <2>1, <2>2, <3>1 DEF Types
  <2>. QED
    BY <2>8, <2>9, <2>10 DEF ParserInv
<1>. QED
  BY <1>2, <1>3

-----------------------------------------------------------------------------
(* The theorems.                                                           *)

\* The first call owes nothing.
LEMMA InitHolds == Init => ParserInv
<1>. SUFFICES ASSUME Init
              PROVE  ParserInv
  OBVIOUS
<1>1. /\ tokens \in Inputs /\ pos = 1 /\ stack = <<Analyze>> /\ types = PrimitiveTypes
      /\ status = "running"
  BY DEF Init
<1>2. tokens \in Seq(Token) /\ Len(tokens) \in Nat \ {0}
  <2>1. tokens \in Seq(Token) /\ tokens # <<>>
    BY <1>1, InputsAssumption, Zenon
  <2>. QED
    BY <2>1, EmptySeq
<1>3. PICK none : none = <<>> /\ IsList(none) /\ Len(none) = 0
  <2>1. <<>> \in Seq({}) /\ Len(<<>>) = 0
    OBVIOUS
  <2>2. IsList(<<>>)
    BY <2>1, SeqIsList
  <2>. QED
    BY <2>1, <2>2, Zenon
<1>4. StackOK(none)
  BY <1>3 DEF StackOK
<1>5. StackOK(Append(none, Analyze)) /\ Debt(Append(none, Analyze)) = Debt(none) \o Owes(Analyze)
  BY <1>3, <1>4, NewFrames, Entered
<1>6. Append(none, Analyze) = stack
  BY <1>1, <1>3
<1>7. stack # <<>> /\ DOMAIN stack = 1 .. Len(stack)
  BY <1>1
<1>8. Debt(stack) = <<>>
  <2>1. Debt(none) = <<>>
    <3>1. [i \in 1 .. Len(none) |-> Owes(none[i])] = <<>>
      BY <1>3
    <3>2. FlattenSeq(<<>>) = <<>>
      BY NothingOwed
    <3>. QED
      BY <3>1, <3>2, Zenon DEF Debt
  <2>2. <<>> \o <<>> = <<>>
    OBVIOUS
  <2>. QED
    BY <1>5, <1>6, <2>1, <2>2, NewFrames, Zenon
<1>9. Types
  <2>1. PrimitiveTypes \subseteq Names
    BY TokensAssumption
  <2>. QED
    BY <1>1, <1>2, <1>7, <2>1 DEF Types
<1>10. BracketsOwed
  <2>1. OwedAt(0) = <<>>
    <3>1. <<>> \in Dues
      BY DEF Dues
    <3>. QED
      BY <1>2, <3>1, OwedSteps, Zenon DEF OwedAt
  <2>2. pos - 1 = 0
    BY <1>1
  <2>3. Owed(<<>>, tokens)[pos - 1] = FlattenSeq([i \in DOMAIN stack |-> Owes(stack[i])])
    BY <1>7, <1>8, <2>1, <2>2, Zenon DEF OwedAt, Debt
  <2>. QED
    BY <1>1, <2>3 DEF BracketsOwed
<1>. QED
  BY <1>5, <1>6, <1>9, <1>10, Zenon DEF ParserInv

\* Every step keeps the invariant.
LEMMA NextHolds == ParserInv /\ [Next]_vars => ParserInv'
<1>. SUFFICES ASSUME ParserInv, [Next]_vars
              PROVE  ParserInv'
  OBVIOUS
<1>1. CASE UNCHANGED vars
  <2>1. Types' /\ StackOK(stack')
    BY <1>1 DEF ParserInv, vars, Types
  <2>2. BracketsOwed'
    BY <1>1 DEF ParserInv, vars, BracketsOwed
  <2>. QED
    BY <2>1, <2>2 DEF ParserInv
<1>2. CASE Next
  BY <1>1, <1>2, ExpressionEndsHolds, ReadConstantHolds, ReadIdentifierHolds, ReadCallHolds,
     UnknownTypeHolds, ReadVariableHolds, ReadArrayVariableHolds, ReadFunctionHolds,
     ReadObjectHolds, ReadKeywordHolds, ReadArrayHolds, ReadOpenHolds, ReadCloseHolds,
     ArgumentsCallHolds, ArgumentsResumeHolds, ArgumentsEndHolds, PartTokenHolds,
     PartIdentifierHolds, PartCallHolds, PartResumeHolds, StatementEndHolds, BlockCallHolds,
     BlockFirstHolds, BlockNextHolds, BlockEndHolds, AnalyzeCallHolds, AnalyzeResumeHolds,
     Zenon DEF Next, Over
<1>. QED
  BY <1>1, <1>2

\* The inductive invariant holds of every call of parser_analyze.
THEOREM Invariance == Spec => []ParserInv
BY InitHolds, NextHolds, PTL DEF Spec

\* The types of the variables, and who calls whom in parser.c: in every list of
\* tokens, whatever the declarations of the language are.
THEOREM TypeCorrect == Spec => []TypeOK
<1>1. ParserInv => TypeOK
  <2>. SUFFICES ASSUME ParserInv
                PROVE  TypeOK
    OBVIOUS
  <2>1. Types /\ StackOK(stack) /\ tokens \in Seq(Token)
    BY Listed DEF ParserInv
  <2>2. Len(stack) \in Nat /\ DOMAIN stack = 1 .. Len(stack)
    <3>1. IsList(stack)
      BY <2>1 DEF StackOK
    <3>2. PICK V : stack \in Seq(V)
      BY <3>1, ListIsSeq
    <3>. QED
      BY <3>2
  <2>3. ASSUME NEW i \in 1 .. Len(stack)
        PROVE  /\ stack[i].fn \in Frames
               /\ stack[i].fn = "analyze" <=> i = 1
               /\ stack[i].fn = "expression" =>
                    i > 1 /\ stack[i - 1].fn \in Frames \ {"expression"}
               /\ stack[i].fn = "block" => /\ stack[i - 1].fn = "statement"
                                           /\ Head(stack[i - 1].parts) = "BLOCK"
               /\ stack[i].fn \in {"arguments", "statement"} => stack[i - 1].fn = "expression"
               /\ i < Len(stack) /\ stack[i].fn # "expression" => ~stack[i].call.back
    <3>1. stack[i].fn \in Frames
      BY <2>1, FrameKinds DEF StackOK
    <3>2. i = 1 => stack[i].fn = "analyze"
      BY <2>1, <2>2 DEF StackOK
    <3>3. i # 1 => MayCall(stack[i - 1], stack[i]) /\ stack[i - 1].fn \in Frames
      <4>1. i # 1 => i \in 2 .. Len(stack) /\ i - 1 \in 1 .. Len(stack)
        BY <2>2
      <4>. QED
        BY <2>1, <4>1, FrameKinds DEF StackOK
    <3>4. i < Len(stack) => MayCall(stack[i], stack[i + 1])
      <4>1. i < Len(stack) => i + 1 \in 2 .. Len(stack) /\ (i + 1) - 1 = i
        BY <2>2
      <4>. QED
        BY <2>1, <4>1 DEF StackOK
    <3>5. i < Len(stack) /\ stack[i].fn # "expression" => ~stack[i].call.back
      BY <3>4 DEF MayCall
    <3>6. CASE i = 1
      BY <3>1, <3>2, <3>5, <3>6
    <3>7. CASE i # 1
      <4>1. i > 1
        BY <2>2, <3>7
      <4>. QED
        BY <3>1, <3>3, <3>5, <3>7, <4>1 DEF MayCall
    <3>. QED
      BY <3>6, <3>7
  <2>. QED
    BY <2>1, <2>2, <2>3 DEF TypeOK, Types
<1>. QED
  BY <1>1, Invariance, PTL

\* The brackets that are open in what parser.c has consumed are those its calls
\* are going to close, in that order: the text that is accepted is balanced.
THEOREM BracketsMatch == Spec => []BracketsOwed
<1>1. ParserInv => BracketsOwed
  BY DEF ParserInv
<1>. QED
  BY <1>1, Invariance, PTL

-----------------------------------------------------------------------------
(* Trees.                                                                  *)

\* The levels up to n, one by one.
IsTower(g, n) == g = [i \in 0 .. n |-> IF i = 0 THEN {} ELSE NodesOver(g[i - 1])]

\* There is one such tower, and it goes on in the next one.
LEMMA TowerExists ==
  ASSUME NEW n \in Nat
  PROVE  \E g : IsTower(g, n)
<1>. DEFINE S == {k \in Nat : \E g : IsTower(g, k)}
<1>1. 0 \in S
  <2>1. PICK g : g = [i \in 0 .. 0 |-> {}]
    OBVIOUS
  <2>2. IsTower(g, 0)
    BY <2>1 DEF IsTower
  <2>. QED
    BY <2>2
<1>2. ASSUME NEW k \in Nat, k \in S
      PROVE  k + 1 \in S
  <2>1. PICK g : IsTower(g, k)
    BY <1>2
  <2>2. PICK h : h = [i \in 0 .. k + 1 |-> IF i = k + 1 THEN NodesOver(g[k]) ELSE g[i]]
    OBVIOUS
  <2>3. ASSUME NEW i \in 0 .. k + 1
        PROVE  h[i] = IF i = 0 THEN {} ELSE NodesOver(h[i - 1])
    <3>1. CASE i = 0
      BY <2>1, <2>2, <3>1 DEF IsTower
    <3>2. CASE i = k + 1
      BY <2>2, <3>2
    <3>3. CASE i \in 1 .. k
      <4>1. /\ i \in 0 .. k /\ i # 0 /\ i # k + 1 /\ i \in 0 .. k + 1
            /\ i - 1 # k + 1 /\ i - 1 \in 0 .. k + 1
        BY <3>3
      <4>2. g[i] = NodesOver(g[i - 1])
        BY <2>1, <4>1 DEF IsTower
      <4>3. h[i] = g[i] /\ h[i - 1] = g[i - 1]
        BY <2>2, <4>1
      <4>. QED
        BY <4>1, <4>2, <4>3
    <3>. QED
      BY <3>1, <3>2, <3>3
  <2>4. IsTower(h, k + 1)
    BY <2>2, <2>3 DEF IsTower
  <2>. QED
    BY <2>4
<1>. HIDE DEF S
<1>3. Nat \subseteq S
  BY <1>1, <1>2, SetInduction
<1>. QED
  BY <1>3 DEF S

\* Two towers have the same levels.
LEMMA TowersAgree ==
  ASSUME NEW m \in Nat, NEW n \in Nat, m <= n, NEW g, IsTower(g, m), NEW h, IsTower(h, n)
  PROVE  g[m] = h[m]
<1>. DEFINE S == {k \in Nat : k <= m => g[k] = h[k]}
<1>1. 0 \in S
  BY DEF IsTower
<1>2. ASSUME NEW k \in Nat, k \in S
      PROVE  k + 1 \in S
  <2>. SUFFICES ASSUME k + 1 <= m
                PROVE  g[k + 1] = h[k + 1]
    OBVIOUS
  <2>1. k + 1 \in 0 .. m /\ k + 1 \in 0 .. n /\ k + 1 # 0 /\ (k + 1) - 1 = k
    OBVIOUS
  <2>2. g[k + 1] = NodesOver(g[k]) /\ h[k + 1] = NodesOver(h[k])
    BY <2>1 DEF IsTower
  <2>. QED
    BY <1>2, <2>2
<1>. HIDE DEF S
<1>3. Nat \subseteq S
  BY <1>1, <1>2, SetInduction
<1>. QED
  BY <1>3 DEF S

\* The trees are the levels of all towers.
LEMMA TreesDefined ==
  /\ Trees[0] = {}
  /\ \A n \in Nat : Trees[n + 1] = NodesOver(Trees[n])
<1>. DEFINE tower(n) == CHOOSE g : IsTower(g, n)
            f == [n \in Nat |-> tower(n)[n]]
            Is(t) == t = [n \in Nat |-> IF n = 0 THEN {} ELSE NodesOver(t[n - 1])]
<1>1. \A n \in Nat : IsTower(tower(n), n)
  BY TowerExists
<1>2. ASSUME NEW n \in Nat
      PROVE  f[n] = IF n = 0 THEN {} ELSE NodesOver(f[n - 1])
  <2>. HIDE DEF tower
  <2>1. CASE n = 0
    BY <1>1, <2>1 DEF IsTower
  <2>2. CASE n # 0
    <3>1. n - 1 \in Nat /\ n - 1 <= n /\ n \in 0 .. n
      BY <2>2
    <3>2. PICK g, h : g = tower(n - 1) /\ h = tower(n) /\ IsTower(g, n - 1) /\ IsTower(h, n)
      BY <1>1, <3>1
    <3>3. g[n - 1] = h[n - 1]
      BY <3>1, <3>2, TowersAgree
    <3>4. h[n] = NodesOver(h[n - 1])
      BY <2>2, <3>1, <3>2 DEF IsTower
    <3>. QED
      BY <2>2, <3>1, <3>2, <3>3, <3>4
  <2>. QED
    BY <2>1, <2>2
<1>. HIDE DEF f
<1>3. Is(f)
  <2>1. f = [n \in Nat |-> f[n]]
    BY DEF f
  <2>. QED
    BY <1>2, <2>1
<1>4. Trees = CHOOSE t : Is(t)
  BY DEF Trees
<1>5. Is(Trees)
  <2>. HIDE DEF Is
  <2>. QED
    BY <1>3, <1>4
<1>6. \A n \in Nat : Trees[n] = IF n = 0 THEN {} ELSE NodesOver(Trees[n - 1])
  BY <1>5
<1>. HIDE DEF Is
<1>7. Trees[0] = {}
  BY <1>6
<1>8. ASSUME NEW n \in Nat
      PROVE  Trees[n + 1] = NodesOver(Trees[n])
  <2>1. n + 1 \in Nat /\ n + 1 # 0 /\ (n + 1) - 1 = n
    OBVIOUS
  <2>. QED
    BY <1>6, <2>1
<1>. QED
  BY <1>7, <1>8

\* Nodes over more children are more nodes.
LEMMA NodesGrow ==
  ASSUME NEW S, NEW T, S \subseteq T
  PROVE  Seq(S) \subseteq Seq(T) /\ NodesOver(S) \subseteq NodesOver(T)
<1>1. Seq(S) \subseteq Seq(T)
  OBVIOUS
<1>. QED
  BY <1>1, Zenon DEF NodesOver

\* A tree of some levels is one of more.
LEMMA TreesGrowOn ==
  ASSUME NEW m \in Nat, NEW n \in Nat, m <= n
  PROVE  Trees[m] \subseteq Trees[n] /\ Seq(Trees[m]) \subseteq Seq(Trees[n])
<1>. DEFINE S == {k \in Nat : Trees[k] \subseteq Trees[k + 1]}
            R == {k \in Nat : Trees[m] \subseteq Trees[m + k]}
<1>1. 0 \in S
  BY TreesDefined
<1>2. ASSUME NEW k \in Nat, k \in S
      PROVE  k + 1 \in S
  <2>1. k + 1 \in Nat /\ Trees[k] \subseteq Trees[k + 1]
    BY <1>2
  <2>2. NodesOver(Trees[k]) \subseteq NodesOver(Trees[k + 1])
    BY <2>1, NodesGrow
  <2>3. Trees[k + 1] = NodesOver(Trees[k]) /\ Trees[(k + 1) + 1] = NodesOver(Trees[k + 1])
    BY <2>1, TreesDefined
  <2>. QED
    BY <2>1, <2>2, <2>3
<1>3. Nat \subseteq S
  <2>. HIDE DEF S
  <2>. QED
    BY <1>1, <1>2, SetInduction
<1>4. 0 \in R
  OBVIOUS
<1>5. ASSUME NEW k \in Nat, k \in R
      PROVE  k + 1 \in R
  <2>1. m + k \in S /\ m + (k + 1) = (m + k) + 1
    BY <1>3
  <2>. QED
    BY <1>5, <2>1
<1>6. Nat \subseteq R
  <2>. HIDE DEF R
  <2>. QED
    BY <1>4, <1>5, SetInduction
<1>7. Trees[m] \subseteq Trees[n]
  <2>1. n - m \in R /\ m + (n - m) = n
    BY <1>6
  <2>. QED
    BY <2>1
<1>. QED
  BY <1>7, NodesGrow

-----------------------------------------------------------------------------
(* What is said of each node of a list.                                    *)

\* The rows of a list: what f says of the nodes.
LEMMA RowsType ==
  ASSUME NEW V, NEW S, NEW f, \A e \in S : f[e] \in Seq(V), NEW x \in Seq(S)
  PROVE  /\ [i \in DOMAIN x |-> f[x[i]]] \in Seq(Seq(V))
         /\ Len([i \in DOMAIN x |-> f[x[i]]]) = Len(x)
         /\ \A i \in 1 .. Len(x) : [j \in DOMAIN x |-> f[x[j]]][i] = f[x[i]]
<1>1. PICK n : n = Len(x) /\ n \in Nat /\ DOMAIN x = 1 .. n
  OBVIOUS
<1>2. \A i \in 1 .. n : x[i] \in S
  BY <1>1
<1>3. \A i \in 1 .. n : f[x[i]] \in Seq(V)
  BY <1>2
<1>4. PICK T : T = Seq(V)
  OBVIOUS
<1>5. PICK r : r = [i \in 1 .. n |-> f[x[i]]]
  OBVIOUS
<1>6. r \in Seq(T) /\ Len(r) = n
  BY <1>1, <1>3, <1>4, <1>5
<1>. QED
  BY <1>1, <1>4, <1>5, <1>6

\* Names for what the provers would take apart.
Join(a, b) == a \o b
Frame(calls, i) == calls[i]
One(e) == <<e>>
Back(held) == Reverse(held)

\* It is said in the order of the list.
Maps(f, S, V) == \A e \in S : f[e] \in Seq(V)

\* What is said of a list behind another comes behind what is said of that.
LEMMA EachJoins ==
  ASSUME NEW V, NEW S, NEW f, Maps(f, S, V), NEW x \in Seq(S), NEW y \in Seq(S)
  PROVE  /\ Each(f, x) \in Seq(V)
         /\ Each(f, Join(x, y)) = Join(Each(f, x), Each(f, y))
<1>. DEFINE rows(s) == [i \in DOMAIN s |-> f[s[i]]]
<1>1. PICK z \in Seq(S) : /\ z = x \o y /\ Len(z) = Len(x) + Len(y)
                         /\ \A i \in 1 .. Len(x) : z[i] = x[i]
                         /\ \A j \in 1 .. Len(y) : z[Len(x) + j] = y[j]
  <2>1. /\ x \o y \in Seq(S) /\ Len(x \o y) = Len(x) + Len(y)
        /\ \A i \in 1 .. Len(x) : (x \o y)[i] = x[i]
        /\ \A i \in 1 .. Len(y) : (x \o y)[Len(x) + i] = y[i]
    OBVIOUS
  <2>. QED
    BY <2>1, Zenon
<1>2. /\ rows(x) \in Seq(Seq(V)) /\ Len(rows(x)) = Len(x)
      /\ \A i \in 1 .. Len(x) : rows(x)[i] = f[x[i]]
  BY RowsType DEF Maps
<1>3. /\ rows(y) \in Seq(Seq(V)) /\ Len(rows(y)) = Len(y)
      /\ \A i \in 1 .. Len(y) : rows(y)[i] = f[y[i]]
  BY RowsType DEF Maps
<1>4. /\ rows(z) \in Seq(Seq(V)) /\ Len(rows(z)) = Len(z)
      /\ \A i \in 1 .. Len(z) : rows(z)[i] = f[z[i]]
  BY RowsType DEF Maps
<1>5. PICK a, b, c, T : a = rows(x) /\ b = rows(y) /\ c = rows(z) /\ T = Seq(V)
  OBVIOUS
<1>6. c = a \o b
  <2>1. a \in Seq(T) /\ b \in Seq(T) /\ c \in Seq(T)
    BY <1>2, <1>3, <1>4, <1>5
  <2>2. PICK m \in Nat, n \in Nat : m = Len(x) /\ n = Len(y)
    <3>1. Len(x) \in Nat /\ Len(y) \in Nat
      OBVIOUS
    <3>. QED
      BY <3>1, Zenon
  <2>3. Len(a) = m /\ Len(b) = n /\ Len(c) = m + n
    BY <1>1, <1>2, <1>3, <1>4, <1>5, <2>2
  <2>4. \A i \in 1 .. m : c[i] = a[i]
    BY <1>1, <1>2, <1>4, <1>5, <2>2
  <2>5. ASSUME NEW i \in 1 .. n
        PROVE  c[m + i] = b[i]
    <3>1. m + i \in 1 .. Len(z)
      BY <1>1, <2>2
    <3>. QED
      BY <1>1, <1>3, <1>4, <1>5, <2>2, <3>1
  <2>6. PICK d : d = a \o b
    OBVIOUS
  <2>7. /\ d \in Seq(T) /\ Len(d) = m + n
        /\ \A i \in 1 .. m : d[i] = a[i]
        /\ \A k \in 1 .. n : d[m + k] = b[k]
    <3>1. /\ a \o b \in Seq(T) /\ Len(a \o b) = Len(a) + Len(b)
          /\ \A i \in 1 .. Len(a) : (a \o b)[i] = a[i]
          /\ \A k \in 1 .. Len(b) : (a \o b)[Len(a) + k] = b[k]
      BY <2>1
    <3>. QED
      BY <2>2, <2>3, <2>6, <3>1, Zenon
  <2>8. ASSUME NEW i \in 1 .. m + n
        PROVE  c[i] = d[i]
    <3>1. CASE i <= m
      BY <2>2, <2>4, <2>7, <3>1
    <3>2. CASE i > m
      <4>1. PICK k \in 1 .. n : m + k = i
        <5>1. i - m \in 1 .. n /\ m + (i - m) = i
          BY <2>2, <3>2
        <5>. QED
          BY <5>1
      <4>2. c[m + k] = b[k] /\ d[m + k] = b[k]
        BY <2>5, <2>7
      <4>. QED
        BY <4>1, <4>2
    <3>. QED
      BY <2>2, <3>1, <3>2
  <2>9. c = d
    <3>1. PICK l \in Nat : l = m + n
      BY <2>2
    <3>2. c \in Seq(T) /\ d \in Seq(T) /\ Len(c) = l /\ Len(d) = l /\ \A i \in 1 .. l : c[i] = d[i]
      BY <2>1, <2>3, <2>7, <2>8, <3>1, Zenon
    <3>3. c = [i \in 1 .. l |-> c[i]] /\ d = [i \in 1 .. l |-> d[i]]
      BY <3>2, SeqIsList, Zenon DEF IsList
    <3>4. [i \in 1 .. l |-> c[i]] = [i \in 1 .. l |-> d[i]]
      BY <3>2
    <3>. QED
      BY <3>3, <3>4, Zenon
  <2>. QED
    BY <2>6, <2>9
<1>7. FlattenSeq(a \o b) = FlattenSeq(a) \o FlattenSeq(b)
  BY <1>2, <1>3, <1>5, FlattenConcat
<1>8. FlattenSeq(a) \in Seq(V)
  <2>1. <<>> \in Seq(V)
    OBVIOUS
  <2>. QED
    BY <1>2, <1>5, <2>1, FlattenAppend
<1>. QED
  BY <1>1, <1>5, <1>6, <1>7, <1>8, Zenon DEF Each, Join

\* Of an empty list nothing is said, of one node what f says.
LEMMA EachOne ==
  ASSUME NEW V, NEW S, NEW f, \A e \in S : f[e] \in Seq(V)
  PROVE  Each(f, <<>>) = <<>> /\ \A e \in S : Each(f, <<e>>) = f[e]
<1>1. PICK none : none = <<>> /\ none \in Seq(Seq(V)) /\ none \in Seq(V) /\ none \in Seq(S)
  <2>1. <<>> \in Seq(Seq(V)) /\ <<>> \in Seq(V) /\ <<>> \in Seq(S)
    OBVIOUS
  <2>. QED
    BY <2>1, Zenon
<1>2. FlattenSeq(none) = none
  BY <1>1 DEF FlattenSeq
<1>3. Each(f, none) = none
  <2>1. [i \in DOMAIN none |-> f[none[i]]] = none
    BY <1>1
  <2>. QED
    BY <1>2, <2>1 DEF Each
<1>4. ASSUME NEW e \in S
      PROVE  Each(f, <<e>>) = f[e]
  <2>1. PICK one : one = <<e>> /\ one \in Seq(S) /\ Len(one) = 1 /\ one[1] = e
    <3>1. <<e>> \in Seq(S) /\ Len(<<e>>) = 1 /\ <<e>>[1] = e
      OBVIOUS
    <3>. QED
      BY <3>1, Zenon
  <2>2. PICK r : r = f[e] /\ r \in Seq(V)
    OBVIOUS
  <2>3. [i \in DOMAIN one |-> f[one[i]]] = Append(none, r)
    BY <1>1, <2>1, <2>2
  <2>4. FlattenSeq(Append(none, r)) = FlattenSeq(none) \o r
    BY <1>1, <2>2, FlattenAppend
  <2>5. none \o r = r
    BY <1>1, <2>2
  <2>. QED
    BY <1>2, <2>1, <2>2, <2>3, <2>4, <2>5 DEF Each
<1>. QED
  BY <1>1, <1>3, <1>4

\* Functions that agree on the nodes of a list say the same of it.
LEMMA EachAgrees ==
  ASSUME NEW S, NEW f, NEW g, \A e \in S : f[e] = g[e], NEW x \in Seq(S)
  PROVE  Each(f, x) = Each(g, x)
<1>1. \A i \in DOMAIN x : x[i] \in S
  OBVIOUS
<1>2. [i \in DOMAIN x |-> f[x[i]]] = [i \in DOMAIN x |-> g[x[i]]]
  BY <1>1
<1>. QED
  BY <1>2 DEF Each

-----------------------------------------------------------------------------
(* Functions of trees.                                                     *)

\* What is said of a tree: something, what is said of the nodes under it, and
\* something more.
TreeStep(front, back, f, node) == (front[node] \o Under(f, node)) \o back[node]

\* The children of a node.
LEMMA ChildrenOf ==
  ASSUME NEW S, NEW node \in NodesOver(S)
  PROVE  /\ node.args \in Seq(S) /\ node.body \in Seq(S)
         /\ node.type \in NodeTypes /\ node.words \in Seq(Token)
BY DEF NodesOver

\* What is said of what is under a node is a sequence.
LEMMA UnderType ==
  ASSUME NEW V, NEW S, NEW f, \A e \in S : f[e] \in Seq(V), NEW node \in NodesOver(S)
  PROVE  Under(f, node) \in Seq(V)
<1>1. node.args \in Seq(S) /\ node.body \in Seq(S)
  BY ChildrenOf
<1>2. Each(f, node.args) \in Seq(V) /\ Each(f, node.body) \in Seq(V)
  BY <1>1, EachJoins DEF Maps
<1>. QED
  BY <1>2 DEF Under

\* Functions that agree on the nodes under a node say the same of them.
LEMMA UnderAgrees ==
  ASSUME NEW S, NEW f, NEW g, \A e \in S : f[e] = g[e], NEW node \in NodesOver(S)
  PROVE  Under(f, node) = Under(g, node)
<1>1. node.args \in Seq(S) /\ node.body \in Seq(S)
  BY ChildrenOf
<1>2. Each(f, node.args) = Each(g, node.args) /\ Each(f, node.body) = Each(g, node.body)
  BY <1>1, EachAgrees
<1>. QED
  BY <1>2 DEF Under

\* There is such a function.
LEMMA TreeFunctionExists ==
  ASSUME NEW h \in Nat, NEW front, NEW back
  PROVE  \E f : f = [node \in Trees[h] |-> TreeStep(front, back, f, node)]
<1>. DEFINE Is(f, n) == f = [node \in Trees[n] |-> TreeStep(front, back, f, node)]
            S == {n \in Nat : \E f : Is(f, n)}
<1>1. 0 \in S
  <2>1. PICK f : f = [node \in Trees[0] |-> node]
    OBVIOUS
  <2>2. f = [node \in Trees[0] |-> TreeStep(front, back, f, node)]
    BY <2>1, TreesDefined
  <2>. QED
    BY <2>2
<1>2. ASSUME NEW n \in Nat, n \in S
      PROVE  n + 1 \in S
  <2>1. PICK f : Is(f, n)
    BY <1>2
  <2>2. PICK g : g = [node \in Trees[n + 1] |-> TreeStep(front, back, f, node)]
    OBVIOUS
  <2>3. Trees[n + 1] = NodesOver(Trees[n]) /\ Trees[n] \subseteq Trees[n + 1]
    BY TreesDefined, TreesGrowOn
  <2>4. \A node \in Trees[n] : f[node] = g[node]
    <3>1. \A node \in Trees[n] : f[node] = TreeStep(front, back, f, node)
      BY <2>1
    <3>. QED
      BY <2>2, <2>3, <3>1
  <2>5. ASSUME NEW node \in Trees[n + 1]
        PROVE  TreeStep(front, back, f, node) = TreeStep(front, back, g, node)
    <3>1. Under(f, node) = Under(g, node)
      BY <2>3, <2>4, UnderAgrees
    <3>. QED
      BY <3>1 DEF TreeStep
  <2>6. Is(g, n + 1)
    BY <2>2, <2>5
  <2>. QED
    BY <2>6
<1>. HIDE DEF S
<1>3. Nat \subseteq S
  BY <1>1, <1>2, SetInduction
<1>. QED
  BY <1>3 DEF S

\* What it says of a tree is a sequence.
LEMMA TreeFunctionType ==
  ASSUME NEW V, NEW h \in Nat, NEW front, NEW back,
         \A node \in Trees[h] : front[node] \in Seq(V) /\ back[node] \in Seq(V),
         NEW f, \A node \in Trees[h] : f[node] = TreeStep(front, back, f, node)
  PROVE  \A node \in Trees[h] : f[node] \in Seq(V)
<1>. DEFINE S == {n \in Nat : n <= h => \A node \in Trees[n] : f[node] \in Seq(V)}
<1>1. 0 \in S
  BY TreesDefined
<1>2. ASSUME NEW n \in Nat, n \in S
      PROVE  n + 1 \in S
  <2>. SUFFICES ASSUME n + 1 <= h, NEW node \in Trees[n + 1]
                PROVE  f[node] \in Seq(V)
    OBVIOUS
  <2>1. Trees[n + 1] = NodesOver(Trees[n]) /\ Trees[n + 1] \subseteq Trees[h]
    <3>1. n + 1 \in Nat
      OBVIOUS
    <3>2. Trees[n + 1] \subseteq Trees[h]
      BY <3>1, TreesGrowOn
    <3>. QED
      BY <3>2, TreesDefined
  <2>2. \A e \in Trees[n] : f[e] \in Seq(V)
    BY <1>2
  <2>3. Under(f, node) \in Seq(V)
    BY <2>1, <2>2, UnderType
  <2>4. front[node] \in Seq(V) /\ back[node] \in Seq(V)
    BY <2>1
  <2>5. TreeStep(front, back, f, node) \in Seq(V)
    BY <2>3, <2>4 DEF TreeStep
  <2>. QED
    BY <2>1, <2>5
<1>. HIDE DEF S
<1>3. Nat \subseteq S
  BY <1>1, <1>2, SetInduction
<1>. QED
  BY <1>3 DEF S

\* Functions that say the same of a tree when they say the same of what is under it.
LEMMA TreeFunctionsAgree ==
  ASSUME NEW h \in Nat, NEW f, NEW g,
         \A node \in Trees[h] : Under(f, node) = Under(g, node) => f[node] = g[node]
  PROVE  \A node \in Trees[h] : f[node] = g[node]
<1>. DEFINE S == {n \in Nat : n <= h => \A node \in Trees[n] : f[node] = g[node]}
<1>1. 0 \in S
  BY TreesDefined
<1>2. ASSUME NEW n \in Nat, n \in S
      PROVE  n + 1 \in S
  <2>. SUFFICES ASSUME n + 1 <= h, NEW node \in Trees[n + 1]
                PROVE  f[node] = g[node]
    OBVIOUS
  <2>1. Trees[n + 1] = NodesOver(Trees[n]) /\ Trees[n + 1] \subseteq Trees[h]
    <3>1. n + 1 \in Nat
      OBVIOUS
    <3>2. Trees[n + 1] \subseteq Trees[h]
      BY <3>1, TreesGrowOn
    <3>. QED
      BY <3>2, TreesDefined
  <2>2. \A e \in Trees[n] : f[e] = g[e]
    BY <1>2
  <2>3. Under(f, node) = Under(g, node)
    BY <2>1, <2>2, UnderAgrees
  <2>. QED
    BY <2>1, <2>3
<1>. HIDE DEF S
<1>3. Nat \subseteq S
  BY <1>1, <1>2, SetInduction
<1>. QED
  BY <1>3 DEF S

\* The parts of a tree.
LEMMA TreeParts ==
  ASSUME NEW h \in Nat, NEW node \in Trees[h]
  PROVE  /\ h \in Nat \ {0} /\ node \in NodesOver(Trees[h - 1])
         /\ node.args \in Seq(Trees[h - 1]) /\ node.body \in Seq(Trees[h - 1])
         /\ node.type \in NodeTypes /\ node.words \in Seq(Token)
         /\ Trees[h - 1] \subseteq Trees[h]
<1>1. h # 0
  BY TreesDefined
<1>2. h - 1 \in Nat /\ (h - 1) + 1 = h /\ h - 1 <= h
  BY <1>1
<1>3. node \in NodesOver(Trees[h - 1])
  BY <1>2, TreesDefined
<1>. QED
  BY <1>1, <1>2, <1>3, ChildrenOf, TreesGrowOn

\* The words of a tree.
LEMMA WordsDefined ==
  ASSUME NEW h \in Nat
  PROVE  \A node \in Trees[h] : /\ Words(h)[node] \in Seq(Token)
                               /\ Words(h)[node] = node.words \o Under(Words(h), node)
<1>. DEFINE Is(f) == f = [node \in Trees[h] |-> node.words \o Under(f, node)]
            front == [node \in Trees[h] |-> node.words]
            back == [node \in Trees[h] |-> <<>>]
<1>1. PICK f : f = [node \in Trees[h] |-> TreeStep(front, back, f, node)]
  BY TreeFunctionExists
<1>2. \A node \in Trees[h] : f[node] = TreeStep(front, back, f, node)
  BY <1>1
<1>3. \A node \in Trees[h] : front[node] \in Seq(Token) /\ back[node] \in Seq(Token)
  <2>1. <<>> \in Seq(Token)
    OBVIOUS
  <2>2. \A node \in Trees[h] : node.words \in Seq(Token)
    BY TreeParts
  <2>. QED
    BY <2>1, <2>2
<1>4. \A node \in Trees[h] : f[node] \in Seq(Token)
  <2>. HIDE DEF front, back
  <2>. QED
    BY <1>2, <1>3, TreeFunctionType
<1>5. ASSUME NEW node \in Trees[h]
      PROVE  f[node] = node.words \o Under(f, node)
  <2>1. Under(f, node) \in Seq(Token) /\ node.words \in Seq(Token)
    BY <1>4, TreeParts, UnderType
  <2>2. PICK a \in Seq(Token), b \in Seq(Token) : a = node.words /\ b = Under(f, node)
    BY <2>1
  <2>3. (a \o b) \o <<>> = a \o b
    OBVIOUS
  <2>. QED
    BY <1>2, <2>2, <2>3 DEF TreeStep
<1>6. Is(f)
  BY <1>1, <1>5
<1>7. Words(h) = CHOOSE w : Is(w)
  BY DEF Words
<1>8. Is(Words(h))
  <2>. HIDE DEF Is
  <2>. QED
    BY <1>6, <1>7
<1>9. PICK w : w = Words(h) /\ \A node \in Trees[h] : w[node] = node.words \o Under(w, node)
  BY <1>8
<1>10. \A node \in Trees[h] : f[node] = w[node]
  <2>1. \A node \in Trees[h] : Under(f, node) = Under(w, node) => f[node] = w[node]
    BY <1>5, <1>9
  <2>. QED
    BY <2>1, TreeFunctionsAgree
<1>. QED
  BY <1>4, <1>9, <1>10

\* The structs of a tree.
LEMMA StructsDefined ==
  ASSUME NEW h \in Nat
  PROVE  \A node \in Trees[h] :
           /\ Structs(h)[node] \in Seq(Trees[h])
           /\ Under(Structs(h), node) \in Seq(Trees[h])
           /\ Structs(h)[node] = Under(Structs(h), node) \o IF IsStruct(node) THEN <<node>> ELSE <<>>
<1>. DEFINE Own(node) == IF IsStruct(node) THEN <<node>> ELSE <<>>
            Is(f) == f = [node \in Trees[h] |-> Under(f, node) \o Own(node)]
            front == [node \in Trees[h] |-> <<>>]
            back == [node \in Trees[h] |-> Own(node)]
<1>1. PICK f : f = [node \in Trees[h] |-> TreeStep(front, back, f, node)]
  BY TreeFunctionExists
<1>2. \A node \in Trees[h] : f[node] = TreeStep(front, back, f, node)
  BY <1>1
<1>3. \A node \in Trees[h] : front[node] \in Seq(Trees[h]) /\ back[node] \in Seq(Trees[h])
  <2>1. <<>> \in Seq(Trees[h])
    OBVIOUS
  <2>2. \A node \in Trees[h] : <<node>> \in Seq(Trees[h])
    <3>1. \A S : \A e \in S : <<e>> \in Seq(S)
      OBVIOUS
    <3>. QED
      BY <3>1, Zenon
  <2>. QED
    BY <2>1, <2>2
<1>4. \A node \in Trees[h] : f[node] \in Seq(Trees[h])
  <2>. HIDE DEF front, back
  <2>. QED
    BY <1>2, <1>3, TreeFunctionType
<1>5. ASSUME NEW node \in Trees[h]
      PROVE  f[node] = Under(f, node) \o Own(node) /\ Under(f, node) \in Seq(Trees[h])
  <2>1. Under(f, node) \in Seq(Trees[h])
    <3>1. \A e \in Trees[h - 1] : f[e] \in Seq(Trees[h])
      BY <1>4, TreeParts
    <3>. QED
      BY <3>1, TreeParts, UnderType
  <2>2. PICK b \in Seq(Trees[h]) : b = Under(f, node)
    BY <2>1
  <2>3. <<>> \o b = b
    OBVIOUS
  <2>. QED
    BY <1>2, <2>2, <2>3 DEF TreeStep
<1>6. Is(f)
  BY <1>1, <1>5
<1>7. Structs(h) = CHOOSE w : Is(w)
  BY DEF Structs
<1>8. Is(Structs(h))
  <2>. HIDE DEF Is
  <2>. QED
    BY <1>6, <1>7
<1>9. PICK w : w = Structs(h) /\ \A node \in Trees[h] : w[node] = Under(w, node) \o Own(node)
  BY <1>8
<1>10. \A node \in Trees[h] : f[node] = w[node]
  <2>1. \A node \in Trees[h] : Under(f, node) = Under(w, node) => f[node] = w[node]
    BY <1>5, <1>9
  <2>. QED
    BY <2>1, TreeFunctionsAgree
<1>11. ASSUME NEW node \in Trees[h]
       PROVE  Under(f, node) = Under(w, node)
  <2>1. \A e \in Trees[h - 1] : f[e] = w[e]
    BY <1>10, TreeParts
  <2>2. node \in NodesOver(Trees[h - 1])
    BY TreeParts
  <2>. QED
    BY <2>1, <2>2, UnderAgrees
<1>. QED
  BY <1>4, <1>5, <1>9, <1>10, <1>11

-----------------------------------------------------------------------------
(* What the calls have built.                                              *)

\* HasArray, of any list of tokens.
HasArrayIn(toks) == \E i \in DOMAIN toks : toks[i] = "[" /\ (i = 1 \/ toks[i - 1] \notin Names)

\* The nodes of a frame, in the order they will have in the tree.
NodesOf(f) ==
  CASE f.fn = "expression" -> f.out \o Reverse(f.held)
    [] f.fn = "arguments" -> f.node.args \o f.call.list
    [] f.fn = "statement" -> (f.node.args \o f.node.body) \o f.call.list
    [] OTHER -> f.root \o f.call.list

OwnWords(f) == IF f.fn \in {"arguments", "statement"} THEN f.node.words ELSE <<>>

\* The words and the structs of a frame.
Says(w, f) == OwnWords(f) \o Each(w, NodesOf(f))
Has(z, f) == Each(z, NodesOf(f))

\* Only a call that has returned has a list.
ListTree(call, S) == call.list \in Seq(S) /\ (call.back = FALSE => call.list = <<>>)

ExpressionTree(f, S, toks) ==
  /\ f.out \in Seq(S) /\ f.held \in Seq(S)
  /\ HasArrayIn(toks) \/ \A k \in 1 .. Len(f.held) : f.held[k] = Open

ArgumentsTree(f, S, toks) ==
  /\ f.node.type \in {"FUNCTION_CALL", "ARRAY_ACCESS", "ARRAY", "OBJECT_INIT"}
  /\ HasArrayIn(toks) \/ f.node.type # "ARRAY"
  /\ f.node.words \in Seq(Token) /\ f.node.args \in Seq(S) /\ f.node.body = <<>>
  /\ ListTree(f.call, S)

\* A part of one of some kinds is to come.
Ahead(parts, kinds) == \E k \in DOMAIN parts : parts[k] \in kinds

StatementTree(f, S) ==
  /\ f.node.type \in {"KEYWORD", "DECL_FUNCTION"}
  /\ f.node.args \in Seq(S) /\ f.node.body \in Seq(S) /\ ListTree(f.call, S)
  /\ Ordered(f.parts)
  /\ Ahead(f.parts, {"IDENTIFIER"}) => f.node.args = <<>> /\ f.node.body = <<>>
  /\ Ahead(f.parts, Asking) => f.node.body = <<>>

BlockTree(f, S) ==
  f.root \in Seq(S) /\ ListTree(f.call, S) /\ (f.first # FALSE => f.root = <<>>)

AnalyzeTree(f, S) == f.root \in Seq(S) /\ ListTree(f.call, S)

\* The nodes of a frame are in S, in the places the tree has for them.
FrameTree(f, S, toks) ==
  /\ f.fn = "expression" => ExpressionTree(f, S, toks)
  /\ f.fn = "arguments" => ArgumentsTree(f, S, toks)
  /\ f.fn = "statement" => StatementTree(f, S)
  /\ f.fn = "block" => BlockTree(f, S)
  /\ f.fn = "analyze" => AnalyzeTree(f, S)

\* The levels a node of the i-th frame has at most when p - 1 tokens are
\* consumed, and those a function needs for what it calls.
Levels(p, i) == 3 * p - i
Room(fn) == IF fn = "expression" THEN 1 ELSE IF fn \in {"analyze", "block"} THEN 2 ELSE 3

\* An object initialiser is being read: its type is in no tree, and its end is an error.
Objects(calls) == \E i \in 1 .. Len(calls) :
  calls[i].fn = "arguments" /\ calls[i].node.type = "OBJECT_INIT"

KeptUpTo(toks, n) == FlattenSeq([i \in 1 .. n |-> Kept(toks[i])])
SaidUpTo(w, calls, n) == FlattenSeq([i \in 1 .. n |-> Says(w, calls[i])])
HadUpTo(z, calls, n) == FlattenSeq([i \in 1 .. n |-> Has(z, calls[i])])

\* MayFollow, in any list of tokens.
Follows(toks, a, b) ==
  NameOf(a) = NameOf(b) => ~HasFields(b) \/ (HasArrayIn(toks) /\ ~HasFields(a))

DeclaredIn(toks, structs, names) ==
  \A i \in 1 .. Len(structs) :
    /\ NameOf(structs[i]) \in names
    /\ HasFields(structs[i]) => NameOf(structs[i]) \notin PrimitiveTypes
    /\ \A j \in i + 1 .. Len(structs) : Follows(toks, structs[i], structs[j])

FramesGrow(calls, p, toks) ==
  \A i \in 1 .. Len(calls) :
    i + Room(calls[i].fn) <= 3 * p /\ FrameTree(calls[i], Trees[Levels(p, i)], toks)

\* The trees of a list of tokens, their words and their structs.
TreesIn(toks) == Trees[3 * Len(toks)]
WordsIn(toks) == Words(3 * Len(toks))
StructsIn(toks) == Structs(3 * Len(toks))

WordsGrow(calls, p, toks) ==
  HasArrayIn(toks) \/ Objects(calls)
    \/ KeptUpTo(toks, p - 1) = SaidUpTo(WordsIn(toks), calls, Len(calls))

StructsGrow(calls, toks, names) ==
  DeclaredIn(toks, HadUpTo(StructsIn(toks), calls, Len(calls)), names)

Grows(calls, p, toks, names) ==
  FramesGrow(calls, p, toks) /\ WordsGrow(calls, p, toks) /\ StructsGrow(calls, toks, names)

\* Behind a name an opening bracket is not the start of an expression.
BracketPlace ==
  pos > 1 /\ tokens[pos] = "[" /\ tokens[pos - 1] \in Names =>
    /\ Top.fn = "statement" /\ Top.call.back = FALSE
    /\ Top.parts # <<>> /\ Head(Top.parts) \in Punctuation

TreesGrow ==
  /\ status = "running" => Grows(stack, pos, tokens, types) /\ BracketPlace
  /\ KeepsEveryWord /\ OneStructPerName

-----------------------------------------------------------------------------
(* Lists, row by row.                                                      *)

\* Sequences one behind the other.
LEMMA Joining ==
  ASSUME NEW V
  PROVE  /\ <<>> \in Seq(V)
         /\ \A a \in Seq(V) : Join(a, <<>>) = a /\ Join(<<>>, a) = a
         /\ \A a, b \in Seq(V) : Join(a, b) \in Seq(V)
         /\ \A a, b, c \in Seq(V) : Join(Join(a, b), c) = Join(a, Join(b, c))
<1>1. ASSUME NEW a \in Seq(V)
      PROVE  a \o <<>> = a /\ <<>> \o a = a
  OBVIOUS
<1>2. ASSUME NEW a \in Seq(V), NEW b \in Seq(V)
      PROVE  a \o b \in Seq(V)
  OBVIOUS
<1>3. ASSUME NEW a \in Seq(V), NEW b \in Seq(V), NEW c \in Seq(V)
      PROVE  (a \o b) \o c = a \o (b \o c)
  OBVIOUS
<1>4. <<>> \in Seq(V)
  OBVIOUS
<1>. QED
  BY <1>1, <1>2, <1>3, <1>4, Zenon DEF Join

\* One row more.
LEMMA RowMore ==
  ASSUME NEW V, NEW n \in Nat, NEW r, r = [i \in 1 .. n + 1 |-> r[i]],
         \A i \in 1 .. n + 1 : r[i] \in Seq(V)
  PROVE  /\ FlattenSeq([i \in 1 .. n |-> r[i]]) \in Seq(V)
         /\ FlattenSeq(r) = FlattenSeq([i \in 1 .. n |-> r[i]]) \o r[n + 1]
         /\ FlattenSeq(r) \in Seq(V)
<1>1. PICK T : T = Seq(V)
  OBVIOUS
<1>2. PICK s : s = [i \in 1 .. n |-> r[i]]
  OBVIOUS
<1>3. \A i \in 1 .. n : r[i] \in T
  BY <1>1
<1>4. s \in Seq(T) /\ Len(s) = n /\ \A i \in 1 .. n : s[i] = r[i]
  <2>1. s \in [1 .. n -> T] /\ \A i \in 1 .. n : s[i] = r[i]
    BY <1>2, <1>3
  <2>2. ASSUME NEW A, NEW k \in Nat, NEW g \in [1 .. k -> A]
        PROVE  g \in Seq(A) /\ Len(g) = k
    OBVIOUS
  <2>. QED
    BY <2>1, <2>2, Zenon
<1>5. PICK e \in T : e = r[n + 1]
  BY <1>1
<1>6. PICK u : /\ u = Append(s, e) /\ u \in Seq(T) /\ Len(u) = n + 1 /\ u[n + 1] = e
               /\ \A i \in 1 .. n : u[i] = s[i]
  <2>1. /\ Append(s, e) \in Seq(T) /\ Len(Append(s, e)) = Len(s) + 1
        /\ Append(s, e)[Len(s) + 1] = e /\ \A i \in 1 .. Len(s) : Append(s, e)[i] = s[i]
    BY <1>4, AppendProperties
  <2>. QED
    BY <1>4, <2>1, Zenon
<1>7. u = [i \in 1 .. n + 1 |-> u[i]]
  <2>1. IsList(u)
    BY <1>6, SeqIsList
  <2>. QED
    BY <1>6, <2>1, Zenon DEF IsList
<1>8. \A i \in 1 .. n + 1 : u[i] = r[i]
  <2>1. \A i \in 1 .. n + 1 : i = n + 1 \/ i \in 1 .. n
    OBVIOUS
  <2>. QED
    BY <1>4, <1>5, <1>6, <2>1, Zenon
<1>9. u = r
  <2>1. [i \in 1 .. n + 1 |-> u[i]] = [i \in 1 .. n + 1 |-> r[i]]
    BY <1>8
  <2>. QED
    BY <1>7, <2>1, Zenon
<1>10. FlattenSeq(Append(s, e)) = FlattenSeq(s) \o e /\ FlattenSeq(s) \in Seq(V)
  BY <1>1, <1>4, <1>5, FlattenAppend
<1>11. FlattenSeq(s) \o e \in Seq(V)
  BY <1>1, <1>5, <1>10
<1>. QED
  BY <1>2, <1>5, <1>6, <1>9, <1>10, <1>11, Zenon

\* Without rows there is nothing.
LEMMA NoRows == ASSUME NEW r PROVE FlattenSeq([i \in 1 .. 0 |-> r[i]]) = <<>>
<1>1. [i \in 1 .. 0 |-> r[i]] = <<>>
  OBVIOUS
<1>. QED
  BY <1>1, NothingOwed

\* Up to the next token.
LEMMA KeptNext ==
  ASSUME NEW toks \in Seq(Token), NEW n \in Nat, n < Len(toks)
  PROVE  /\ KeptUpTo(toks, n) \in Seq(Token) /\ KeptUpTo(toks, n + 1) \in Seq(Token)
         /\ KeptUpTo(toks, n + 1) = Join(KeptUpTo(toks, n), Kept(toks[n + 1]))
<1>1. \A i \in 1 .. n + 1 : Kept(toks[i]) \in Seq(Token)
  <2>1. \A t \in Token : <<t>> \in Seq(Token) /\ <<>> \in Seq(Token)
    OBVIOUS
  <2>2. \A i \in 1 .. n + 1 : toks[i] \in Token
    OBVIOUS
  <2>. QED
    BY <2>1, <2>2, Zenon DEF Kept
<1>2. PICK r : r = [i \in 1 .. n + 1 |-> Kept(toks[i])]
  OBVIOUS
<1>3. \A i \in 1 .. n + 1 : r[i] = Kept(toks[i]) /\ r[i] \in Seq(Token)
  BY <1>1, <1>2
<1>4. /\ FlattenSeq([i \in 1 .. n |-> r[i]]) \in Seq(Token)
      /\ FlattenSeq(r) = FlattenSeq([i \in 1 .. n |-> r[i]]) \o r[n + 1]
      /\ FlattenSeq(r) \in Seq(Token)
  <2>1. r = [i \in 1 .. n + 1 |-> r[i]]
    BY <1>2
  <2>. QED
    BY <1>3, <2>1, RowMore
<1>5. [i \in 1 .. n |-> r[i]] = [i \in 1 .. n |-> Kept(toks[i])]
  BY <1>3
<1>6. n + 1 \in 1 .. n + 1
  OBVIOUS
<1>. QED
  BY <1>2, <1>3, <1>4, <1>5, <1>6, Zenon DEF KeptUpTo, Join

\* The number behind another.
IsNext(n, m) == n \in Nat /\ m = n + 1

SaidIn(V, w, calls, n) == \A i \in 1 .. n : Says(w, calls[i]) \in Seq(V)
HadIn(V, z, calls, n) == \A i \in 1 .. n : Has(z, calls[i]) \in Seq(V)

\* Up to the next frame.
LEMMA SaidNext ==
  ASSUME NEW V, NEW w, NEW calls, NEW n, NEW m, IsNext(n, m), SaidIn(V, w, calls, m)
  PROVE  /\ SaidUpTo(w, calls, n) \in Seq(V) /\ SaidUpTo(w, calls, m) \in Seq(V)
         /\ SaidUpTo(w, calls, m) = Join(SaidUpTo(w, calls, n), Says(w, Frame(calls, m)))
<1>1. n \in Nat /\ m = n + 1
  BY DEF IsNext
<1>2. PICK r : r = [i \in 1 .. n + 1 |-> Says(w, calls[i])]
  OBVIOUS
<1>3. \A i \in 1 .. n + 1 : r[i] = Says(w, calls[i]) /\ r[i] \in Seq(V)
  BY <1>1, <1>2 DEF SaidIn
<1>4. /\ FlattenSeq([i \in 1 .. n |-> r[i]]) \in Seq(V)
      /\ FlattenSeq(r) = FlattenSeq([i \in 1 .. n |-> r[i]]) \o r[n + 1]
      /\ FlattenSeq(r) \in Seq(V)
  <2>1. r = [i \in 1 .. n + 1 |-> r[i]]
    BY <1>1, <1>2
  <2>. QED
    BY <1>1, <1>3, <2>1, RowMore
<1>5. [i \in 1 .. n |-> r[i]] = [i \in 1 .. n |-> Says(w, calls[i])]
  BY <1>1, <1>3
<1>6. n + 1 \in 1 .. n + 1
  BY <1>1
<1>. QED
  BY <1>1, <1>2, <1>3, <1>4, <1>5, <1>6, Zenon DEF SaidUpTo, Join, Frame

\* Up to the next frame, its structs.
LEMMA HadNext ==
  ASSUME NEW V, NEW z, NEW calls, NEW n, NEW m, IsNext(n, m), HadIn(V, z, calls, m)
  PROVE  /\ HadUpTo(z, calls, n) \in Seq(V) /\ HadUpTo(z, calls, m) \in Seq(V)
         /\ HadUpTo(z, calls, m) = Join(HadUpTo(z, calls, n), Has(z, Frame(calls, m)))
<1>1. n \in Nat /\ m = n + 1
  BY DEF IsNext
<1>2. PICK r : r = [i \in 1 .. n + 1 |-> Has(z, calls[i])]
  OBVIOUS
<1>3. \A i \in 1 .. n + 1 : r[i] = Has(z, calls[i]) /\ r[i] \in Seq(V)
  BY <1>1, <1>2 DEF HadIn
<1>4. /\ FlattenSeq([i \in 1 .. n |-> r[i]]) \in Seq(V)
      /\ FlattenSeq(r) = FlattenSeq([i \in 1 .. n |-> r[i]]) \o r[n + 1]
      /\ FlattenSeq(r) \in Seq(V)
  <2>1. r = [i \in 1 .. n + 1 |-> r[i]]
    BY <1>1, <1>2
  <2>. QED
    BY <1>1, <1>3, <2>1, RowMore
<1>5. [i \in 1 .. n |-> r[i]] = [i \in 1 .. n |-> Has(z, calls[i])]
  BY <1>1, <1>3
<1>6. n + 1 \in 1 .. n + 1
  BY <1>1
<1>. QED
  BY <1>1, <1>2, <1>3, <1>4, <1>5, <1>6, Zenon DEF HadUpTo, Join, Frame

\* Stacks with the same frames below.
LEMMA SameBelow ==
  ASSUME NEW w, NEW z, NEW calls, NEW more, NEW n \in Nat, \A i \in 1 .. n : more[i] = calls[i]
  PROVE  SaidUpTo(w, more, n) = SaidUpTo(w, calls, n) /\ HadUpTo(z, more, n) = HadUpTo(z, calls, n)
<1>1. [i \in 1 .. n |-> Says(w, more[i])] = [i \in 1 .. n |-> Says(w, calls[i])]
  OBVIOUS
<1>2. [i \in 1 .. n |-> Has(z, more[i])] = [i \in 1 .. n |-> Has(z, calls[i])]
  OBVIOUS
<1>. QED
  BY <1>1, <1>2 DEF SaidUpTo, HadUpTo

-----------------------------------------------------------------------------
(* Structs that were declared one after the other.                         *)

Apart(toks, s, t) == \A i \in 1 .. Len(s) : \A j \in 1 .. Len(t) : Follows(toks, s[i], t[j])

\* The indices of two lists one behind the other.
LEMMA ConcatIndices ==
  ASSUME NEW V, NEW s \in Seq(V), NEW t \in Seq(V)
  PROVE  /\ s \o t \in Seq(V) /\ Len(s \o t) = Len(s) + Len(t)
         /\ Len(s) \in Nat /\ Len(t) \in Nat
         /\ \A i \in 1 .. Len(s) : (s \o t)[i] = s[i]
         /\ \A i \in 1 .. Len(t) : (s \o t)[Len(s) + i] = t[i]
         /\ \A i \in Len(s) + 1 .. Len(s) + Len(t) : i - Len(s) \in 1 .. Len(t) /\ (s \o t)[i] = t[i - Len(s)]
OBVIOUS

\* The same of two lists and one that is the first with the second behind it.
IsConcat(u, s, t) ==
  /\ Len(u) = Len(s) + Len(t)
  /\ \A i \in 1 .. Len(s) : u[i] = s[i]
  /\ \A i \in 1 .. Len(t) : u[Len(s) + i] = t[i]
  /\ \A i \in Len(s) + 1 .. Len(s) + Len(t) : i - Len(s) \in 1 .. Len(t) /\ u[i] = t[i - Len(s)]

LEMMA ConcatHolds ==
  ASSUME NEW V, NEW s \in Seq(V), NEW t \in Seq(V)
  PROVE  IsConcat(s \o t, s, t)
BY DEF IsConcat

\* Lists of declared structs one behind the other: no struct of the second is
\* before one of the first that it may not follow.
LEMMA DeclaredJoins ==
  ASSUME NEW toks, NEW V, NEW s \in Seq(V), NEW t \in Seq(V), NEW names
  PROVE  DeclaredIn(toks, s \o t, names)
           <=> DeclaredIn(toks, s, names) /\ DeclaredIn(toks, t, names) /\ Apart(toks, s, t)
<1>1. PICK m \in Nat, n \in Nat : m = Len(s) /\ n = Len(t)
  <2>1. Len(s) \in Nat /\ Len(t) \in Nat
    OBVIOUS
  <2>. QED
    BY <2>1, Zenon
<1>2. PICK u : /\ u = s \o t /\ Len(u) = m + n
               /\ \A i \in 1 .. m : u[i] = s[i]
               /\ \A i \in 1 .. n : u[m + i] = t[i]
               /\ \A i \in m + 1 .. m + n : i - m \in 1 .. n /\ u[i] = t[i - m]
  <2>1. /\ Len(s \o t) = Len(s) + Len(t)
        /\ \A i \in 1 .. Len(s) : (s \o t)[i] = s[i]
        /\ \A i \in 1 .. Len(t) : (s \o t)[Len(s) + i] = t[i]
        /\ \A i \in Len(s) + 1 .. Len(s) + Len(t) : i - Len(s) \in 1 .. Len(t) /\ (s \o t)[i] = t[i - Len(s)]
    BY ConcatIndices
  <2>. QED
    BY <1>1, <2>1, Zenon
<1>3. ASSUME DeclaredIn(toks, u, names)
      PROVE  DeclaredIn(toks, s, names)
  <2>1. ASSUME NEW i \in 1 .. m
        PROVE  /\ NameOf(s[i]) \in names
               /\ HasFields(s[i]) => NameOf(s[i]) \notin PrimitiveTypes
               /\ \A j \in i + 1 .. m : Follows(toks, s[i], s[j])
    <3>1. i \in 1 .. Len(u) /\ u[i] = s[i]
      BY <1>2
    <3>2. \A j \in i + 1 .. m : j \in i + 1 .. Len(u) /\ u[j] = s[j]
      BY <1>2
    <3>. QED
      BY <1>3, <3>1, <3>2, Zenon DEF DeclaredIn
  <2>. QED
    BY <1>1, <2>1 DEF DeclaredIn
<1>4. ASSUME DeclaredIn(toks, u, names)
      PROVE  DeclaredIn(toks, t, names)
  <2>1. ASSUME NEW i \in 1 .. n
        PROVE  /\ NameOf(t[i]) \in names
               /\ HasFields(t[i]) => NameOf(t[i]) \notin PrimitiveTypes
               /\ \A j \in i + 1 .. n : Follows(toks, t[i], t[j])
    <3>1. m + i \in 1 .. Len(u) /\ u[m + i] = t[i]
      BY <1>2
    <3>2. \A j \in i + 1 .. n : m + j \in (m + i) + 1 .. Len(u) /\ u[m + j] = t[j]
      BY <1>2
    <3>. QED
      BY <1>4, <3>1, <3>2, Zenon DEF DeclaredIn
  <2>. QED
    BY <1>1, <2>1 DEF DeclaredIn
<1>5. ASSUME DeclaredIn(toks, u, names)
      PROVE  Apart(toks, s, t)
  <2>1. ASSUME NEW i \in 1 .. m, NEW j \in 1 .. n
        PROVE  Follows(toks, s[i], t[j])
    <3>1. i \in 1 .. Len(u) /\ u[i] = s[i] /\ m + j \in i + 1 .. Len(u) /\ u[m + j] = t[j]
      BY <1>2
    <3>. QED
      BY <1>5, <3>1, Zenon DEF DeclaredIn
  <2>. QED
    BY <1>1, <2>1 DEF Apart
<1>6. ASSUME DeclaredIn(toks, s, names), DeclaredIn(toks, t, names), Apart(toks, s, t)
      PROVE  DeclaredIn(toks, u, names)
  <2>1. ASSUME NEW i \in 1 .. m + n
        PROVE  /\ NameOf(u[i]) \in names
               /\ HasFields(u[i]) => NameOf(u[i]) \notin PrimitiveTypes
               /\ \A j \in i + 1 .. m + n : Follows(toks, u[i], u[j])
    <3>1. CASE i \in 1 .. m
      <4>1. /\ u[i] = s[i] /\ NameOf(s[i]) \in names
            /\ HasFields(s[i]) => NameOf(s[i]) \notin PrimitiveTypes
        BY <1>1, <1>2, <1>6, <3>1 DEF DeclaredIn
      <4>2. ASSUME NEW j \in i + 1 .. m + n
            PROVE  Follows(toks, s[i], u[j])
        <5>1. CASE j \in 1 .. m
          <6>1. j \in i + 1 .. m
            BY <5>1
          <6>. QED
            BY <1>1, <1>2, <1>6, <3>1, <5>1, <6>1 DEF DeclaredIn
        <5>2. CASE j \in m + 1 .. m + n
          BY <1>1, <1>2, <1>6, <3>1, <5>2 DEF Apart
        <5>. QED
          BY <5>1, <5>2
      <4>. QED
        BY <4>1, <4>2
    <3>2. CASE i \in m + 1 .. m + n
      <4>1. PICK k \in 1 .. n : k = i - m /\ u[i] = t[k]
        BY <1>2, <3>2
      <4>2. /\ NameOf(t[k]) \in names
            /\ HasFields(t[k]) => NameOf(t[k]) \notin PrimitiveTypes
        BY <1>1, <1>6, <4>1 DEF DeclaredIn
      <4>3. ASSUME NEW j \in i + 1 .. m + n
            PROVE  Follows(toks, t[k], u[j])
        <5>1. j \in m + 1 .. m + n /\ j - m \in k + 1 .. n
          BY <3>2, <4>1
        <5>2. u[j] = t[j - m]
          BY <1>2, <5>1
        <5>. QED
          BY <1>1, <1>6, <4>1, <5>1, <5>2 DEF DeclaredIn
      <4>. QED
        BY <4>1, <4>2, <4>3
    <3>. QED
      BY <3>1, <3>2
  <2>. QED
    BY <1>2, <2>1 DEF DeclaredIn
<1>. QED
  BY <1>2, <1>3, <1>4, <1>5, <1>6, Zenon

\* What may follow both of two lists may follow one behind the other.
LEMMA ApartJoins ==
  ASSUME NEW toks, NEW V, NEW s \in Seq(V), NEW t \in Seq(V), NEW u \in Seq(V)
  PROVE  /\ Apart(toks, s \o t, u) <=> Apart(toks, s, u) /\ Apart(toks, t, u)
         /\ Apart(toks, s, t \o u) <=> Apart(toks, s, t) /\ Apart(toks, s, u)
         /\ HasArrayIn(toks) => (Apart(toks, s, t) <=> Apart(toks, t, s))
<1>1. ASSUME NEW a \in Seq(V), NEW b \in Seq(V), NEW c \in Seq(V)
      PROVE  /\ Apart(toks, a \o b, c) <=> Apart(toks, a, c) /\ Apart(toks, b, c)
             /\ Apart(toks, c, a \o b) <=> Apart(toks, c, a) /\ Apart(toks, c, b)
  <2>1. PICK m \in Nat, n \in Nat : m = Len(a) /\ n = Len(b)
    <3>1. Len(a) \in Nat /\ Len(b) \in Nat
      OBVIOUS
    <3>. QED
      BY <3>1, Zenon
  <2>2. PICK d : /\ d = a \o b /\ Len(d) = m + n
                 /\ \A i \in 1 .. m : d[i] = a[i] /\ i \in 1 .. m + n
                 /\ \A i \in 1 .. n : d[m + i] = b[i] /\ m + i \in 1 .. m + n
                 /\ \A i \in m + 1 .. m + n : i - m \in 1 .. n /\ d[i] = b[i - m]
    <3>1. /\ \A i \in 1 .. m : i \in 1 .. m + n
          /\ \A i \in 1 .. n : m + i \in 1 .. m + n
      OBVIOUS
    <3>2. /\ Len(a \o b) = Len(a) + Len(b)
          /\ \A i \in 1 .. Len(a) : (a \o b)[i] = a[i]
          /\ \A i \in 1 .. Len(b) : (a \o b)[Len(a) + i] = b[i]
          /\ \A i \in Len(a) + 1 .. Len(a) + Len(b) : i - Len(a) \in 1 .. Len(b) /\ (a \o b)[i] = b[i - Len(a)]
      <4>1. IsConcat(a \o b, a, b)
        BY ConcatHolds
      <4>. QED
        BY <4>1, Zenon DEF IsConcat
    <3>. QED
      BY <2>1, <3>1, <3>2, Zenon
  <2>3. \A i \in 1 .. m + n : i \in 1 .. m \/ i \in m + 1 .. m + n
    OBVIOUS
  <2>4. ASSUME NEW k
        PROVE  /\ (\A i \in 1 .. m + n : Follows(toks, d[i], c[k]))
                    <=> (\A i \in 1 .. m : Follows(toks, a[i], c[k])) /\ (\A i \in 1 .. n : Follows(toks, b[i], c[k]))
               /\ (\A i \in 1 .. m + n : Follows(toks, c[k], d[i]))
                    <=> (\A i \in 1 .. m : Follows(toks, c[k], a[i])) /\ (\A i \in 1 .. n : Follows(toks, c[k], b[i]))
    BY <2>2, <2>3
  <2>5. Apart(toks, d, c) <=> Apart(toks, a, c) /\ Apart(toks, b, c)
    BY <2>1, <2>2, <2>4 DEF Apart
  <2>6. Apart(toks, c, d) <=> Apart(toks, c, a) /\ Apart(toks, c, b)
    BY <2>1, <2>2, <2>4 DEF Apart
  <2>. QED
    BY <2>2, <2>5, <2>6
<1>2. HasArrayIn(toks) => \A a, b : Follows(toks, a, b) <=> Follows(toks, b, a)
  BY Zenon DEF Follows
<1>3. HasArrayIn(toks) => (Apart(toks, s, t) <=> Apart(toks, t, s))
  BY <1>2, Zenon DEF Apart
<1>. QED
  BY <1>1, <1>3, Zenon

-----------------------------------------------------------------------------
(* The frames and their nodes.                                             *)

\* The nodes of a frame are in S, and its words are tokens.
LEMMA NodesType ==
  ASSUME NEW f, FrameOK(f), NEW S, NEW toks, FrameTree(f, S, toks)
  PROVE  NodesOf(f) \in Seq(S) /\ OwnWords(f) \in Seq(Token)
<1>0. \A a, b \in Seq(S) : a \o b \in Seq(S)
  OBVIOUS
<1>1. <<>> \in Seq(Token)
  OBVIOUS
<1>2. CASE f.fn = "expression"
  <2>1. f.out \in Seq(S) /\ Reverse(f.held) \in Seq(S)
    BY <1>2, ReverseProperties DEF FrameTree, ExpressionTree
  <2>2. NodesOf(f) = f.out \o Reverse(f.held) /\ OwnWords(f) = <<>>
    BY <1>2 DEF NodesOf, OwnWords
  <2>. QED
    BY <1>0, <1>1, <2>1, <2>2
<1>3. CASE f.fn = "arguments"
  <2>1. f.node.args \in Seq(S) /\ f.call.list \in Seq(S) /\ f.node.words \in Seq(Token)
    BY <1>3 DEF FrameTree, ArgumentsTree, ListTree
  <2>2. NodesOf(f) = f.node.args \o f.call.list /\ OwnWords(f) = f.node.words
    BY <1>3 DEF NodesOf, OwnWords
  <2>. QED
    BY <1>0, <2>1, <2>2
<1>4. CASE f.fn = "statement"
  <2>1. f.node.args \in Seq(S) /\ f.node.body \in Seq(S) /\ f.call.list \in Seq(S)
    BY <1>4 DEF FrameTree, StatementTree, ListTree
  <2>2. NodesOf(f) = (f.node.args \o f.node.body) \o f.call.list /\ OwnWords(f) = f.node.words
    BY <1>4 DEF NodesOf, OwnWords
  <2>3. f.node.words \in Seq(Token)
    BY <1>4, FrameKinds DEF StatementOK, IsNode
  <2>. QED
    BY <1>0, <2>1, <2>2, <2>3
<1>5. CASE f.fn \in {"block", "analyze"}
  <2>1. f.root \in Seq(S) /\ f.call.list \in Seq(S)
    BY <1>5 DEF FrameTree, BlockTree, AnalyzeTree, ListTree
  <2>2. NodesOf(f) = f.root \o f.call.list /\ OwnWords(f) = <<>>
    BY <1>5 DEF NodesOf, OwnWords
  <2>. QED
    BY <1>0, <1>1, <2>1, <2>2
<1>. QED
  BY <1>2, <1>3, <1>4, <1>5, FrameKinds DEF Frames

\* Nodes may have more levels.
LEMMA FrameTreeGrows ==
  ASSUME NEW S, NEW T, S \subseteq T, NEW f, NEW toks, FrameTree(f, S, toks)
  PROVE  FrameTree(f, T, toks)
<1>1. \A x \in Seq(S) : x \in Seq(T)
  OBVIOUS
<1>. QED
  BY <1>1, Zenon DEF FrameTree, ExpressionTree, ArgumentsTree, StatementTree, BlockTree, AnalyzeTree, ListTree

\* What a frame says and has are tokens and trees.
LEMMA SaysType ==
  ASSUME NEW h \in Nat, NEW S, S \subseteq Trees[h], NEW f, FrameOK(f), NEW toks, FrameTree(f, S, toks)
  PROVE  /\ Says(Words(h), f) \in Seq(Token) /\ Each(Words(h), NodesOf(f)) \in Seq(Token)
         /\ Has(Structs(h), f) \in Seq(Trees[h])
         /\ NodesOf(f) \in Seq(Trees[h]) /\ OwnWords(f) \in Seq(Token)
<1>1. NodesOf(f) \in Seq(Trees[h]) /\ OwnWords(f) \in Seq(Token)
  <2>1. NodesOf(f) \in Seq(S) /\ OwnWords(f) \in Seq(Token)
    BY NodesType
  <2>2. Seq(S) \subseteq Seq(Trees[h])
    BY NodesGrow
  <2>. QED
    BY <2>1, <2>2
<1>2. \A e \in Trees[h] : Words(h)[e] \in Seq(Token) /\ Structs(h)[e] \in Seq(Trees[h])
  BY WordsDefined, StructsDefined
<1>3. Each(Words(h), NodesOf(f)) \in Seq(Token) /\ Each(Structs(h), NodesOf(f)) \in Seq(Trees[h])
  BY <1>1, <1>2, EachJoins DEF Maps
<1>4. OwnWords(f) \o Each(Words(h), NodesOf(f)) \in Seq(Token)
  <2>1. \A a, b \in Seq(Token) : a \o b \in Seq(Token)
    OBVIOUS
  <2>. QED
    BY <1>1, <1>3, <2>1
<1>. QED
  BY <1>1, <1>3, <1>4 DEF Says, Has

\* Every frame of a stack has its place.
LEMMA FramesInside ==
  ASSUME NEW toks \in Seq(Token), NEW p \in 1 .. Len(toks), NEW calls, StackOK(calls),
         FramesGrow(calls, p, toks), NEW h, h = 3 * Len(toks), NEW i \in 1 .. Len(calls)
  PROVE  /\ h \in Nat /\ Levels(p, i) \in Nat \ {0} /\ Levels(p, i) <= h
         /\ Trees[Levels(p, i)] \subseteq Trees[h]
         /\ Says(Words(h), calls[i]) \in Seq(Token)
         /\ Has(Structs(h), calls[i]) \in Seq(Trees[h])
         /\ FrameOK(calls[i]) /\ FrameTree(calls[i], Trees[Levels(p, i)], toks)
         /\ FrameTree(calls[i], Trees[h], toks)
<1>1. Len(toks) \in Nat /\ p \in Nat /\ p <= Len(toks) /\ Len(calls) \in Nat
  <2>1. Len(calls) \in Nat
    BY DEF StackOK, IsList
  <2>. QED
    BY <2>1
<1>2. h \in Nat
  BY <1>1
<1>3. i + Room(calls[i].fn) <= 3 * p /\ FrameTree(calls[i], Trees[Levels(p, i)], toks)
  BY DEF FramesGrow
<1>4. Room(calls[i].fn) \in {1, 2, 3}
  BY DEF Room
<1>5. Levels(p, i) \in Nat \ {0} /\ Levels(p, i) <= h
  BY <1>1, <1>3, <1>4 DEF Levels
<1>6. Trees[Levels(p, i)] \subseteq Trees[h]
  BY <1>2, <1>5, TreesGrowOn
<1>7. FrameOK(calls[i])
  BY DEF StackOK
<1>8. FrameTree(calls[i], Trees[h], toks)
  BY <1>3, <1>6, FrameTreeGrows
<1>. QED
  BY <1>2, <1>3, <1>5, <1>6, <1>7, <1>8, SaysType

\* The frames below keep their places while the text is read on.
LEMMA FramesBelow ==
  ASSUME NEW p \in Nat, NEW q \in Nat, p <= q, NEW calls, NEW toks, FramesGrow(calls, p, toks),
         Len(calls) \in Nat, NEW m \in Nat, m <= Len(calls), NEW more, \A i \in 1 .. m : more[i] = calls[i],
         NEW i \in 1 .. m
  PROVE  i + Room(more[i].fn) <= 3 * q /\ FrameTree(more[i], Trees[Levels(q, i)], toks)
<1>1. i \in 1 .. Len(calls) /\ more[i] = calls[i]
  OBVIOUS
<1>2. i + Room(calls[i].fn) <= 3 * p /\ FrameTree(calls[i], Trees[Levels(p, i)], toks)
  BY <1>1 DEF FramesGrow
<1>3. Room(calls[i].fn) \in {1, 2, 3}
  BY DEF Room
<1>4. Levels(p, i) \in Nat /\ Levels(q, i) \in Nat /\ Levels(p, i) <= Levels(q, i)
  BY <1>2, <1>3 DEF Levels
<1>5. Trees[Levels(p, i)] \subseteq Trees[Levels(q, i)]
  BY <1>4, TreesGrowOn
<1>6. FrameTree(calls[i], Trees[Levels(q, i)], toks)
  BY <1>2, <1>5, FrameTreeGrows
<1>7. i + Room(calls[i].fn) <= 3 * q
  BY <1>2, <1>3
<1>. QED
  BY <1>1, <1>6, <1>7

\* What the frames say and have are words and structs.
LEMMA FramesSay ==
  ASSUME NEW toks \in Seq(Token), NEW p \in 1 .. Len(toks), NEW calls, StackOK(calls),
         FramesGrow(calls, p, toks)
  PROVE  /\ SaidIn(Token, WordsIn(toks), calls, Len(calls))
         /\ HadIn(TreesIn(toks), StructsIn(toks), calls, Len(calls))
<1>1. PICK h : h = 3 * Len(toks)
  OBVIOUS
<1>2. \A i \in 1 .. Len(calls) : /\ Says(Words(h), calls[i]) \in Seq(Token)
                                 /\ Has(Structs(h), calls[i]) \in Seq(Trees[h])
  BY <1>1, FramesInside
<1>. QED
  BY <1>1, <1>2, Zenon DEF SaidIn, HadIn, WordsIn, StructsIn, TreesIn

-----------------------------------------------------------------------------
(* Steps of the stack.                                                     *)

\* Of the calls n stay, and one is on top of them: the n + 1st as it was or as
\* it goes on, or a new one.
Stays(calls, p, more, q, n, toks) ==
  /\ toks \in Seq(Token) /\ p \in 1 .. Len(toks) /\ q \in p .. Len(toks)
  /\ StackOK(calls) /\ FramesGrow(calls, p, toks)
  /\ n \in Nat /\ n <= Len(calls)
  /\ StackOK(more) /\ Len(more) = n + 1 /\ \A i \in 1 .. n : more[i] = calls[i]

Fits(f, q, i, toks) == i + Room(f.fn) <= 3 * q /\ FrameTree(f, Trees[Levels(q, i)], toks)

\* A step that keeps the frames below keeps them in their places.
LEMMA FramesStay ==
  ASSUME NEW calls, NEW p, NEW more, NEW q, NEW n, NEW toks, Stays(calls, p, more, q, n, toks),
         Fits(more[n + 1], q, n + 1, toks)
  PROVE  FramesGrow(more, q, toks)
<1>1. p \in Nat /\ q \in Nat /\ p <= q
  BY DEF Stays
<1>2. Len(calls) \in Nat /\ n \in Nat /\ n <= Len(calls) /\ FramesGrow(calls, p, toks) /\ Len(more) = n + 1
      /\ \A i \in 1 .. n : more[i] = calls[i]
  BY DEF Stays, StackOK, IsList
<1>3. \A i \in 1 .. n : i + Room(more[i].fn) <= 3 * q /\ FrameTree(more[i], Trees[Levels(q, i)], toks)
  BY <1>1, <1>2, FramesBelow
<1>4. \A i \in 1 .. n + 1 : i \in 1 .. n \/ i = n + 1
  BY <1>2
<1>. QED
  BY <1>2, <1>3, <1>4, Zenon DEF FramesGrow, Fits

\* What the calls above the n below say and have.
Above(calls, n, toks, said, had) ==
  /\ said \in Seq(Token) /\ had \in Seq(TreesIn(toks))
  /\ SaidUpTo(WordsIn(toks), calls, n) \in Seq(Token)
  /\ HadUpTo(StructsIn(toks), calls, n) \in Seq(TreesIn(toks))
  /\ SaidUpTo(WordsIn(toks), calls, Len(calls)) = Join(SaidUpTo(WordsIn(toks), calls, n), said)
  /\ HadUpTo(StructsIn(toks), calls, Len(calls)) = Join(HadUpTo(StructsIn(toks), calls, n), had)

\* What may become of structs behind those of the frames below.
Replaceable(toks, old, names, new, names2) ==
  \A a \in Seq(TreesIn(toks)) :
    DeclaredIn(toks, Join(a, old), names) => DeclaredIn(toks, Join(a, new), names2)

\* The top frame.
LEMMA OneAbove ==
  ASSUME NEW toks \in Seq(Token), NEW p \in 1 .. Len(toks), NEW calls, StackOK(calls),
         FramesGrow(calls, p, toks), NEW n, NEW m, IsNext(n, m), m = Len(calls)
  PROVE  Above(calls, n, toks, Says(WordsIn(toks), Frame(calls, m)), Has(StructsIn(toks), Frame(calls, m)))
<1>1. SaidIn(Token, WordsIn(toks), calls, m) /\ HadIn(TreesIn(toks), StructsIn(toks), calls, m)
  BY FramesSay, Zenon
<1>2. m \in 1 .. m
  BY DEF IsNext
<1>3. /\ SaidUpTo(WordsIn(toks), calls, n) \in Seq(Token)
      /\ SaidUpTo(WordsIn(toks), calls, m)
           = Join(SaidUpTo(WordsIn(toks), calls, n), Says(WordsIn(toks), Frame(calls, m)))
  BY <1>1, SaidNext
<1>4. /\ HadUpTo(StructsIn(toks), calls, n) \in Seq(TreesIn(toks))
      /\ HadUpTo(StructsIn(toks), calls, m)
           = Join(HadUpTo(StructsIn(toks), calls, n), Has(StructsIn(toks), Frame(calls, m)))
  BY <1>1, HadNext
<1>. QED
  BY <1>1, <1>2, <1>3, <1>4, Zenon DEF Above, SaidIn, HadIn, Frame

\* Nothing is above the top frame.
LEMMA NothingAbove ==
  ASSUME NEW toks \in Seq(Token), NEW p \in 1 .. Len(toks), NEW calls, StackOK(calls),
         FramesGrow(calls, p, toks), NEW n, NEW m, IsNext(n, m), m = Len(calls)
  PROVE  Above(calls, m, toks, <<>>, <<>>)
<1>1. SaidIn(Token, WordsIn(toks), calls, m) /\ HadIn(TreesIn(toks), StructsIn(toks), calls, m)
  BY FramesSay, Zenon
<1>2. SaidUpTo(WordsIn(toks), calls, m) \in Seq(Token) /\ HadUpTo(StructsIn(toks), calls, m) \in Seq(TreesIn(toks))
  BY <1>1, SaidNext, HadNext
<1>. QED
  BY <1>2, Joining DEF Above

\* Its caller and the top frame.
LEMMA TwoAbove ==
  ASSUME NEW toks \in Seq(Token), NEW p \in 1 .. Len(toks), NEW calls, StackOK(calls),
         FramesGrow(calls, p, toks), NEW n, NEW m, IsNext(n, m), NEW k, IsNext(m, k), k = Len(calls)
  PROVE  Above(calls, n, toks,
               Join(Says(WordsIn(toks), Frame(calls, m)), Says(WordsIn(toks), Frame(calls, k))),
               Join(Has(StructsIn(toks), Frame(calls, m)), Has(StructsIn(toks), Frame(calls, k))))
<1>1. SaidIn(Token, WordsIn(toks), calls, k) /\ HadIn(TreesIn(toks), StructsIn(toks), calls, k)
  BY FramesSay, Zenon
<1>2. m \in 1 .. k /\ k \in 1 .. k /\ \A i \in 1 .. m : i \in 1 .. k
  BY DEF IsNext
<1>3. SaidIn(Token, WordsIn(toks), calls, m) /\ HadIn(TreesIn(toks), StructsIn(toks), calls, m)
  BY <1>1, <1>2, Zenon DEF SaidIn, HadIn
<1>4. /\ SaidUpTo(WordsIn(toks), calls, n) \in Seq(Token)
      /\ SaidUpTo(WordsIn(toks), calls, m)
           = Join(SaidUpTo(WordsIn(toks), calls, n), Says(WordsIn(toks), Frame(calls, m)))
  BY <1>3, SaidNext
<1>5. /\ HadUpTo(StructsIn(toks), calls, n) \in Seq(TreesIn(toks))
      /\ HadUpTo(StructsIn(toks), calls, m)
           = Join(HadUpTo(StructsIn(toks), calls, n), Has(StructsIn(toks), Frame(calls, m)))
  BY <1>3, HadNext
<1>6. /\ SaidUpTo(WordsIn(toks), calls, m) \in Seq(Token)
      /\ SaidUpTo(WordsIn(toks), calls, k)
           = Join(SaidUpTo(WordsIn(toks), calls, m), Says(WordsIn(toks), Frame(calls, k)))
  BY <1>1, SaidNext
<1>7. /\ HadUpTo(StructsIn(toks), calls, m) \in Seq(TreesIn(toks))
      /\ HadUpTo(StructsIn(toks), calls, k)
           = Join(HadUpTo(StructsIn(toks), calls, m), Has(StructsIn(toks), Frame(calls, k)))
  BY <1>1, HadNext
<1>8. /\ Says(WordsIn(toks), Frame(calls, m)) \in Seq(Token)
      /\ Says(WordsIn(toks), Frame(calls, k)) \in Seq(Token)
      /\ Has(StructsIn(toks), Frame(calls, m)) \in Seq(TreesIn(toks))
      /\ Has(StructsIn(toks), Frame(calls, k)) \in Seq(TreesIn(toks))
  BY <1>1, <1>2, Zenon DEF SaidIn, HadIn, Frame
<1>9. Join(Says(WordsIn(toks), Frame(calls, m)), Says(WordsIn(toks), Frame(calls, k))) \in Seq(Token)
  BY <1>8, Joining
<1>10. Join(Has(StructsIn(toks), Frame(calls, m)), Has(StructsIn(toks), Frame(calls, k))) \in Seq(TreesIn(toks))
  BY <1>8, Joining
<1>11. SaidUpTo(WordsIn(toks), calls, k)
         = Join(SaidUpTo(WordsIn(toks), calls, n),
                Join(Says(WordsIn(toks), Frame(calls, m)), Says(WordsIn(toks), Frame(calls, k))))
  BY <1>4, <1>6, <1>8, Joining
<1>12. HadUpTo(StructsIn(toks), calls, k)
         = Join(HadUpTo(StructsIn(toks), calls, n),
                Join(Has(StructsIn(toks), Frame(calls, m)), Has(StructsIn(toks), Frame(calls, k))))
  BY <1>5, <1>7, <1>8, Joining
<1>. QED
  BY <1>4, <1>5, <1>9, <1>10, <1>11, <1>12, Zenon DEF Above

\* What is said and had once the n + 1st frame is there.
LEMMA RowsStay ==
  ASSUME NEW toks \in Seq(Token), NEW q \in 1 .. Len(toks), NEW more, StackOK(more),
         FramesGrow(more, q, toks), NEW n, NEW m, IsNext(n, m), m = Len(more),
         NEW calls, \A i \in 1 .. n : more[i] = calls[i]
  PROVE  /\ SaidUpTo(WordsIn(toks), more, m)
              = Join(SaidUpTo(WordsIn(toks), calls, n), Says(WordsIn(toks), Frame(more, m)))
         /\ HadUpTo(StructsIn(toks), more, m)
              = Join(HadUpTo(StructsIn(toks), calls, n), Has(StructsIn(toks), Frame(more, m)))
<1>1. /\ SaidUpTo(WordsIn(toks), more, n) = SaidUpTo(WordsIn(toks), calls, n)
      /\ HadUpTo(StructsIn(toks), more, n) = HadUpTo(StructsIn(toks), calls, n)
  <2>1. n \in Nat
    BY DEF IsNext
  <2>. QED
    BY <2>1, SameBelow, Zenon
<1>2. /\ SaidUpTo(WordsIn(toks), more, m)
           = Join(SaidUpTo(WordsIn(toks), more, n), Says(WordsIn(toks), Frame(more, m)))
      /\ HadUpTo(StructsIn(toks), more, m)
           = Join(HadUpTo(StructsIn(toks), more, n), Has(StructsIn(toks), Frame(more, m)))
  BY OneAbove DEF Above
<1>. QED
  BY <1>1, <1>2, Zenon

\* A step that says and has above the frames below what the text says and has.
LEMMA StackGrows ==
  ASSUME NEW calls, NEW p, NEW more, NEW q, NEW n, NEW m, IsNext(n, m), NEW toks,
         Stays(calls, p, more, q, n, toks), Fits(Frame(more, m), q, m, toks),
         NEW names, NEW names2, Grows(calls, p, toks, names),
         NEW said, NEW had, Above(calls, n, toks, said, had),
         Objects(calls) => Objects(more), NEW read \in Seq(Token),
         HasArrayIn(toks) \/ Objects(more)
           \/ /\ KeptUpTo(toks, q - 1) = Join(KeptUpTo(toks, p - 1), read)
              /\ Says(WordsIn(toks), Frame(more, m)) = Join(said, read),
         Replaceable(toks, had, names, Has(StructsIn(toks), Frame(more, m)), names2)
  PROVE  Grows(more, q, toks, names2)
<1>0. /\ n \in Nat /\ m = n + 1 /\ m = Len(more) /\ toks \in Seq(Token) /\ StackOK(more)
      /\ \A i \in 1 .. n : more[i] = calls[i]
  BY Zenon DEF Stays, IsNext
<1>1. FramesGrow(more, q, toks)
  BY <1>0, FramesStay, Zenon DEF Frame
<1>2. q \in 1 .. Len(toks)
  BY DEF Stays
<1>3. /\ SaidUpTo(WordsIn(toks), more, m)
           = Join(SaidUpTo(WordsIn(toks), calls, n), Says(WordsIn(toks), Frame(more, m)))
      /\ HadUpTo(StructsIn(toks), more, m)
           = Join(HadUpTo(StructsIn(toks), calls, n), Has(StructsIn(toks), Frame(more, m)))
  BY <1>0, <1>1, <1>2, RowsStay
<1>4. WordsGrow(more, q, toks)
  <2>. SUFFICES ASSUME ~HasArrayIn(toks), ~Objects(more)
                PROVE  KeptUpTo(toks, q - 1) = SaidUpTo(WordsIn(toks), more, m)
    BY <1>0, Zenon DEF WordsGrow
  <2>1. KeptUpTo(toks, p - 1) = Join(SaidUpTo(WordsIn(toks), calls, n), said)
    BY Zenon DEF Grows, WordsGrow, Above
  <2>2. /\ KeptUpTo(toks, q - 1) = Join(Join(SaidUpTo(WordsIn(toks), calls, n), said), read)
        /\ Says(WordsIn(toks), Frame(more, m)) = Join(said, read)
    BY <2>1, Zenon
  <2>3. Join(Join(SaidUpTo(WordsIn(toks), calls, n), said), read)
          = Join(SaidUpTo(WordsIn(toks), calls, n), Join(said, read))
    BY Joining DEF Above
  <2>. QED
    BY <1>3, <2>2, <2>3, Zenon
<1>5. StructsGrow(more, toks, names2)
  <2>1. DeclaredIn(toks, Join(HadUpTo(StructsIn(toks), calls, n), had), names)
    BY Zenon DEF Grows, StructsGrow, Above
  <2>2. DeclaredIn(toks, Join(HadUpTo(StructsIn(toks), calls, n), Has(StructsIn(toks), Frame(more, m))), names2)
    BY <2>1, Zenon DEF Replaceable, Above
  <2>. QED
    BY <1>0, <1>3, <2>2, Zenon DEF StructsGrow
<1>. QED
  BY <1>1, <1>4, <1>5, Zenon DEF Grows

-----------------------------------------------------------------------------
(* What lists of nodes say and have.                                       *)

\* A node is a struct of its own, or not.
Own(node) == IF IsStruct(node) THEN <<node>> ELSE <<>>

\* The words of lists of trees, and their structs.
LEMMA ListsSay ==
  ASSUME NEW toks \in Seq(Token)
  PROVE  /\ Each(WordsIn(toks), <<>>) = <<>> /\ Each(StructsIn(toks), <<>>) = <<>>
         /\ \A x \in Seq(TreesIn(toks)) : /\ Each(WordsIn(toks), x) \in Seq(Token)
                                          /\ Each(StructsIn(toks), x) \in Seq(TreesIn(toks))
         /\ \A x, y \in Seq(TreesIn(toks)) :
              /\ Each(WordsIn(toks), Join(x, y)) = Join(Each(WordsIn(toks), x), Each(WordsIn(toks), y))
              /\ Each(StructsIn(toks), Join(x, y)) = Join(Each(StructsIn(toks), x), Each(StructsIn(toks), y))
<1>1. PICK h : h = 3 * Len(toks) /\ h \in Nat
  <2>1. 3 * Len(toks) \in Nat
    OBVIOUS
  <2>. QED
    BY <2>1, Zenon
<1>2. PICK w, z, T : w = Words(h) /\ z = Structs(h) /\ T = Trees[h]
  OBVIOUS
<1>3. Maps(w, T, Token)
  BY <1>1, <1>2, WordsDefined DEF Maps
<1>4. Maps(z, T, T)
  BY <1>1, <1>2, StructsDefined DEF Maps
<1>5. ASSUME NEW x \in Seq(T), NEW y \in Seq(T)
      PROVE  /\ Each(w, x) \in Seq(Token) /\ Each(w, Join(x, y)) = Join(Each(w, x), Each(w, y))
             /\ Each(z, x) \in Seq(T) /\ Each(z, Join(x, y)) = Join(Each(z, x), Each(z, y))
  <2>1. Each(w, x) \in Seq(Token) /\ Each(w, Join(x, y)) = Join(Each(w, x), Each(w, y))
    BY <1>3, EachJoins
  <2>2. Each(z, x) \in Seq(T) /\ Each(z, Join(x, y)) = Join(Each(z, x), Each(z, y))
    BY <1>4, EachJoins
  <2>. QED
    BY <2>1, <2>2, Zenon
<1>6. Each(w, <<>>) = <<>> /\ Each(z, <<>>) = <<>>
  BY <1>3, <1>4, EachOne DEF Maps
<1>7. w = WordsIn(toks) /\ z = StructsIn(toks) /\ T = TreesIn(toks)
  BY <1>1, <1>2, Zenon DEF WordsIn, StructsIn, TreesIn
<1>8. /\ \A x \in Seq(T) : Each(w, x) \in Seq(Token) /\ Each(z, x) \in Seq(T)
      /\ \A x, y \in Seq(T) : /\ Each(w, Join(x, y)) = Join(Each(w, x), Each(w, y))
                              /\ Each(z, Join(x, y)) = Join(Each(z, x), Each(z, y))
  BY <1>5, Zenon
<1>. QED
  BY <1>6, <1>7, <1>8, Zenon

\* The words of one tree, and its structs.
LEMMA NodeSays ==
  ASSUME NEW toks \in Seq(Token), NEW node \in TreesIn(toks)
  PROVE  /\ One(node) \in Seq(TreesIn(toks)) /\ node.words \in Seq(Token)
         /\ node.args \in Seq(TreesIn(toks)) /\ node.body \in Seq(TreesIn(toks))
         /\ Own(node) \in Seq(TreesIn(toks))
         /\ Each(WordsIn(toks), One(node))
              = Join(node.words, Join(Each(WordsIn(toks), node.args), Each(WordsIn(toks), node.body)))
         /\ Each(StructsIn(toks), One(node))
              = Join(Join(Each(StructsIn(toks), node.args), Each(StructsIn(toks), node.body)), Own(node))
<1>1. PICK h : h = 3 * Len(toks) /\ h \in Nat
  <2>1. 3 * Len(toks) \in Nat
    OBVIOUS
  <2>. QED
    BY <2>1, Zenon
<1>2. PICK w, z, T : w = Words(h) /\ z = Structs(h) /\ T = Trees[h]
  OBVIOUS
<1>3. w = WordsIn(toks) /\ z = StructsIn(toks) /\ T = TreesIn(toks) /\ node \in T
  BY <1>1, <1>2, Zenon DEF WordsIn, StructsIn, TreesIn
<1>4. /\ node.args \in Seq(Trees[h - 1]) /\ node.body \in Seq(Trees[h - 1]) /\ node.words \in Seq(Token)
      /\ Trees[h - 1] \subseteq T
  BY <1>1, <1>2, <1>3, TreeParts
<1>5. node.args \in Seq(T) /\ node.body \in Seq(T)
  <2>1. Seq(Trees[h - 1]) \subseteq Seq(T)
    BY <1>4, NodesGrow
  <2>. QED
    BY <1>4, <2>1
<1>6. One(node) \in Seq(T) /\ Own(node) \in Seq(T)
  BY <1>3 DEF One, Own
<1>7. \A e \in T : w[e] \in Seq(Token)
  BY <1>1, <1>2, WordsDefined
<1>8. \A e \in T : z[e] \in Seq(T)
  BY <1>1, <1>2, StructsDefined
<1>9. Each(w, One(node)) = w[node] /\ Each(z, One(node)) = z[node]
  <2>1. Each(w, One(node)) = w[node]
    BY <1>3, <1>7, EachOne DEF One
  <2>2. Each(z, One(node)) = z[node]
    BY <1>3, <1>8, EachOne DEF One
  <2>. QED
    BY <2>1, <2>2
<1>10. w[node] = node.words \o Under(w, node)
  BY <1>1, <1>2, <1>3, WordsDefined
<1>11. z[node] = Under(z, node) \o Own(node)
  BY <1>1, <1>2, <1>3, StructsDefined, Zenon DEF Own
<1>. QED
  BY <1>3, <1>4, <1>5, <1>6, <1>9, <1>10, <1>11, Zenon DEF Under, Join

\* A node that has nothing under it.
LEMMA LeafSays ==
  ASSUME NEW toks \in Seq(Token), NEW k \in Nat \ {0}, NEW type \in NodeTypes, NEW words \in Seq(Token)
  PROVE  /\ Node(type, words) \in Trees[k]
         /\ Node(type, words) \in TreesIn(toks) =>
              /\ Each(WordsIn(toks), One(Node(type, words))) = words
              /\ Each(StructsIn(toks), One(Node(type, words))) = Own(Node(type, words))
         /\ type # "KEYWORD" => Own(Node(type, words)) = <<>>
<1>1. PICK leaf : leaf = Node(type, words)
  OBVIOUS
<1>2. /\ leaf = [type |-> type, words |-> words, args |-> <<>>, body |-> <<>>]
      /\ leaf.type = type /\ leaf.words = words /\ leaf.args = <<>> /\ leaf.body = <<>>
  BY <1>1 DEF Node
<1>3. leaf \in Trees[k]
  <2>1. k - 1 \in Nat /\ (k - 1) + 1 = k
    OBVIOUS
  <2>2. Trees[k] = NodesOver(Trees[k - 1])
    BY <2>1, TreesDefined
  <2>3. <<>> \in Seq(Trees[k - 1])
    OBVIOUS
  <2>4. leaf \in NodesOver(Trees[k - 1])
    BY <1>2, <2>3 DEF NodesOver
  <2>. QED
    BY <2>2, <2>4
<1>4. ASSUME leaf \in TreesIn(toks)
      PROVE  Each(WordsIn(toks), One(leaf)) = words /\ Each(StructsIn(toks), One(leaf)) = Own(leaf)
  <2>1. /\ Own(leaf) \in Seq(TreesIn(toks))
        /\ Each(WordsIn(toks), One(leaf))
              = Join(leaf.words, Join(Each(WordsIn(toks), leaf.args), Each(WordsIn(toks), leaf.body)))
        /\ Each(StructsIn(toks), One(leaf))
              = Join(Join(Each(StructsIn(toks), leaf.args), Each(StructsIn(toks), leaf.body)), Own(leaf))
    BY <1>4, NodeSays
  <2>2. /\ Each(WordsIn(toks), leaf.args) = <<>> /\ Each(WordsIn(toks), leaf.body) = <<>>
        /\ Each(StructsIn(toks), leaf.args) = <<>> /\ Each(StructsIn(toks), leaf.body) = <<>>
    BY <1>2, ListsSay, Zenon
  <2>3. ASSUME NEW V, NEW v \in Seq(V)
        PROVE  Join(v, Join(<<>>, <<>>)) = v /\ Join(Join(<<>>, <<>>), v) = v
    BY Joining
  <2>4. Join(words, Join(<<>>, <<>>)) = words
    BY <2>3
  <2>5. Join(Join(<<>>, <<>>), Own(leaf)) = Own(leaf)
    BY <2>1, <2>3
  <2>. QED
    BY <1>2, <2>1, <2>2, <2>4, <2>5, Zenon
<1>5. type # "KEYWORD" => Own(leaf) = <<>>
  BY <1>2, Zenon DEF Own, IsStruct
<1>. QED
  BY <1>1, <1>3, <1>4, <1>5, Zenon

\* A leaf that is no keyword says its words, and is no struct.
LeafSaid(toks, type, words) ==
  /\ Each(WordsIn(toks), One(Node(type, words))) = words
  /\ Each(StructsIn(toks), One(Node(type, words))) = <<>>

LEMMA LeafIsSaid ==
  ASSUME NEW toks \in Seq(Token), NEW type \in NodeTypes \ {"KEYWORD"}, NEW words \in Seq(Token),
         Node(type, words) \in TreesIn(toks)
  PROVE  LeafSaid(toks, type, words) /\ Own(Node(type, words)) = <<>>
<1>1. PICK k : k = 1 /\ k \in Nat \ {0}
  OBVIOUS
<1>2. type \in NodeTypes /\ type # "KEYWORD"
  OBVIOUS
<1>3. /\ Node(type, words) \in TreesIn(toks) =>
           /\ Each(WordsIn(toks), One(Node(type, words))) = words
           /\ Each(StructsIn(toks), One(Node(type, words))) = Own(Node(type, words))
      /\ type # "KEYWORD" => Own(Node(type, words)) = <<>>
  BY <1>1, <1>2, LeafSays
<1>. QED
  BY <1>2, <1>3, Zenon DEF LeafSaid

\* Open parentheses say nothing and have nothing.
LEMMA OpensSay ==
  ASSUME NEW toks \in Seq(Token), NEW held \in Seq(TreesIn(toks)),
         \A k \in 1 .. Len(held) : held[k] = Open
  PROVE  Each(WordsIn(toks), Back(held)) = <<>> /\ Each(StructsIn(toks), Back(held)) = <<>>
<1>1. held \in Seq({Open})
  OBVIOUS
<1>2. Back(held) \in Seq({Open})
  BY <1>1, ReverseProperties DEF Back
<1>3. <<>> \in Seq(Token) /\ <<>> \in Seq({})
  OBVIOUS
<1>4. CASE held = <<>>
  <2>1. Back(held) = <<>>
    <3>1. Len(Back(held)) = 0
      BY <1>1, <1>4, ReverseProperties DEF Back
    <3>. QED
      BY <1>2, <3>1
  <2>. QED
    BY <2>1, ListsSay, Zenon
<1>5. CASE held # <<>>
  <2>1. Open \in TreesIn(toks)
    <3>1. 1 \in 1 .. Len(held)
      BY <1>5
    <3>. QED
      BY <3>1
  <2>2. PICK h : h = 3 * Len(toks) /\ h \in Nat
    <3>1. 3 * Len(toks) \in Nat
      OBVIOUS
    <3>. QED
      BY <3>1, Zenon
  <2>3. h \in Nat \ {0}
    BY <2>1, <2>2, TreesDefined DEF TreesIn
  <2>4. "EXPRESSION" \in NodeTypes /\ "EXPRESSION" # "KEYWORD"
    BY DEF NodeTypes
  <2>5. Each(WordsIn(toks), One(Open)) = <<>> /\ Each(StructsIn(toks), One(Open)) = <<>>
    <3>1. Open = Node("EXPRESSION", <<>>) /\ <<>> \in Seq(Token)
      BY <1>3, Zenon DEF Open
    <3>2. Node("EXPRESSION", <<>>) \in TreesIn(toks)
      BY <2>1, <3>1, Zenon
    <3>3. LeafSaid(toks, "EXPRESSION", <<>>)
      BY <2>4, <3>1, <3>2, LeafIsSaid
    <3>. QED
      BY <3>1, <3>3, Zenon DEF LeafSaid
  <2>6. WordsIn(toks)[Open] = <<>> /\ StructsIn(toks)[Open] = <<>>
    <3>1. \A e \in TreesIn(toks) : WordsIn(toks)[e] \in Seq(Token)
      BY <2>2, WordsDefined DEF WordsIn, TreesIn
    <3>2. \A e \in TreesIn(toks) : StructsIn(toks)[e] \in Seq(TreesIn(toks))
      BY <2>2, StructsDefined DEF StructsIn, TreesIn
    <3>3. Each(WordsIn(toks), One(Open)) = WordsIn(toks)[Open]
      BY <2>1, <3>1, EachOne DEF One
    <3>4. Each(StructsIn(toks), One(Open)) = StructsIn(toks)[Open]
      BY <2>1, <3>2, EachOne DEF One
    <3>. QED
      BY <2>5, <3>3, <3>4, Zenon
  <2>7. ASSUME NEW f, f[Open] = <<>>
        PROVE  Each(f, Back(held)) = <<>>
    <3>1. Maps(f, {Open}, {})
      BY <1>3, <2>7 DEF Maps
    <3>2. Each(f, Back(held)) \in Seq({})
      BY <1>2, <3>1, EachJoins
    <3>3. \A s \in Seq({}) : s = <<>>
      OBVIOUS
    <3>. QED
      BY <3>2, <3>3, Zenon
  <2>. QED
    BY <2>6, <2>7, Zenon
<1>. QED
  BY <1>4, <1>5

-----------------------------------------------------------------------------
(* What the frames say and have.                                           *)

\* The words and the structs of a list.
Wording(toks, x) == Each(WordsIn(toks), x)
Structure(toks, x) == Each(StructsIn(toks), x)

\* What is said of one list behind another.
LEMMA ListsJoin ==
  ASSUME NEW toks \in Seq(Token)
  PROVE  /\ Wording(toks, <<>>) = <<>> /\ Structure(toks, <<>>) = <<>> /\ <<>> \in Seq(TreesIn(toks))
         /\ \A x \in Seq(TreesIn(toks)) : /\ Wording(toks, x) \in Seq(Token)
                                          /\ Structure(toks, x) \in Seq(TreesIn(toks))
         /\ \A x, y \in Seq(TreesIn(toks)) :
              /\ Join(x, y) \in Seq(TreesIn(toks))
              /\ Wording(toks, Join(x, y)) = Join(Wording(toks, x), Wording(toks, y))
              /\ Structure(toks, Join(x, y)) = Join(Structure(toks, x), Structure(toks, y))
<1>1. /\ Wording(toks, <<>>) = <<>> /\ Structure(toks, <<>>) = <<>>
      /\ \A x \in Seq(TreesIn(toks)) : /\ Wording(toks, x) \in Seq(Token)
                                       /\ Structure(toks, x) \in Seq(TreesIn(toks))
      /\ \A x, y \in Seq(TreesIn(toks)) :
              /\ Wording(toks, Join(x, y)) = Join(Wording(toks, x), Wording(toks, y))
              /\ Structure(toks, Join(x, y)) = Join(Structure(toks, x), Structure(toks, y))
  BY ListsSay, Zenon DEF Wording, Structure
<1>2. /\ <<>> \in Seq(TreesIn(toks))
      /\ \A x, y \in Seq(TreesIn(toks)) : Join(x, y) \in Seq(TreesIn(toks))
  BY Joining
<1>. QED
  BY <1>1, <1>2, Zenon

\* A frame in words: its own, and those of its nodes.
Spoken(toks, f) == Says(WordsIn(toks), f)
Held(toks, f) == Has(StructsIn(toks), f)

\* What a frame says and has are its own words, and what its nodes say and have.
LEMMA FrameSays ==
  ASSUME NEW toks \in Seq(Token), NEW f, NEW words, words = OwnWords(f), NEW x, x = NodesOf(f)
  PROVE  Spoken(toks, f) = Join(words, Wording(toks, x)) /\ Held(toks, f) = Structure(toks, x)
BY Zenon DEF Spoken, Held, Says, Has, Wording, Structure, Join

\* An expression: its output, and what it holds, the topmost first.
LEMMA ExpressionSays ==
  ASSUME NEW toks \in Seq(Token), NEW f, f.fn = "expression", FrameTree(f, TreesIn(toks), toks)
  PROVE  /\ f.out \in Seq(TreesIn(toks)) /\ Back(f.held) \in Seq(TreesIn(toks)) /\ f.held \in Seq(TreesIn(toks))
         /\ NodesOf(f) = Join(f.out, Back(f.held))
         /\ Spoken(toks, f) = Join(Wording(toks, f.out), Wording(toks, Back(f.held)))
         /\ Held(toks, f) = Join(Structure(toks, f.out), Structure(toks, Back(f.held)))
         /\ HasArrayIn(toks) \/ (Wording(toks, Back(f.held)) = <<>> /\ Structure(toks, Back(f.held)) = <<>>)
<1>1. /\ f.out \in Seq(TreesIn(toks)) /\ f.held \in Seq(TreesIn(toks))
      /\ HasArrayIn(toks) \/ \A k \in 1 .. Len(f.held) : f.held[k] = Open
  BY DEF FrameTree, ExpressionTree
<1>2. Back(f.held) \in Seq(TreesIn(toks))
  BY <1>1, ReverseProperties DEF Back
<1>3. NodesOf(f) = Join(f.out, Back(f.held)) /\ OwnWords(f) = <<>>
  BY DEF NodesOf, OwnWords, Join, Back
<1>4. /\ Spoken(toks, f) = Join(<<>>, Wording(toks, Join(f.out, Back(f.held))))
      /\ Held(toks, f) = Structure(toks, Join(f.out, Back(f.held)))
  BY <1>3, FrameSays, Zenon
<1>5. /\ Wording(toks, Join(f.out, Back(f.held))) = Join(Wording(toks, f.out), Wording(toks, Back(f.held)))
      /\ Structure(toks, Join(f.out, Back(f.held))) = Join(Structure(toks, f.out), Structure(toks, Back(f.held)))
      /\ Wording(toks, Join(f.out, Back(f.held))) \in Seq(Token)
  BY <1>1, <1>2, ListsJoin
<1>6. Join(<<>>, Wording(toks, Join(f.out, Back(f.held)))) = Wording(toks, Join(f.out, Back(f.held)))
  BY <1>5, Joining
<1>7. HasArrayIn(toks) \/ (Wording(toks, Back(f.held)) = <<>> /\ Structure(toks, Back(f.held)) = <<>>)
  BY <1>1, OpensSay, Zenon DEF Wording, Structure
<1>8. Spoken(toks, f) = Join(Wording(toks, f.out), Wording(toks, Back(f.held)))
  BY <1>4, <1>5, <1>6, Zenon
<1>9. Held(toks, f) = Join(Structure(toks, f.out), Structure(toks, Back(f.held)))
  BY <1>4, <1>5, Zenon
<1>. QED
  BY <1>1, <1>2, <1>3, <1>7, <1>8, <1>9, Zenon

-----------------------------------------------------------------------------
(* A frame that goes on.                                                   *)

GoesOnAs(f, g, toks, read) ==
  /\ g.fn = f.fn
  /\ f.fn = "arguments" => g.node.type = f.node.type
  /\ \A k \in Nat \ {0} : FrameTree(f, Trees[k], toks) => FrameTree(g, Trees[k], toks)
  /\ FrameTree(f, TreesIn(toks), toks) =>
       /\ HasArrayIn(toks) \/ Spoken(toks, g) = Join(Spoken(toks, f), read)
       /\ \A names : Replaceable(toks, Held(toks, f), names, Held(toks, g), names)

\* With the same structs nothing is to be shown of them.
LEMMA SameStructs ==
  ASSUME NEW toks, NEW had, NEW names
  PROVE  Replaceable(toks, had, names, had, names)
BY Zenon DEF Replaceable

\* What is read is appended to the output of an expression.
LEMMA LeafRead ==
  ASSUME NEW toks \in Seq(Token), toks # <<>>, NEW f, ExpressionOK(f), NEW type \in NodeTypes \ {"KEYWORD"},
         NEW words \in Seq(Token), NEW g, g = [f EXCEPT !.out = Append(@, Node(type, words))]
  PROVE  GoesOnAs(f, g, toks, words)
<1>1. PICK leaf : /\ leaf = Node(type, words) /\ \A k \in Nat \ {0} : leaf \in Trees[k]
                  /\ leaf \in TreesIn(toks)
                  /\ Wording(toks, One(leaf)) = words /\ Structure(toks, One(leaf)) = <<>>
  <2>1. \A k \in Nat \ {0} : Node(type, words) \in Trees[k]
    BY LeafSays
  <2>2. Node(type, words) \in TreesIn(toks)
    <3>1. 3 * Len(toks) \in Nat \ {0}
      OBVIOUS
    <3>. QED
      BY <2>1, <3>1, Zenon DEF TreesIn
  <2>3. LeafSaid(toks, type, words)
    BY <2>2, LeafIsSaid
  <2>. QED
    BY <2>1, <2>2, <2>3, Zenon DEF LeafSaid, Wording, Structure
<1>2. /\ f.fn = "expression" /\ g.fn = "expression" /\ g.out = Append(f.out, leaf) /\ g.held = f.held
  <2>1. f = [fn |-> "expression", out |-> f.out, held |-> f.held, balance |-> f.balance]
    BY Zenon DEF ExpressionOK
  <2>. QED
    BY <1>1, <2>1
<1>3. ASSUME NEW S, FrameTree(f, S, toks), leaf \in S
      PROVE  FrameTree(g, S, toks) /\ g.out = Join(f.out, One(leaf)) /\ One(leaf) \in Seq(S)
  <2>1. f.out \in Seq(S) /\ f.held \in Seq(S) /\ ExpressionTree(f, S, toks)
    BY <1>2, <1>3 DEF FrameTree, ExpressionTree
  <2>2. Append(f.out, leaf) \in Seq(S) /\ <<leaf>> \in Seq(S)
    BY <1>3, <2>1
  <2>3. ASSUME NEW o \in Seq(S)
        PROVE  Append(o, leaf) = o \o <<leaf>>
    BY <1>3
  <2>4. Append(f.out, leaf) = f.out \o <<leaf>>
    BY <2>1, <2>3, Zenon
  <2>5. FrameTree(g, S, toks)
    BY <1>2, <2>1, <2>2 DEF FrameTree, ExpressionTree
  <2>. QED
    BY <1>2, <2>2, <2>4, <2>5, Zenon DEF Join, One
<1>4. ASSUME FrameTree(f, TreesIn(toks), toks)
      PROVE  /\ HasArrayIn(toks) \/ Spoken(toks, g) = Join(Spoken(toks, f), words)
             /\ Held(toks, g) = Held(toks, f)
  <2>1. FrameTree(g, TreesIn(toks), toks) /\ g.out = Join(f.out, One(leaf)) /\ One(leaf) \in Seq(TreesIn(toks))
    BY <1>1, <1>3, <1>4
  <2>2. /\ f.out \in Seq(TreesIn(toks)) /\ Back(f.held) \in Seq(TreesIn(toks))
        /\ Spoken(toks, f) = Join(Wording(toks, f.out), Wording(toks, Back(f.held)))
        /\ Held(toks, f) = Join(Structure(toks, f.out), Structure(toks, Back(f.held)))
        /\ HasArrayIn(toks) \/ Wording(toks, Back(f.held)) = <<>>
    BY <1>2, <1>4, ExpressionSays
  <2>3. /\ Spoken(toks, g) = Join(Wording(toks, g.out), Wording(toks, Back(f.held)))
        /\ Held(toks, g) = Join(Structure(toks, g.out), Structure(toks, Back(f.held)))
    <3>1. /\ Spoken(toks, g) = Join(Wording(toks, g.out), Wording(toks, Back(g.held)))
          /\ Held(toks, g) = Join(Structure(toks, g.out), Structure(toks, Back(g.held)))
      BY <1>2, <2>1, ExpressionSays
    <3>. QED
      BY <1>2, <3>1, Zenon
  <2>5. /\ Wording(toks, g.out) = Join(Wording(toks, f.out), words) /\ Wording(toks, f.out) \in Seq(Token)
        /\ Structure(toks, g.out) = Join(Structure(toks, f.out), <<>>)
        /\ Structure(toks, f.out) \in Seq(TreesIn(toks))
    <3>1. /\ Wording(toks, Join(f.out, One(leaf))) = Join(Wording(toks, f.out), Wording(toks, One(leaf)))
          /\ Structure(toks, Join(f.out, One(leaf))) = Join(Structure(toks, f.out), Structure(toks, One(leaf)))
          /\ Wording(toks, f.out) \in Seq(Token) /\ Structure(toks, f.out) \in Seq(TreesIn(toks))
      BY <2>1, <2>2, ListsJoin
    <3>. QED
      BY <1>1, <2>1, <3>1, Zenon
  <2>6. Structure(toks, g.out) = Structure(toks, f.out)
    BY <2>5, Joining
  <2>7. Join(Wording(toks, f.out), <<>>) = Wording(toks, f.out)
        /\ Join(Join(Wording(toks, f.out), words), <<>>) = Join(Wording(toks, f.out), words)
    BY <2>5, Joining
  <2>. QED
    BY <2>2, <2>3, <2>5, <2>6, <2>7, Zenon
<1>5. ASSUME FrameTree(f, TreesIn(toks), toks)
      PROVE  /\ HasArrayIn(toks) \/ Spoken(toks, g) = Join(Spoken(toks, f), words)
             /\ \A names : Replaceable(toks, Held(toks, f), names, Held(toks, g), names)
  <2>1. \A names : Replaceable(toks, Held(toks, f), names, Held(toks, f), names)
    BY SameStructs, Zenon
  <2>. QED
    BY <1>4, <1>5, <2>1, Zenon
<1>. QED
  BY <1>1, <1>2, <1>3, <1>5, Zenon DEF GoesOnAs

-----------------------------------------------------------------------------
(* The holding stack.                                                      *)

\* The top of what is held comes first in what it becomes.
LEMMA BackAppend ==
  ASSUME NEW S, NEW s \in Seq(S), NEW e \in S
  PROVE  /\ Append(s, e) \in Seq(S) /\ One(e) \in Seq(S) /\ Back(s) \in Seq(S)
         /\ Back(Append(s, e)) = Join(One(e), Back(s))
         /\ Append(s, e) = Join(s, One(e))
<1>1. PICK n \in Nat : n = Len(s)
  OBVIOUS
<1>2. PICK t : /\ t = Append(s, e) /\ t \in Seq(S) /\ Len(t) = n + 1 /\ t[n + 1] = e
               /\ \A i \in 1 .. n : t[i] = s[i]
  <2>1. /\ Append(s, e) \in Seq(S) /\ Len(Append(s, e)) = Len(s) + 1 /\ Append(s, e)[Len(s) + 1] = e
        /\ \A i \in 1 .. Len(s) : Append(s, e)[i] = s[i]
    BY AppendProperties
  <2>. QED
    BY <1>1, <2>1, Zenon
<1>3. PICK r : r = Reverse(s) /\ r \in Seq(S) /\ Len(r) = n /\ \A i \in 1 .. n : r[i] = s[n - i + 1]
  BY <1>1, ReverseProperties
<1>4. PICK u : /\ u = Reverse(t) /\ u \in Seq(S) /\ Len(u) = n + 1
               /\ \A i \in 1 .. n + 1 : u[i] = t[n + 1 - i + 1]
  <2>1. /\ Reverse(t) \in Seq(S) /\ Len(Reverse(t)) = Len(t)
        /\ \A i \in 1 .. Len(t) : Reverse(t)[i] = t[Len(t) - i + 1]
    BY <1>2, ReverseProperties
  <2>2. PICK u : /\ u = Reverse(t) /\ u \in Seq(S) /\ Len(u) = Len(t)
                 /\ \A i \in 1 .. Len(t) : u[i] = t[Len(t) - i + 1]
    BY <2>1, Zenon
  <2>3. Len(u) = n + 1 /\ \A i \in 1 .. n + 1 : u[i] = t[n + 1 - i + 1]
    BY <1>2, <2>2
  <2>. QED
    BY <2>2, <2>3, Zenon
<1>5. PICK v : /\ v = <<e>> \o r /\ v \in Seq(S) /\ Len(v) = n + 1 /\ v[1] = e
               /\ \A i \in 2 .. n + 1 : v[i] = r[i - 1]
  <2>1. /\ <<e>> \o r \in Seq(S) /\ Len(<<e>> \o r) = Len(r) + 1 /\ (<<e>> \o r)[1] = e
        /\ \A i \in 2 .. Len(r) + 1 : (<<e>> \o r)[i] = r[i - 1]
    BY <1>3, InFront
  <2>. QED
    BY <1>3, <2>1, Zenon
<1>6. \A i \in 1 .. n + 1 : u[i] = v[i]
  <2>1. u[1] = v[1]
    BY <1>2, <1>4, <1>5
  <2>2. ASSUME NEW i \in 2 .. n + 1
        PROVE  u[i] = v[i]
    <3>1. PICK k \in 1 .. n : k = n + 1 - i + 1
      OBVIOUS
    <3>2. u[i] = s[k]
      BY <1>2, <1>4, <3>1
    <3>3. i - 1 \in 1 .. n /\ n - (i - 1) + 1 = k
      BY <3>1
    <3>4. v[i] = s[k]
      BY <1>3, <1>5, <3>3
    <3>. QED
      BY <3>2, <3>4
  <2>3. \A i \in 1 .. n + 1 : i = 1 \/ i \in 2 .. n + 1
    OBVIOUS
  <2>. QED
    BY <2>1, <2>2, <2>3, Zenon
<1>7. u = v
  <2>1. PICK m \in Nat : m = n + 1
    OBVIOUS
  <2>2. u = [i \in 1 .. m |-> u[i]] /\ v = [i \in 1 .. m |-> v[i]]
    BY <1>4, <1>5, <2>1, SeqIsList, Zenon DEF IsList
  <2>3. [i \in 1 .. m |-> u[i]] = [i \in 1 .. m |-> v[i]]
    BY <1>6, <2>1
  <2>. QED
    BY <2>2, <2>3, Zenon
<1>8. Append(s, e) = s \o <<e>> /\ <<e>> \in Seq(S)
  OBVIOUS
<1>. QED
  BY <1>2, <1>3, <1>4, <1>5, <1>7, <1>8, Zenon DEF Join, One, Back

\* What an element is taken from.
LEMMA TakenFrom ==
  ASSUME NEW S, NEW s \in Seq(S), Len(s) > 0
  PROVE  /\ Front(s) \in Seq(S) /\ Last(s) \in S
         /\ s = Append(Front(s), Last(s))
<1>1. s # <<>>
  OBVIOUS
<1>2. PICK r, e : /\ r = Front(s) /\ e = Last(s) /\ r \in Seq(S) /\ e \in S
                  /\ Len(s) \in Nat \ {0} /\ Len(r) = Len(s) - 1 /\ e = s[Len(s)]
                  /\ \A i \in 1 .. Len(s) - 1 : r[i] = s[i]
  BY <1>1, FrontLast
<1>3. PICK n \in Nat : n + 1 = Len(s) /\ n = Len(r)
  BY <1>2
<1>4. PICK t : /\ t = Append(r, e) /\ t \in Seq(S) /\ Len(t) = n + 1 /\ t[n + 1] = e
               /\ \A i \in 1 .. n : t[i] = r[i]
  <2>1. /\ Append(r, e) \in Seq(S) /\ Len(Append(r, e)) = Len(r) + 1 /\ Append(r, e)[Len(r) + 1] = e
        /\ \A i \in 1 .. Len(r) : Append(r, e)[i] = r[i]
    BY <1>2, AppendProperties
  <2>. QED
    BY <1>3, <2>1, Zenon
<1>5. \A i \in 1 .. n + 1 : s[i] = t[i]
  BY <1>2, <1>3, <1>4
<1>6. s = t
  <2>1. PICK m \in Nat : m = n + 1
    OBVIOUS
  <2>2. s = [i \in 1 .. m |-> s[i]] /\ t = [i \in 1 .. m |-> t[i]]
    BY <1>3, <1>4, <2>1, SeqIsList, Zenon DEF IsList
  <2>3. [i \in 1 .. m |-> s[i]] = [i \in 1 .. m |-> t[i]]
    BY <1>5, <2>1
  <2>. QED
    BY <2>2, <2>3, Zenon
<1>. QED
  BY <1>2, <1>4, <1>6

-----------------------------------------------------------------------------
(* Structs that are dropped, or added.                                     *)

\* DeclaredJoins and ApartJoins, with Join.
LEMMA DeclaredParts ==
  ASSUME NEW toks, NEW V, NEW s \in Seq(V), NEW t \in Seq(V)
  PROVE  /\ \A names : DeclaredIn(toks, Join(s, t), names)
                        <=> DeclaredIn(toks, s, names) /\ DeclaredIn(toks, t, names) /\ Apart(toks, s, t)
         /\ HasArrayIn(toks) => (Apart(toks, s, t) <=> Apart(toks, t, s))
         /\ Join(s, t) \in Seq(V)
<1>1. \A names : DeclaredIn(toks, s \o t, names)
                   <=> DeclaredIn(toks, s, names) /\ DeclaredIn(toks, t, names) /\ Apart(toks, s, t)
  BY DeclaredJoins
<1>2. HasArrayIn(toks) => (Apart(toks, s, t) <=> Apart(toks, t, s))
  <2>1. t \in Seq(V) /\ s \in Seq(V)
    OBVIOUS
  <2>. QED
    BY <2>1, ApartJoins
<1>3. Join(s, t) \in Seq(V)
  BY Joining
<1>. QED
  BY <1>1, <1>2, <1>3, Zenon DEF Join

\* The same of lists that may follow each other.
LEMMA ApartParts ==
  ASSUME NEW toks, NEW V, NEW s \in Seq(V), NEW t \in Seq(V), NEW u \in Seq(V)
  PROVE  /\ Apart(toks, Join(s, t), u) <=> Apart(toks, s, u) /\ Apart(toks, t, u)
         /\ Apart(toks, s, Join(t, u)) <=> Apart(toks, s, t) /\ Apart(toks, s, u)
<1>1. Apart(toks, s \o t, u) <=> Apart(toks, s, u) /\ Apart(toks, t, u)
  BY ApartJoins
<1>2. Apart(toks, s, t \o u) <=> Apart(toks, s, t) /\ Apart(toks, s, u)
  BY ApartJoins
<1>. QED
  BY <1>1, <1>2, Zenon DEF Join

\* The structs of a node that is dropped.
LEMMA DeclaredDrops ==
  ASSUME NEW toks \in Seq(Token), NEW o \in Seq(TreesIn(toks)), NEW x \in Seq(TreesIn(toks)),
         NEW b \in Seq(TreesIn(toks)), NEW names
  PROVE  Replaceable(toks, Join(o, Join(x, b)), names, Join(o, b), names)
<1>1. PICK V : V = TreesIn(toks)
  OBVIOUS
<1>2. ASSUME NEW a \in Seq(V), DeclaredIn(toks, Join(a, Join(o, Join(x, b))), names)
      PROVE  DeclaredIn(toks, Join(a, Join(o, b)), names)
  <2>1. Join(x, b) \in Seq(V) /\ Join(o, Join(x, b)) \in Seq(V) /\ Join(o, b) \in Seq(V)
    BY <1>1, Joining
  <2>2. /\ DeclaredIn(toks, a, names) /\ DeclaredIn(toks, Join(o, Join(x, b)), names)
        /\ Apart(toks, a, Join(o, Join(x, b)))
    BY <1>2, <2>1, DeclaredParts
  <2>3. DeclaredIn(toks, o, names) /\ DeclaredIn(toks, Join(x, b), names) /\ Apart(toks, o, Join(x, b))
    BY <1>1, <2>1, <2>2, DeclaredParts
  <2>4. DeclaredIn(toks, b, names)
    BY <1>1, <2>3, DeclaredParts
  <2>5. Apart(toks, a, o) /\ Apart(toks, a, b) /\ Apart(toks, o, b)
    <3>1. a \in Seq(V) /\ o \in Seq(V) /\ x \in Seq(V) /\ b \in Seq(V)
      BY <1>1
    <3>2. Apart(toks, a, o) /\ Apart(toks, a, Join(x, b))
      BY <2>1, <2>2, <3>1, ApartParts
    <3>3. Apart(toks, a, b)
      BY <3>1, <3>2, ApartParts
    <3>4. Apart(toks, o, b)
      BY <2>3, <3>1, ApartParts
    <3>. QED
      BY <3>2, <3>3, <3>4
  <2>6. DeclaredIn(toks, Join(o, b), names) /\ Apart(toks, a, Join(o, b))
    BY <1>1, <2>3, <2>4, <2>5, DeclaredParts, ApartParts
  <2>. QED
    BY <1>1, <2>1, <2>2, <2>6, DeclaredParts
<1>. QED
  BY <1>1, <1>2, Zenon DEF Replaceable

-----------------------------------------------------------------------------
(* The holding stack of an expression that goes on.                        *)

\* What a frame says and has are tokens and trees.
LEMMA SpokenType ==
  ASSUME NEW toks \in Seq(Token), NEW f, FrameOK(f), FrameTree(f, TreesIn(toks), toks)
  PROVE  /\ Spoken(toks, f) \in Seq(Token) /\ Held(toks, f) \in Seq(TreesIn(toks))
         /\ NodesOf(f) \in Seq(TreesIn(toks)) /\ OwnWords(f) \in Seq(Token)
<1>1. PICK h : h = 3 * Len(toks) /\ h \in Nat
  <2>1. 3 * Len(toks) \in Nat
    OBVIOUS
  <2>. QED
    BY <2>1, Zenon
<1>2. FrameTree(f, Trees[h], toks)
  BY <1>1, Zenon DEF TreesIn
<1>3. /\ Says(Words(h), f) \in Seq(Token) /\ Has(Structs(h), f) \in Seq(Trees[h])
      /\ NodesOf(f) \in Seq(Trees[h]) /\ OwnWords(f) \in Seq(Token)
  BY <1>1, <1>2, SaysType
<1>. QED
  BY <1>1, <1>3, Zenon DEF Spoken, Held, WordsIn, StructsIn, TreesIn

\* The open parenthesis is a tree of every list of tokens.
LEMMA OpenTree ==
  ASSUME NEW toks \in Seq(Token), toks # <<>>
  PROVE  /\ \A k \in Nat \ {0} : Open \in Trees[k]
         /\ Open \in TreesIn(toks)
         /\ Wording(toks, One(Open)) = <<>> /\ Structure(toks, One(Open)) = <<>>
<1>1. "EXPRESSION" \in NodeTypes /\ "EXPRESSION" # "KEYWORD" /\ <<>> \in Seq(Token)
  BY DEF NodeTypes
<1>2. \A k \in Nat \ {0} : Open \in Trees[k]
  BY <1>1, LeafSays DEF Open
<1>3. Open \in TreesIn(toks)
  <2>1. 3 * Len(toks) \in Nat \ {0}
    OBVIOUS
  <2>. QED
    BY <1>2, <2>1, Zenon DEF TreesIn
<1>4. PICK one : /\ one = <<Open>> /\ one \in Seq(TreesIn(toks)) /\ \A k \in 1 .. Len(one) : one[k] = Open
  <2>1. <<Open>> \in Seq(TreesIn(toks)) /\ \A k \in 1 .. Len(<<Open>>) : <<Open>>[k] = Open
    BY <1>3
  <2>. QED
    BY <2>1, Zenon
<1>5. Back(one) = One(Open)
  <2>1. PICK u : u = Reverse(one) /\ u \in Seq(TreesIn(toks)) /\ Len(u) = 1 /\ u[1] = Open
    <3>1. Reverse(one) \in Seq(TreesIn(toks)) /\ Len(Reverse(one)) = Len(one)
          /\ \A i \in 1 .. Len(one) : Reverse(one)[i] = one[Len(one) - i + 1]
      BY <1>4, ReverseProperties
    <3>2. Len(one) = 1 /\ one[1] = Open
      BY <1>4
    <3>3. Reverse(one)[1] = Open
      BY <3>1, <3>2
    <3>. QED
      BY <3>1, <3>2, <3>3, Zenon
  <2>2. u = <<Open>>
    BY <2>1
  <2>. QED
    BY <2>1, <2>2, Zenon DEF Back, One
<1>6. Each(WordsIn(toks), Back(one)) = <<>> /\ Each(StructsIn(toks), Back(one)) = <<>>
  BY <1>4, OpensSay
<1>. QED
  BY <1>2, <1>3, <1>5, <1>6, Zenon DEF Wording, Structure

\* A parenthesis is held.
LEMMA OpenHeld ==
  ASSUME NEW toks \in Seq(Token), toks # <<>>, NEW f, ExpressionOK(f),
         NEW g, g = [f EXCEPT !.balance = @ + 1, !.held = Append(@, Open)]
  PROVE  GoesOnAs(f, g, toks, <<>>)
<1>1. /\ f.fn = "expression" /\ g.fn = "expression" /\ g.out = f.out /\ g.held = Append(f.held, Open)
  <2>1. f = [fn |-> "expression", out |-> f.out, held |-> f.held, balance |-> f.balance]
    BY Zenon DEF ExpressionOK
  <2>. QED
    BY <2>1
<1>2. ASSUME NEW S, FrameTree(f, S, toks), Open \in S
      PROVE  FrameTree(g, S, toks)
  <2>1. /\ f.out \in Seq(S) /\ f.held \in Seq(S)
        /\ HasArrayIn(toks) \/ \A k \in 1 .. Len(f.held) : f.held[k] = Open
    BY <1>1, <1>2 DEF FrameTree, ExpressionTree
  <2>2. PICK t : t = Append(f.held, Open) /\ t \in Seq(S) /\ Len(t) = Len(f.held) + 1 /\ t[Len(f.held) + 1] = Open
                 /\ \A k \in 1 .. Len(f.held) : t[k] = f.held[k]
    <3>1. /\ Append(f.held, Open) \in Seq(S) /\ Len(Append(f.held, Open)) = Len(f.held) + 1
          /\ Append(f.held, Open)[Len(f.held) + 1] = Open
          /\ \A k \in 1 .. Len(f.held) : Append(f.held, Open)[k] = f.held[k]
      BY <1>2, <2>1, AppendProperties
    <3>. QED
      BY <3>1, Zenon
  <2>3. HasArrayIn(toks) \/ \A k \in 1 .. Len(t) : t[k] = Open
    BY <2>1, <2>2
  <2>4. ExpressionTree(g, S, toks)
    BY <1>1, <2>1, <2>2, <2>3, Zenon DEF ExpressionTree
  <2>. QED
    BY <1>1, <2>4 DEF FrameTree
<1>3. ASSUME FrameTree(f, TreesIn(toks), toks)
      PROVE  /\ HasArrayIn(toks) \/ Spoken(toks, g) = Join(Spoken(toks, f), <<>>)
             /\ \A names : Replaceable(toks, Held(toks, f), names, Held(toks, g), names)
  <2>1. Open \in TreesIn(toks) /\ Wording(toks, One(Open)) = <<>> /\ Structure(toks, One(Open)) = <<>>
    BY OpenTree
  <2>2. FrameTree(g, TreesIn(toks), toks)
    BY <1>2, <1>3, <2>1
  <2>3. /\ f.out \in Seq(TreesIn(toks)) /\ f.held \in Seq(TreesIn(toks)) /\ Back(f.held) \in Seq(TreesIn(toks))
        /\ Spoken(toks, f) = Join(Wording(toks, f.out), Wording(toks, Back(f.held)))
        /\ Held(toks, f) = Join(Structure(toks, f.out), Structure(toks, Back(f.held)))
    BY <1>1, <1>3, ExpressionSays
  <2>4. /\ Spoken(toks, g) = Join(Wording(toks, f.out), Wording(toks, Back(g.held)))
        /\ Held(toks, g) = Join(Structure(toks, f.out), Structure(toks, Back(g.held)))
    <3>1. /\ Spoken(toks, g) = Join(Wording(toks, g.out), Wording(toks, Back(g.held)))
          /\ Held(toks, g) = Join(Structure(toks, g.out), Structure(toks, Back(g.held)))
      BY <1>1, <2>2, ExpressionSays
    <3>. QED
      BY <1>1, <3>1, Zenon
  <2>5. Back(g.held) = Join(One(Open), Back(f.held)) /\ One(Open) \in Seq(TreesIn(toks))
    <3>1. Back(Append(f.held, Open)) = Join(One(Open), Back(f.held)) /\ One(Open) \in Seq(TreesIn(toks))
      BY <2>1, <2>3, BackAppend
    <3>. QED
      BY <1>1, <3>1, Zenon
  <2>6. /\ Wording(toks, Join(One(Open), Back(f.held))) = Join(Wording(toks, One(Open)), Wording(toks, Back(f.held)))
        /\ Structure(toks, Join(One(Open), Back(f.held))) = Join(Structure(toks, One(Open)), Structure(toks, Back(f.held)))
        /\ Wording(toks, Back(f.held)) \in Seq(Token) /\ Structure(toks, Back(f.held)) \in Seq(TreesIn(toks))
    BY <2>3, <2>5, ListsJoin
  <2>7. /\ Join(<<>>, Wording(toks, Back(f.held))) = Wording(toks, Back(f.held))
        /\ Join(<<>>, Structure(toks, Back(f.held))) = Structure(toks, Back(f.held))
    BY <2>6, Joining
  <2>8. Spoken(toks, g) = Spoken(toks, f)
    BY <2>1, <2>3, <2>4, <2>5, <2>6, <2>7, Zenon
  <2>9. Held(toks, g) = Held(toks, f)
    BY <2>1, <2>3, <2>4, <2>5, <2>6, <2>7, Zenon
  <2>10. Join(Spoken(toks, f), <<>>) = Spoken(toks, f)
    <3>1. Spoken(toks, f) \in Seq(Token)
      BY <1>3, SpokenType DEF FrameOK
    <3>. QED
      BY <3>1, Joining
  <2>11. \A names : Replaceable(toks, Held(toks, f), names, Held(toks, f), names)
    BY SameStructs, Zenon
  <2>. QED
    BY <2>8, <2>9, <2>10, <2>11, Zenon
<1>4. \A k \in Nat \ {0} : Open \in Trees[k]
  BY OpenTree
<1>. QED
  BY <1>1, <1>2, <1>3, <1>4, Zenon DEF GoesOnAs

\* What is on top of the holding stack is dropped: without arrays a parenthesis.
LEMMA HeldDropped ==
  ASSUME NEW toks \in Seq(Token), toks # <<>>, NEW f, ExpressionOK(f), f.balance > 0,
         NEW g, g = [f EXCEPT !.balance = @ - 1, !.held = Front(@)]
  PROVE  GoesOnAs(f, g, toks, <<>>)
<1>1. /\ f.fn = "expression" /\ g.fn = "expression" /\ g.out = f.out /\ g.held = Front(f.held)
  <2>1. f = [fn |-> "expression", out |-> f.out, held |-> f.held, balance |-> f.balance]
    BY Zenon DEF ExpressionOK
  <2>. QED
    BY <2>1
<1>2. Len(f.held) > 0
  BY BalanceHolds DEF ExpressionOK
<1>3. ASSUME NEW S, FrameTree(f, S, toks)
      PROVE  /\ FrameTree(g, S, toks) /\ f.held = Append(g.held, Last(f.held))
             /\ Last(f.held) \in S /\ g.held \in Seq(S)
  <2>1. /\ f.out \in Seq(S) /\ f.held \in Seq(S)
        /\ HasArrayIn(toks) \/ \A k \in 1 .. Len(f.held) : f.held[k] = Open
    BY <1>1, <1>3 DEF FrameTree, ExpressionTree
  <2>2. PICK t, e : /\ t = Front(f.held) /\ e = Last(f.held) /\ t \in Seq(S) /\ e \in S
                    /\ f.held = Append(t, e)
    BY <1>2, <2>1, TakenFrom
  <2>3. HasArrayIn(toks) \/ \A k \in 1 .. Len(t) : t[k] = Open
    BY <2>1, <2>2, AppendProperties
  <2>4. ExpressionTree(g, S, toks)
    BY <1>1, <2>1, <2>2, <2>3, Zenon DEF ExpressionTree
  <2>5. FrameTree(g, S, toks)
    BY <1>1, <2>4 DEF FrameTree
  <2>. QED
    BY <1>1, <2>2, <2>5, Zenon
<1>4. ASSUME FrameTree(f, TreesIn(toks), toks)
      PROVE  /\ HasArrayIn(toks) \/ Spoken(toks, g) = Join(Spoken(toks, f), <<>>)
             /\ \A names : Replaceable(toks, Held(toks, f), names, Held(toks, g), names)
  <2>1. PICK e \in TreesIn(toks) : e = Last(f.held) /\ f.held = Append(g.held, e)
    BY <1>3, <1>4
  <2>2. FrameTree(g, TreesIn(toks), toks) /\ g.held \in Seq(TreesIn(toks))
    BY <1>3, <1>4
  <2>3. /\ f.out \in Seq(TreesIn(toks))
        /\ Spoken(toks, f) = Join(Wording(toks, f.out), Wording(toks, Back(f.held)))
        /\ Held(toks, f) = Join(Structure(toks, f.out), Structure(toks, Back(f.held)))
        /\ HasArrayIn(toks) \/ (Wording(toks, Back(f.held)) = <<>> /\ Structure(toks, Back(f.held)) = <<>>)
    BY <1>1, <1>4, ExpressionSays
  <2>4. /\ Back(g.held) \in Seq(TreesIn(toks))
        /\ Spoken(toks, g) = Join(Wording(toks, f.out), Wording(toks, Back(g.held)))
        /\ Held(toks, g) = Join(Structure(toks, f.out), Structure(toks, Back(g.held)))
        /\ HasArrayIn(toks) \/ (Wording(toks, Back(g.held)) = <<>> /\ Structure(toks, Back(g.held)) = <<>>)
    <3>1. /\ Back(g.held) \in Seq(TreesIn(toks))
          /\ Spoken(toks, g) = Join(Wording(toks, g.out), Wording(toks, Back(g.held)))
          /\ Held(toks, g) = Join(Structure(toks, g.out), Structure(toks, Back(g.held)))
          /\ HasArrayIn(toks) \/ (Wording(toks, Back(g.held)) = <<>> /\ Structure(toks, Back(g.held)) = <<>>)
      BY <1>1, <2>2, ExpressionSays
    <3>. QED
      BY <1>1, <3>1, Zenon
  <2>5. HasArrayIn(toks) \/ Spoken(toks, g) = Spoken(toks, f)
    BY <2>3, <2>4, Zenon
  <2>6. Join(Spoken(toks, f), <<>>) = Spoken(toks, f)
    <3>1. Spoken(toks, f) \in Seq(Token)
      BY <1>4, SpokenType DEF FrameOK
    <3>. QED
      BY <3>1, Joining
  <2>7. Back(f.held) = Join(One(e), Back(g.held)) /\ One(e) \in Seq(TreesIn(toks))
    <3>1. Back(Append(g.held, e)) = Join(One(e), Back(g.held)) /\ One(e) \in Seq(TreesIn(toks))
      BY <2>1, <2>2, BackAppend
    <3>. QED
      BY <2>1, <3>1, Zenon
  <2>8. /\ Structure(toks, Join(One(e), Back(g.held))) = Join(Structure(toks, One(e)), Structure(toks, Back(g.held)))
        /\ Structure(toks, One(e)) \in Seq(TreesIn(toks)) /\ Structure(toks, Back(g.held)) \in Seq(TreesIn(toks))
        /\ Structure(toks, f.out) \in Seq(TreesIn(toks))
    BY <2>3, <2>4, <2>7, ListsJoin
  <2>9. \A names : Replaceable(toks, Join(Structure(toks, f.out), Join(Structure(toks, One(e)), Structure(toks, Back(g.held)))),
                               names, Join(Structure(toks, f.out), Structure(toks, Back(g.held))), names)
    BY <2>8, DeclaredDrops
  <2>10. Held(toks, f) = Join(Structure(toks, f.out), Join(Structure(toks, One(e)), Structure(toks, Back(g.held))))
    BY <2>3, <2>7, <2>8, Zenon
  <2>11. \A names : Replaceable(toks, Held(toks, f), names, Held(toks, g), names)
    BY <2>4, <2>9, <2>10, Zenon
  <2>. QED
    BY <2>5, <2>6, <2>11, Zenon
<1>. QED
  BY <1>1, <1>3, <1>4, Zenon DEF GoesOnAs

-----------------------------------------------------------------------------
(* The other frames that go on.                                            *)

\* A frame that has the same words and nodes as before.
LEMMA SameNodes ==
  ASSUME NEW toks \in Seq(Token), NEW f, FrameOK(f), NEW g, g.fn = f.fn,
         f.fn = "arguments" => g.node.type = f.node.type,
         \A S : FrameTree(f, S, toks) => /\ FrameTree(g, S, toks)
                                         /\ NodesOf(g) = NodesOf(f) /\ OwnWords(g) = OwnWords(f)
  PROVE  GoesOnAs(f, g, toks, <<>>)
<1>1. ASSUME FrameTree(f, TreesIn(toks), toks)
      PROVE  /\ HasArrayIn(toks) \/ Spoken(toks, g) = Join(Spoken(toks, f), <<>>)
             /\ \A names : Replaceable(toks, Held(toks, f), names, Held(toks, g), names)
  <2>1. NodesOf(g) = NodesOf(f) /\ OwnWords(g) = OwnWords(f)
    BY <1>1
  <2>2. Spoken(toks, g) = Spoken(toks, f) /\ Held(toks, g) = Held(toks, f)
    BY <2>1, Zenon DEF Spoken, Held, Says, Has
  <2>3. Join(Spoken(toks, f), <<>>) = Spoken(toks, f)
    <3>1. Spoken(toks, f) \in Seq(Token)
      BY <1>1, SpokenType
    <3>. QED
      BY <3>1, Joining
  <2>4. \A names : Replaceable(toks, Held(toks, f), names, Held(toks, f), names)
    BY SameStructs, Zenon
  <2>. QED
    BY <2>2, <2>3, <2>4, Zenon
<1>. QED
  BY <1>1, Zenon DEF GoesOnAs

\* Nothing behind a list.
LEMMA Behinds ==
  ASSUME NEW S
  PROVE  /\ <<>> \in Seq(S)
         /\ \A x \in Seq(S) : x \o <<>> = x /\ <<>> \o x = x
         /\ \A x, y \in Seq(S) : x \o y \in Seq(S)
OBVIOUS

\* The arguments take what their call has returned.
LEMMA ArgumentsTake ==
  ASSUME NEW toks \in Seq(Token), NEW f, ArgumentsOK(f), NEW list, list = f.node.args \o f.call.list,
         NEW g, g = [fn |-> "arguments", node |-> [f.node EXCEPT !.args = list],
                     end |-> f.end, call |-> Waiting]
  PROVE  GoesOnAs(f, g, toks, <<>>)
<1>1. PICK node : node = [f.node EXCEPT !.args = list]
  OBVIOUS
<1>2. /\ f.fn = "arguments" /\ g.fn = "arguments" /\ g.node = node /\ g.call = Waiting
      /\ node.type = f.node.type /\ node.words = f.node.words /\ node.args = list
      /\ node.body = f.node.body
  <2>1. f.node = [type |-> f.node.type, words |-> f.node.words, args |-> f.node.args, body |-> f.node.body]
        /\ f.fn = "arguments"
    BY Zenon DEF ArgumentsOK
  <2>. QED
    BY <1>1, <2>1
<1>3. ASSUME NEW S, FrameTree(f, S, toks)
      PROVE  /\ FrameTree(g, S, toks)
             /\ NodesOf(g) = NodesOf(f) /\ OwnWords(g) = OwnWords(f)
  <2>1. /\ f.node.type \in {"FUNCTION_CALL", "ARRAY_ACCESS", "ARRAY", "OBJECT_INIT"}
        /\ HasArrayIn(toks) \/ f.node.type # "ARRAY"
        /\ f.node.words \in Seq(Token) /\ f.node.args \in Seq(S) /\ f.node.body = <<>>
        /\ f.call.list \in Seq(S)
    BY <1>2, <1>3 DEF FrameTree, ArgumentsTree, ListTree
  <2>2. list \in Seq(S) /\ list \o <<>> = list /\ <<>> \in Seq(S)
    BY <2>1, Behinds
  <2>3. Waiting.list = <<>>
    BY DEF Waiting
  <2>4. ListTree(g.call, S)
    BY <1>2, <2>2, <2>3, Zenon DEF ListTree
  <2>5. FrameTree(g, S, toks)
    BY <1>2, <2>1, <2>2, <2>4 DEF FrameTree, ArgumentsTree
  <2>6. NodesOf(f) = list /\ OwnWords(f) = f.node.words
    BY <1>2 DEF NodesOf, OwnWords
  <2>7. NodesOf(g) = list \o <<>> /\ OwnWords(g) = f.node.words
    BY <1>2, <2>3 DEF NodesOf, OwnWords
  <2>. QED
    BY <2>2, <2>5, <2>6, <2>7
<1>4. FrameOK(f)
  BY Zenon DEF FrameOK
<1>. QED
  BY <1>2, <1>3, <1>4, SameNodes

\* parser_analyze and a block take what their call has returned.
LEMMA RootTakes ==
  ASSUME NEW toks \in Seq(Token), NEW f, FrameOK(f), f.fn \in {"block", "analyze"},
         NEW g, g.fn = f.fn, g.call = Waiting, g.root = f.root \o f.call.list,
         f.fn = "block" => g.first = FALSE
  PROVE  GoesOnAs(f, g, toks, <<>>)
<1>1. ASSUME NEW S, FrameTree(f, S, toks)
      PROVE  /\ FrameTree(g, S, toks)
             /\ NodesOf(g) = NodesOf(f) /\ OwnWords(g) = OwnWords(f)
  <2>1. f.root \in Seq(S) /\ f.call.list \in Seq(S)
    BY <1>1 DEF FrameTree, BlockTree, AnalyzeTree, ListTree
  <2>2. PICK list : list = f.root \o f.call.list /\ list \in Seq(S) /\ list \o <<>> = list /\ <<>> \in Seq(S)
    BY <2>1, Behinds
  <2>3. Waiting.list = <<>>
    BY DEF Waiting
  <2>4. ListTree(g.call, S)
    BY <2>2, <2>3, Zenon DEF ListTree
  <2>5. FrameTree(g, S, toks)
    BY <2>2, <2>4 DEF FrameTree, BlockTree, AnalyzeTree
  <2>6. NodesOf(f) = list /\ OwnWords(f) = <<>>
    BY <2>2 DEF NodesOf, OwnWords
  <2>7. NodesOf(g) = list \o <<>> /\ OwnWords(g) = <<>>
    BY <2>2, <2>3 DEF NodesOf, OwnWords
  <2>. QED
    BY <2>2, <2>5, <2>6, <2>7
<1>2. f.fn # "arguments"
  OBVIOUS
<1>. QED
  BY <1>1, <1>2, SameNodes

\* The parts behind the first.
LEMMA OrderedParts ==
  ASSUME NEW parts \in Seq(Parts), parts # <<>>, Ordered(parts)
  PROVE  /\ Ordered(Tail(parts))
         /\ \A kinds : Ahead(Tail(parts), kinds) => Ahead(parts, kinds)
         /\ \A kinds : Head(parts) \in kinds => Ahead(parts, kinds)
         /\ Head(parts) \in Asking => ~Ahead(parts, {"IDENTIFIER"}) /\ ~Ahead(Tail(parts), {"IDENTIFIER"})
         /\ Head(parts) = "BLOCK" => ~Ahead(Tail(parts), Asking)
         /\ Head(parts) = "IDENTIFIER" => Tail(parts) # <<>> /\ Head(Tail(parts)) \in Punctuation
<1>0. PICK n \in Nat : Len(parts) = n + 1
  BY EmptySeq
<1>1. PICK rest : /\ rest = Tail(parts) /\ rest \in Seq(Parts) /\ Len(parts) = n + 1 /\ Len(rest) = n
                  /\ DOMAIN parts = 1 .. n + 1 /\ DOMAIN rest = 1 .. n /\ Head(parts) = parts[1]
                  /\ \A i \in 1 .. n : rest[i] = parts[i + 1] /\ i + 1 \in 1 .. n + 1
  <2>2. Tail(parts) \in Seq(Parts) /\ Len(Tail(parts)) = n /\ \A i \in 1 .. n : Tail(parts)[i] = parts[i + 1]
    BY <1>0, TailParts
  <2>3. \A i \in 1 .. n : i + 1 \in 1 .. n + 1
    OBVIOUS
  <2>4. DOMAIN parts = 1 .. n + 1 /\ DOMAIN Tail(parts) = 1 .. n /\ Head(parts) = parts[1]
    BY <1>0, <2>2
  <2>. QED
    BY <1>0, <2>2, <2>3, <2>4, Zenon
<1>2. /\ \A i \in 1 .. n + 1 : \A j \in i + 1 .. n + 1 :
           /\ parts[i] \in Asking => parts[j] # "IDENTIFIER"
           /\ parts[i] = "BLOCK" => parts[j] \notin Asking
      /\ \A i \in 1 .. n + 1 : parts[i] = "IDENTIFIER" => i < n + 1 /\ parts[i + 1] \in Punctuation
  BY <1>1 DEF Ordered
<1>3. Ordered(rest)
  <2>1. ASSUME NEW i \in 1 .. n, NEW j \in i + 1 .. n
        PROVE  /\ rest[i] \in Asking => rest[j] # "IDENTIFIER"
               /\ rest[i] = "BLOCK" => rest[j] \notin Asking
    <3>1. i + 1 \in 1 .. n + 1 /\ j + 1 \in (i + 1) + 1 .. n + 1 /\ j \in 1 .. n
      OBVIOUS
    <3>. QED
      BY <1>1, <1>2, <3>1
  <2>2. ASSUME NEW i \in 1 .. n, rest[i] = "IDENTIFIER"
        PROVE  i < n /\ rest[i + 1] \in Punctuation
    <3>1. i + 1 \in 1 .. n + 1 /\ parts[i + 1] = "IDENTIFIER"
      BY <1>1, <2>2
    <3>2. i + 1 < n + 1 /\ parts[(i + 1) + 1] \in Punctuation
      BY <1>2, <3>1
    <3>3. i < n /\ i + 1 \in 1 .. n
      BY <3>2
    <3>. QED
      BY <1>1, <3>2, <3>3
  <2>. QED
    BY <1>1, <2>1, <2>2 DEF Ordered
<1>4. ASSUME NEW kinds
      PROVE  /\ Ahead(rest, kinds) => Ahead(parts, kinds)
             /\ Head(parts) \in kinds => Ahead(parts, kinds)
  <2>1. 1 \in 1 .. n + 1
    OBVIOUS
  <2>. QED
    BY <1>1, <2>1 DEF Ahead
<1>5. ASSUME NEW kinds, NEW more, Head(parts) \in more,
             \A j \in 2 .. n + 1 : parts[j] \notin kinds
      PROVE  ~Ahead(rest, kinds)
  <2>1. \A i \in 1 .. n : i + 1 \in 2 .. n + 1
    OBVIOUS
  <2>. QED
    BY <1>1, <1>5, <2>1 DEF Ahead
<1>6. 1 \in 1 .. n + 1 /\ \A j \in 2 .. n + 1 : j \in 1 + 1 .. n + 1
  OBVIOUS
<1>7. ASSUME Head(parts) \in Asking
      PROVE  ~Ahead(parts, {"IDENTIFIER"}) /\ ~Ahead(rest, {"IDENTIFIER"})
  <2>1. \A j \in 2 .. n + 1 : parts[j] \notin {"IDENTIFIER"}
    BY <1>1, <1>2, <1>6, <1>7
  <2>2. parts[1] # "IDENTIFIER"
    BY <1>1, <1>7 DEF Asking
  <2>3. \A j \in 1 .. n + 1 : j = 1 \/ j \in 2 .. n + 1
    OBVIOUS
  <2>. QED
    BY <1>1, <1>5, <1>7, <2>1, <2>2, <2>3 DEF Ahead
<1>8. ASSUME Head(parts) = "BLOCK"
      PROVE  ~Ahead(rest, Asking)
  <2>1. \A j \in 2 .. n + 1 : parts[j] \notin Asking
    BY <1>1, <1>2, <1>6, <1>8
  <2>. QED
    BY <1>5, <1>8, <2>1
<1>9. ASSUME Head(parts) = "IDENTIFIER"
      PROVE  rest # <<>> /\ Head(rest) \in Punctuation
  <2>1. 1 < n + 1 /\ parts[2] \in Punctuation
    BY <1>1, <1>2, <1>6, <1>9
  <2>2. 1 \in 1 .. n
    BY <2>1
  <2>3. rest # <<>> /\ Head(rest) = rest[1]
    <3>1. Len(rest) # 0
      BY <1>1, <2>1
    <3>2. rest # <<>>
      BY <3>1
    <3>. QED
      BY <3>2
  <2>. QED
    BY <1>1, <2>1, <2>2, <2>3
<1>. QED
  BY <1>1, <1>3, <1>4, <1>7, <1>8, <1>9, Zenon

-----------------------------------------------------------------------------
(* A statement that goes on.                                               *)

\* The nodes of a statement, those its call has returned behind its own.
NodesWith(node, c) == (node.args \o node.body) \o c.list

\* The parts of a statement, and those of what it becomes.
StatementHas(f, S, g, node, parts, c) ==
  /\ f.fn = "statement" /\ g.fn = "statement" /\ g.node = node /\ g.parts = parts /\ g.call = c
  /\ f.node.type \in {"KEYWORD", "DECL_FUNCTION"}
  /\ f.node.args \in Seq(S) /\ f.node.body \in Seq(S) /\ f.call.list \in Seq(S)
  /\ f.call.back = FALSE => f.call.list = <<>>
  /\ Ordered(f.parts) /\ f.parts \in Seq(Parts)
  /\ Ahead(f.parts, {"IDENTIFIER"}) => f.node.args = <<>> /\ f.node.body = <<>>
  /\ Ahead(f.parts, Asking) => f.node.body = <<>>
  /\ NodesOf(f) = NodesWith(f.node, f.call) /\ OwnWords(f) = f.node.words
  /\ NodesOf(g) = NodesWith(node, c) /\ OwnWords(g) = node.words

\* A statement and what it becomes, in parts.
LEMMA StatementsHave ==
  ASSUME NEW f, StatementOK(f), NEW S, NEW toks, FrameTree(f, S, toks),
         NEW g, NEW node, NEW parts, NEW c, IsStatement(g, node, parts, c)
  PROVE  StatementHas(f, S, g, node, parts, c)
<1>1. /\ f.fn = "statement" /\ f.parts \in Seq(Parts)
  BY DEF StatementOK
<1>2. g.fn = "statement" /\ g.node = node /\ g.parts = parts /\ g.call = c
  BY DEF IsStatement
<1>3. StatementTree(f, S)
  BY <1>1 DEF FrameTree
<1>4. NodesOf(f) = NodesWith(f.node, f.call) /\ OwnWords(f) = f.node.words
  BY <1>1 DEF NodesOf, OwnWords, NodesWith
<1>5. NodesOf(g) = NodesWith(node, c) /\ OwnWords(g) = node.words
  BY <1>2 DEF NodesOf, OwnWords, NodesWith
<1>. QED
  BY <1>1, <1>2, <1>3, <1>4, <1>5, Zenon DEF StatementTree, ListTree, StatementHas

\* What it has to be for its tree.
LEMMA StatementGrows ==
  ASSUME NEW S, NEW toks, NEW g, NEW node, NEW parts, NEW c, IsStatement(g, node, parts, c),
         node.type \in {"KEYWORD", "DECL_FUNCTION"},
         node.args \in Seq(S), node.body \in Seq(S), ListTree(c, S), Ordered(parts),
         Ahead(parts, {"IDENTIFIER"}) => node.args = <<>> /\ node.body = <<>>,
         Ahead(parts, Asking) => node.body = <<>>
  PROVE  FrameTree(g, S, toks)
<1>1. g.fn = "statement" /\ g.node = node /\ g.parts = parts /\ g.call = c
  BY DEF IsStatement
<1>2. StatementTree(g, S)
  BY <1>1, Zenon DEF StatementTree
<1>. QED
  BY <1>1, <1>2 DEF FrameTree

\* A token of the declaration is consumed.
LEMMA PartConsumed ==
  ASSUME NEW toks \in Seq(Token), NEW f, StatementOK(f), f.parts # <<>>,
         NEW g, IsStatement(g, f.node, Tail(f.parts), f.call)
  PROVE  GoesOnAs(f, g, toks, <<>>)
<1>1. ASSUME NEW S, FrameTree(f, S, toks)
      PROVE  /\ FrameTree(g, S, toks)
             /\ NodesOf(g) = NodesOf(f) /\ OwnWords(g) = OwnWords(f) /\ g.fn = f.fn
  <2>1. /\ f.node.type \in {"KEYWORD", "DECL_FUNCTION"} /\ g.fn = f.fn
        /\ f.node.args \in Seq(S) /\ f.node.body \in Seq(S)
        /\ Ordered(f.parts) /\ f.parts \in Seq(Parts)
        /\ Ahead(f.parts, {"IDENTIFIER"}) => f.node.args = <<>> /\ f.node.body = <<>>
        /\ Ahead(f.parts, Asking) => f.node.body = <<>>
        /\ NodesOf(g) = NodesOf(f) /\ OwnWords(g) = OwnWords(f)
    <3>1. StatementHas(f, S, g, f.node, Tail(f.parts), f.call)
      BY <1>1, StatementsHave
    <3>. QED
      BY <3>1, Zenon DEF StatementHas
  <2>2. ListTree(f.call, S)
    BY <1>1 DEF FrameTree, StatementTree, StatementOK
  <2>3. /\ Ordered(Tail(f.parts))
        /\ \A kinds : Ahead(Tail(f.parts), kinds) => Ahead(f.parts, kinds)
    BY <2>1, OrderedParts
  <2>4. FrameTree(g, S, toks)
    BY <2>1, <2>2, <2>3, StatementGrows
  <2>. QED
    BY <2>1, <2>4
<1>2. FrameOK(f) /\ f.fn = "statement" /\ g.fn = "statement"
  BY DEF FrameOK, StatementOK, IsStatement
<1>. QED
  BY <1>1, <1>2, SameNodes

\* What a frame says and has are its words, and the words and structs of its nodes.
LEMMA FrameWords ==
  ASSUME NEW toks \in Seq(Token), NEW f
  PROVE  /\ Spoken(toks, f) = Join(OwnWords(f), Wording(toks, NodesOf(f)))
         /\ Held(toks, f) = Structure(toks, NodesOf(f))
BY Zenon DEF Spoken, Held, Says, Has, Wording, Structure, Join

\* A name is consumed and kept.
LEMMA NameKept ==
  ASSUME NEW toks \in Seq(Token), NEW f, StatementOK(f), f.parts # <<>>, Head(f.parts) = "IDENTIFIER",
         f.call.back = FALSE, NEW name \in Names,
         NEW node, node = [f.node EXCEPT !.words = Append(f.node.words, name)],
         NEW g, IsStatement(g, node, Tail(f.parts), f.call)
  PROVE  GoesOnAs(f, g, toks, One(name))
<1>1. /\ node.type = f.node.type /\ node.words = Append(f.node.words, name)
      /\ node.args = f.node.args /\ node.body = f.node.body /\ f.node.words \in Seq(Token)
  <2>1. f.node = [type |-> f.node.type, words |-> f.node.words, args |-> f.node.args, body |-> f.node.body]
        /\ f.node.words \in Seq(Token)
    BY DEF StatementOK, IsNode
  <2>. QED
    BY <2>1
<1>2. ASSUME NEW S, FrameTree(f, S, toks)
      PROVE  /\ FrameTree(g, S, toks)
             /\ NodesOf(f) = <<>> /\ OwnWords(f) = f.node.words
             /\ NodesOf(g) = <<>> /\ OwnWords(g) = node.words
  <2>1. /\ f.node.type \in {"KEYWORD", "DECL_FUNCTION"}
        /\ f.node.args \in Seq(S) /\ f.node.body \in Seq(S) /\ f.call.list = <<>>
        /\ Ordered(f.parts) /\ f.parts \in Seq(Parts)
        /\ Ahead(f.parts, {"IDENTIFIER"}) => f.node.args = <<>> /\ f.node.body = <<>>
        /\ NodesOf(f) = NodesWith(f.node, f.call) /\ OwnWords(f) = f.node.words
        /\ NodesOf(g) = NodesWith(node, f.call) /\ OwnWords(g) = node.words
    <3>1. StatementHas(f, S, g, node, Tail(f.parts), f.call)
      BY <1>2, StatementsHave
    <3>. QED
      BY <3>1, Zenon DEF StatementHas
  <2>2. ListTree(f.call, S)
    BY <1>2 DEF FrameTree, StatementTree, StatementOK
  <2>3. /\ Ordered(Tail(f.parts))
        /\ \A kinds : Head(f.parts) \in kinds => Ahead(f.parts, kinds)
    BY <2>1, OrderedParts
  <2>4. f.node.args = <<>> /\ f.node.body = <<>>
    BY <2>1, <2>3
  <2>5. FrameTree(g, S, toks)
    <3>1. <<>> \in Seq(S)
      OBVIOUS
    <3>2. node.args \in Seq(S) /\ node.body \in Seq(S) /\ node.args = <<>> /\ node.body = <<>>
          /\ node.type \in {"KEYWORD", "DECL_FUNCTION"}
      BY <1>1, <2>1, <2>4, <3>1, Zenon
    <3>. QED
      BY <2>2, <2>3, <3>2, StatementGrows, Zenon
  <2>6. (<<>> \o <<>>) \o <<>> = <<>>
    OBVIOUS
  <2>7. NodesOf(f) = <<>> /\ NodesOf(g) = <<>>
    BY <1>1, <2>1, <2>4, <2>6, Zenon DEF NodesWith
  <2>. QED
    BY <2>1, <2>5, <2>7, Zenon
<1>3. f.fn = "statement" /\ g.fn = "statement"
  BY DEF StatementOK, IsStatement
<1>4. ASSUME FrameTree(f, TreesIn(toks), toks)
      PROVE  /\ Spoken(toks, g) = Join(Spoken(toks, f), One(name))
             /\ \A names : Replaceable(toks, Held(toks, f), names, Held(toks, g), names)
  <2>1. NodesOf(f) = <<>> /\ OwnWords(f) = f.node.words /\ NodesOf(g) = <<>> /\ OwnWords(g) = node.words
    BY <1>2, <1>4
  <2>2. /\ Spoken(toks, f) = Join(f.node.words, Wording(toks, <<>>)) /\ Held(toks, f) = Structure(toks, <<>>)
        /\ Spoken(toks, g) = Join(node.words, Wording(toks, <<>>)) /\ Held(toks, g) = Structure(toks, <<>>)
    BY <2>1, FrameWords, Zenon
  <2>3. Wording(toks, <<>>) = <<>>
    BY ListsJoin
  <2>4. node.words = Join(f.node.words, One(name)) /\ node.words \in Seq(Token)
    <3>1. name \in Token
      BY DEF Token
    <3>2. /\ Append(f.node.words, name) = Join(f.node.words, One(name))
          /\ Append(f.node.words, name) \in Seq(Token)
      BY <1>1, <3>1, BackAppend
    <3>. QED
      BY <1>1, <3>2, Zenon
  <2>5. Join(f.node.words, <<>>) = f.node.words /\ Join(node.words, <<>>) = node.words
    BY <1>1, <2>4, Joining
  <2>6. Spoken(toks, g) = Join(Spoken(toks, f), One(name))
    BY <2>2, <2>3, <2>4, <2>5, Zenon
  <2>7. Held(toks, g) = Held(toks, f)
    BY <2>2, Zenon
  <2>. QED
    BY <2>6, <2>7, SameStructs, Zenon
<1>. QED
  BY <1>2, <1>3, <1>4, Zenon DEF GoesOnAs

\* An expression has returned: its nodes are arguments.
LEMMA ArgsTaken ==
  ASSUME NEW toks \in Seq(Token), NEW f, StatementOK(f), f.parts # <<>>, Head(f.parts) \in Asking,
         NEW parts, parts \in {f.parts, Tail(f.parts)},
         NEW list, list = f.node.args \o f.call.list,
         NEW node, node = [f.node EXCEPT !.args = list],
         NEW g, IsStatement(g, node, parts, Waiting)
  PROVE  GoesOnAs(f, g, toks, <<>>)
<1>1. node.type = f.node.type /\ node.words = f.node.words /\ node.args = list /\ node.body = f.node.body
  <2>1. f.node = [type |-> f.node.type, words |-> f.node.words, args |-> f.node.args, body |-> f.node.body]
    BY DEF StatementOK, IsNode
  <2>. QED
    BY <2>1
<1>2. ASSUME NEW S, FrameTree(f, S, toks)
      PROVE  /\ FrameTree(g, S, toks)
             /\ NodesOf(g) = NodesOf(f) /\ OwnWords(g) = OwnWords(f)
  <2>1. /\ f.node.type \in {"KEYWORD", "DECL_FUNCTION"}
        /\ f.node.args \in Seq(S) /\ f.node.body \in Seq(S) /\ f.call.list \in Seq(S)
        /\ Ordered(f.parts) /\ f.parts \in Seq(Parts)
        /\ Ahead(f.parts, Asking) => f.node.body = <<>>
        /\ NodesOf(f) = NodesWith(f.node, f.call) /\ OwnWords(f) = f.node.words
        /\ NodesOf(g) = NodesWith(node, Waiting) /\ OwnWords(g) = node.words
    <3>1. StatementHas(f, S, g, node, parts, Waiting)
      BY <1>2, StatementsHave
    <3>. QED
      BY <3>1, Zenon DEF StatementHas
  <2>2. /\ Ordered(Tail(f.parts)) /\ ~Ahead(f.parts, {"IDENTIFIER"}) /\ ~Ahead(Tail(f.parts), {"IDENTIFIER"})
        /\ \A kinds : Head(f.parts) \in kinds => Ahead(f.parts, kinds)
    BY <2>1, OrderedParts
  <2>3. Ordered(parts) /\ ~Ahead(parts, {"IDENTIFIER"}) /\ f.node.body = <<>>
    BY <2>1, <2>2, Zenon
  <2>4. Waiting.list = <<>>
    BY DEF Waiting
  <2>5. PICK l : l = list /\ l \in Seq(S) /\ l \o <<>> = l /\ <<>> \in Seq(S)
    BY <2>1, Behinds
  <2>6. ListTree(Waiting, S)
    BY <2>4, <2>5, Zenon DEF ListTree
  <2>7. FrameTree(g, S, toks)
    <3>1. node.args \in Seq(S) /\ node.body \in Seq(S) /\ node.body = <<>>
          /\ node.type \in {"KEYWORD", "DECL_FUNCTION"}
      BY <1>1, <2>1, <2>3, <2>5, Zenon
    <3>. QED
      BY <2>3, <2>6, <3>1, StatementGrows, Zenon
  <2>8. NodesOf(f) = l
    <3>1. f.node.args \o <<>> = f.node.args
      BY <2>1, Behinds
    <3>. QED
      BY <2>1, <2>3, <2>5, <3>1, Zenon DEF NodesWith
  <2>9. NodesOf(g) = l
    BY <1>1, <2>1, <2>3, <2>4, <2>5, Zenon DEF NodesWith
  <2>. QED
    BY <1>1, <2>1, <2>7, <2>8, <2>9, Zenon
<1>3. FrameOK(f) /\ f.fn = "statement" /\ g.fn = "statement"
  BY DEF FrameOK, StatementOK, IsStatement
<1>. QED
  BY <1>2, <1>3, SameNodes

\* A block has returned: its nodes are the body.
LEMMA BodyTaken ==
  ASSUME NEW toks \in Seq(Token), NEW f, StatementOK(f), f.parts # <<>>, Head(f.parts) = "BLOCK",
         NEW node, node = [f.node EXCEPT !.body = f.call.list],
         NEW g, IsStatement(g, node, Tail(f.parts), Waiting)
  PROVE  GoesOnAs(f, g, toks, <<>>)
<1>1. node.type = f.node.type /\ node.words = f.node.words /\ node.args = f.node.args /\ node.body = f.call.list
  <2>1. f.node = [type |-> f.node.type, words |-> f.node.words, args |-> f.node.args, body |-> f.node.body]
    BY DEF StatementOK, IsNode
  <2>. QED
    BY <2>1
<1>2. ASSUME NEW S, FrameTree(f, S, toks)
      PROVE  /\ FrameTree(g, S, toks)
             /\ NodesOf(g) = NodesOf(f) /\ OwnWords(g) = OwnWords(f)
  <2>1. /\ f.node.type \in {"KEYWORD", "DECL_FUNCTION"}
        /\ f.node.args \in Seq(S) /\ f.node.body \in Seq(S) /\ f.call.list \in Seq(S)
        /\ Ordered(f.parts) /\ f.parts \in Seq(Parts)
        /\ Ahead(f.parts, Asking) => f.node.body = <<>>
        /\ NodesOf(f) = NodesWith(f.node, f.call) /\ OwnWords(f) = f.node.words
        /\ NodesOf(g) = NodesWith(node, Waiting) /\ OwnWords(g) = node.words
    <3>1. StatementHas(f, S, g, node, Tail(f.parts), Waiting)
      BY <1>2, StatementsHave
    <3>. QED
      BY <3>1, Zenon DEF StatementHas
  <2>2. Head(f.parts) \in Asking
    BY DEF Asking
  <2>3. /\ Ordered(Tail(f.parts)) /\ ~Ahead(Tail(f.parts), {"IDENTIFIER"}) /\ ~Ahead(Tail(f.parts), Asking)
        /\ \A kinds : Head(f.parts) \in kinds => Ahead(f.parts, kinds)
    BY <2>1, <2>2, OrderedParts
  <2>4. f.node.body = <<>>
    BY <2>1, <2>2, <2>3, Zenon
  <2>5. Waiting.list = <<>> /\ <<>> \in Seq(S)
    BY DEF Waiting
  <2>6. ListTree(Waiting, S)
    BY <2>5, Zenon DEF ListTree
  <2>7. FrameTree(g, S, toks)
    <3>1. node.args \in Seq(S) /\ node.body \in Seq(S)
          /\ node.type \in {"KEYWORD", "DECL_FUNCTION"}
      BY <1>1, <2>1, Zenon
    <3>. QED
      BY <2>3, <2>6, <3>1, StatementGrows, Zenon
  <2>8. f.node.args \o <<>> = f.node.args
        /\ (f.node.args \o f.call.list) \o <<>> = f.node.args \o f.call.list
    BY <2>1, Behinds
  <2>9. NodesOf(f) = f.node.args \o f.call.list
    BY <2>1, <2>4, <2>8, Zenon DEF NodesWith
  <2>10. NodesOf(g) = f.node.args \o f.call.list
    BY <1>1, <2>1, <2>5, <2>8, Zenon DEF NodesWith
  <2>. QED
    BY <1>1, <2>1, <2>7, <2>9, <2>10, Zenon
<1>3. FrameOK(f) /\ f.fn = "statement" /\ g.fn = "statement"
  BY DEF FrameOK, StatementOK, IsStatement
<1>. QED
  BY <1>2, <1>3, SameNodes

-----------------------------------------------------------------------------
(* Steps and their trees.                                                  *)

\* The call on top, and its place.
LEMMA Situation ==
  ASSUME ParserInv, TreesGrow, status = "running"
  PROVE  /\ tokens \in Seq(Token) /\ tokens # <<>> /\ Len(tokens) \in Nat /\ pos \in 1 .. Len(tokens)
         /\ StackOK(stack) /\ Len(stack) \in Nat \ {0} /\ IsList(stack)
         /\ Grows(stack, pos, tokens, types) /\ FramesGrow(stack, pos, tokens) /\ BracketPlace
         /\ Top = stack[Len(stack)] /\ Top = Frame(stack, Len(stack)) /\ FrameOK(Top)
         /\ Len(stack) + Room(Top.fn) <= 3 * pos
         /\ Levels(pos, Len(stack)) \in Nat \ {0}
         /\ FrameTree(Top, Trees[Levels(pos, Len(stack))], tokens)
         /\ FrameTree(Top, TreesIn(tokens), tokens)
<1>1. /\ Types /\ StackOK(stack) /\ Len(stack) \in Nat \ {0}
      /\ Top = stack[Len(stack)] /\ FrameOK(Top)
      /\ pos \in 1 .. Len(tokens) /\ Len(tokens) \in Nat
  BY Running
<1>2. tokens \in Seq(Token) /\ tokens # <<>>
  BY <1>1, Listed
<1>3. Grows(stack, pos, tokens, types) /\ FramesGrow(stack, pos, tokens) /\ BracketPlace
  BY Zenon DEF TreesGrow, Grows
<1>4. PICK n : n = Len(stack) /\ n \in 1 .. Len(stack)
  BY <1>1
<1>5. PICK h : h = 3 * Len(tokens)
  OBVIOUS
<1>6. /\ Levels(pos, n) \in Nat \ {0}
      /\ FrameTree(stack[n], Trees[Levels(pos, n)], tokens) /\ FrameTree(stack[n], Trees[h], tokens)
  BY <1>1, <1>2, <1>3, <1>4, <1>5, FramesInside
<1>7. n + Room(stack[n].fn) <= 3 * pos
  BY <1>3, <1>4 DEF FramesGrow
<1>8. FrameTree(Top, TreesIn(tokens), tokens)
  BY <1>1, <1>4, <1>5, <1>6, Zenon DEF TreesIn
<1>9. IsList(stack)
  BY <1>1, Zenon DEF StackOK
<1>. QED
  BY <1>1, <1>2, <1>3, <1>4, <1>6, <1>7, <1>8, <1>9, Zenon DEF Frame

\* What is kept of the tokens from p up to q.
KeptFrom(toks, p, q, read) ==
  /\ q \in p .. Len(toks) + 1 /\ read \in Seq(Token)
  /\ KeptUpTo(toks, q - 1) = Join(KeptUpTo(toks, p - 1), read)

\* Of no token nothing is kept.
LEMMA KeptNothing ==
  ASSUME NEW toks \in Seq(Token), NEW p \in 1 .. Len(toks)
  PROVE  KeptFrom(toks, p, p, <<>>)
<1>1. PICK n \in Nat : n = p - 1 /\ n < Len(toks)
  OBVIOUS
<1>2. KeptUpTo(toks, n) \in Seq(Token)
  BY <1>1, KeptNext
<1>3. Join(KeptUpTo(toks, n), <<>>) = KeptUpTo(toks, n) /\ <<>> \in Seq(Token)
  BY <1>2, Joining
<1>4. p \in p .. Len(toks) + 1
  OBVIOUS
<1>. QED
  BY <1>1, <1>3, <1>4, Zenon DEF KeptFrom

\* A token more, which the tree keeps or does not keep.
LEMMA KeptMore ==
  ASSUME NEW toks \in Seq(Token), NEW p \in 1 .. Len(toks), NEW q, NEW r, KeptFrom(toks, p, q, r),
         q <= Len(toks), NEW next, next = q + 1
  PROVE  /\ toks[q] \in Punctuation \cup {EndOfFile} => KeptFrom(toks, p, next, r)
         /\ toks[q] \in Names \cup Numbers \cup Strings \cup Keywords =>
              /\ KeptFrom(toks, p, next, Join(r, One(toks[q])))
              /\ r = <<>> => KeptFrom(toks, p, next, One(toks[q]))
<1>1. /\ q \in p .. Len(toks) + 1 /\ r \in Seq(Token)
      /\ KeptUpTo(toks, q - 1) = Join(KeptUpTo(toks, p - 1), r)
  BY DEF KeptFrom
<1>2. PICK n \in Nat : n = q - 1 /\ n < Len(toks) /\ n + 1 = q
  BY <1>1
<1>3. PICK k \in Nat : k = p - 1 /\ k < Len(toks)
  OBVIOUS
<1>4. /\ KeptUpTo(toks, k) \in Seq(Token)
      /\ KeptUpTo(toks, n + 1) = Join(KeptUpTo(toks, n), Kept(toks[n + 1]))
  BY <1>2, <1>3, KeptNext
<1>5. next - 1 = n + 1 /\ next \in p .. Len(toks) + 1
  BY <1>1, <1>2
<1>6. PICK t : t = toks[q] /\ t \in Token
  BY <1>1
<1>7. KeptUpTo(toks, next - 1) = Join(Join(KeptUpTo(toks, k), r), Kept(t))
  BY <1>1, <1>2, <1>3, <1>4, <1>5, <1>6, Zenon
<1>8. ASSUME Kept(t) \in Seq(Token)
      PROVE  /\ Join(Join(KeptUpTo(toks, k), r), Kept(t)) = Join(KeptUpTo(toks, k), Join(r, Kept(t)))
             /\ Join(r, Kept(t)) \in Seq(Token)
  BY <1>1, <1>4, <1>8, Joining
<1>9. CASE t \in Punctuation \cup {EndOfFile}
  <2>1. Kept(t) = <<>> /\ <<>> \in Seq(Token)
    BY <1>9 DEF Kept
  <2>2. Join(r, <<>>) = r
    BY <1>1, Joining
  <2>3. KeptFrom(toks, p, next, r)
    BY <1>1, <1>3, <1>5, <1>7, <1>8, <2>1, <2>2, Zenon DEF KeptFrom
  <2>4. t \notin Names \cup Numbers \cup Strings \cup Keywords
    BY <1>9, Kinds
  <2>. QED
    BY <1>6, <2>3, <2>4
<1>10. CASE t \in Names \cup Numbers \cup Strings \cup Keywords
  <2>1. t \notin Punctuation \cup {EndOfFile}
    BY <1>10, Kinds
  <2>2. Kept(t) = One(t)
    BY <2>1, Zenon DEF Kept, One
  <2>3. One(t) \in Seq(Token)
    BY <1>6 DEF One
  <2>4. KeptFrom(toks, p, next, Join(r, One(t)))
    BY <1>3, <1>5, <1>7, <1>8, <2>2, <2>3, Zenon DEF KeptFrom
  <2>5. Join(<<>>, One(t)) = One(t)
    BY <2>3, Joining
  <2>. QED
    BY <1>6, <2>1, <2>4, <2>5, Zenon
<1>11. t \in Punctuation \cup {EndOfFile} \/ t \in Names \cup Numbers \cup Strings \cup Keywords
  BY <1>6 DEF Token
<1>. QED
  BY <1>9, <1>10, <1>11

\* Nothing is to be shown of the tree while there is none.
LEMMA NoTree ==
  ASSUME status' \in {"running", "exit", "nullderef"},
         status' = "running" => Grows(stack', pos', tokens', types') /\ BracketPlace'
  PROVE  TreesGrow'
<1>1. KeepsEveryWord' /\ OneStructPerName'
  BY DEF KeepsEveryWord, OneStructPerName
<1>. QED
  BY <1>1 DEF TreesGrow

\* An opening bracket is not where it would start an expression.
LEMMA BracketStays ==
  ASSUME BracketPlace, tokens' = tokens, pos' = pos,
         Top.fn = "statement" /\ Top.call.back = FALSE /\ Top.parts # <<>> => Head(Top.parts) \notin Punctuation
  PROVE  BracketPlace'
BY DEF BracketPlace

\* Reading any other token leaves no opening bracket behind a name.
LEMMA BracketReads ==
  ASSUME tokens' = tokens, tokens[pos'] # "[" \/ tokens[pos' - 1] \notin Names
  PROVE  BracketPlace'
BY DEF BracketPlace

\* The call on top goes on as g, with what has been read.
LEMMA Fitting ==
  ASSUME NEW toks, NEW f, NEW g, NEW read, GoesOnAs(f, g, toks, read),
         NEW p \in Nat, NEW q \in Nat, p <= q, NEW m, Levels(p, m) \in Nat \ {0},
         NEW r, r = Room(f.fn), m \in Nat, m + r <= 3 * p,
         FrameTree(f, Trees[Levels(p, m)], toks)
  PROVE  Fits(g, q, m, toks)
<1>1. r \in {1, 2, 3} /\ Room(g.fn) = r
  BY DEF Room, GoesOnAs
<1>2. FrameTree(g, Trees[Levels(p, m)], toks)
  BY Zenon DEF GoesOnAs
<1>3. Levels(q, m) \in Nat /\ Levels(p, m) <= Levels(q, m)
  BY <1>1 DEF Levels
<1>4. Trees[Levels(p, m)] \subseteq Trees[Levels(q, m)]
  BY <1>3, TreesGrowOn
<1>5. FrameTree(g, Trees[Levels(q, m)], toks)
  BY <1>2, <1>4, FrameTreeGrows
<1>6. m + Room(g.fn) <= 3 * q
  BY <1>1
<1>. QED
  BY <1>5, <1>6 DEF Fits

\* The next state is one of the invariant too.
LEMMA RunningNext ==
  ASSUME ParserInv', status' = "running"
  PROVE  StackOK(stack') /\ pos' \in 1 .. Len(tokens') /\ Len(stack') \in Nat
<1>1. Types' /\ StackOK(stack)'
  BY DEF ParserInv
<1>2. pos' \in 1 .. Len(tokens') + 1 /\ pos' <= Len(tokens')
  BY <1>1 DEF Types
<1>3. StackOK(stack') /\ Len(stack') \in Nat
  BY <1>1 DEF StackOK, IsList
<1>. QED
  BY <1>2, <1>3

\* The call on top goes on, and says what it has read.
LEMMA Onwards ==
  ASSUME ParserInv, ParserInv', TreesGrow, status = "running", status' = "running",
         tokens' = tokens, types' = types,
         NEW g, Become(g), NEW read, GoesOnAs(Top, g, tokens, read),
         KeptFrom(tokens, pos, pos', read), BracketPlace'
  PROVE  TreesGrow'
<1>1. /\ tokens \in Seq(Token) /\ Len(tokens) \in Nat /\ pos \in 1 .. Len(tokens)
      /\ StackOK(stack) /\ Len(stack) \in Nat \ {0} /\ IsList(stack)
      /\ Grows(stack, pos, tokens, types) /\ FramesGrow(stack, pos, tokens)
      /\ Top = Frame(stack, Len(stack))
      /\ Len(stack) + Room(Top.fn) <= 3 * pos
      /\ Levels(pos, Len(stack)) \in Nat \ {0}
      /\ FrameTree(Top, Trees[Levels(pos, Len(stack))], tokens)
      /\ FrameTree(Top, TreesIn(tokens), tokens)
  BY Situation
<1>2. PICK more, q : more = stack' /\ q = pos'
  OBVIOUS
<1>3. PICK m : m = Len(stack) /\ m \in Nat \ {0}
  BY <1>1
<1>4. PICK n : IsNext(n, m) /\ n \in Nat /\ n <= m
  <2>1. IsNext(m - 1, m) /\ m - 1 \in Nat /\ m - 1 <= m
    BY <1>3 DEF IsNext
  <2>. QED
    BY <2>1
<1>5. /\ more = Append(Front(stack), g) /\ Len(more) = m /\ Frame(more, m) = g /\ IsList(more)
      /\ \A i \in 1 .. n : more[i] = stack[i]
  <2>1. /\ IsList(Front(stack)) /\ Len(Front(stack)) = n
        /\ \A i \in 1 .. n : Front(stack)[i] = stack[i]
    <3>1. /\ IsList(Front(stack)) /\ Len(Front(stack)) = Len(stack) - 1
          /\ \A i \in 1 .. Len(stack) - 1 : Front(stack)[i] = stack[i]
      BY <1>1, ListFront
    <3>2. Len(stack) - 1 = n
      BY <1>3, <1>4 DEF IsNext
    <3>. QED
      BY <3>1, <3>2, Zenon
  <2>2. more = Append(Front(stack), g)
    BY <1>2, Zenon DEF Become
  <2>3. PICK fr : fr = Front(stack) /\ IsList(fr) /\ Len(fr) = n /\ \A i \in 1 .. n : fr[i] = stack[i]
    BY <2>1
  <2>4. /\ IsList(Append(fr, g)) /\ Len(Append(fr, g)) = n + 1 /\ Append(fr, g)[n + 1] = g
        /\ \A i \in 1 .. n : Append(fr, g)[i] = fr[i]
    BY <2>3, ListAppend
  <2>. QED
    BY <1>4, <2>2, <2>3, <2>4, Zenon DEF IsNext, Frame
<1>6. StackOK(more) /\ q \in 1 .. Len(tokens)
  <2>1. StackOK(stack') /\ pos' \in 1 .. Len(tokens')
    BY RunningNext
  <2>. QED
    BY <1>2, <2>1
<1>7. /\ q \in pos .. Len(tokens) /\ read \in Seq(Token)
      /\ KeptUpTo(tokens, q - 1) = Join(KeptUpTo(tokens, pos - 1), read)
  BY <1>2, <1>6 DEF KeptFrom
<1>8. Stays(stack, pos, more, q, n, tokens)
  BY <1>1, <1>3, <1>4, <1>5, <1>6, <1>7 DEF Stays, IsNext
<1>9. Fits(Frame(more, m), q, m, tokens)
  <2>1. pos \in Nat /\ q \in Nat /\ pos <= q /\ m \in Nat
    BY <1>1, <1>3, <1>7
  <2>2. PICK r : r = Room(Top.fn)
    OBVIOUS
  <2>3. Fits(g, q, m, tokens)
    BY <1>1, <1>3, <2>1, <2>2, Fitting
  <2>. QED
    BY <1>5, <2>3, Zenon
<1>10. Above(stack, n, tokens, Spoken(tokens, Top), Held(tokens, Top))
  <2>1. Above(stack, n, tokens, Says(WordsIn(tokens), Frame(stack, m)), Has(StructsIn(tokens), Frame(stack, m)))
    BY <1>1, <1>3, <1>4, OneAbove
  <2>. QED
    BY <1>1, <1>3, <2>1, Zenon DEF Spoken, Held
<1>11. Objects(stack) => Objects(more)
  <2>. SUFFICES ASSUME NEW i \in 1 .. m, stack[i].fn = "arguments", stack[i].node.type = "OBJECT_INIT"
                PROVE  Objects(more)
    BY <1>3 DEF Objects
  <2>1. more[i].fn = "arguments" /\ more[i].node.type = "OBJECT_INIT"
    <3>1. CASE i \in 1 .. n
      BY <1>5, <3>1
    <3>2. CASE i = m
      <4>1. more[i] = g /\ stack[i] = Top
        BY <1>1, <1>3, <1>5, <3>2, Zenon DEF Frame
      <4>2. g.fn = Top.fn /\ (Top.fn = "arguments" => g.node.type = Top.node.type)
        BY Zenon DEF GoesOnAs
      <4>. QED
        BY <4>1, <4>2
    <3>. QED
      BY <1>4, <3>1, <3>2 DEF IsNext
  <2>. QED
    BY <1>5, <2>1, Zenon DEF Objects
<1>12. /\ HasArrayIn(tokens) \/ Says(WordsIn(tokens), Frame(more, m)) = Join(Spoken(tokens, Top), read)
       /\ Replaceable(tokens, Held(tokens, Top), types, Has(StructsIn(tokens), Frame(more, m)), types)
  BY <1>1, <1>5, Zenon DEF GoesOnAs, Spoken, Held
<1>13. Grows(more, q, tokens, types)
  <2>1. \/ HasArrayIn(tokens) \/ Objects(more)
        \/ /\ KeptUpTo(tokens, q - 1) = Join(KeptUpTo(tokens, pos - 1), read)
           /\ Says(WordsIn(tokens), Frame(more, m)) = Join(Spoken(tokens, Top), read)
    BY <1>7, <1>12, Zenon
  <2>2. Replaceable(tokens, Held(tokens, Top), types, Has(StructsIn(tokens), Frame(more, m)), types)
    BY <1>12
  <2>. QED
    BY <1>1, <1>4, <1>7, <1>8, <1>9, <1>10, <1>11, <2>1, <2>2, StackGrows
<1>. QED
  BY <1>2, <1>13, NoTree, Zenon

\* Reading a token.
LEMMA ReadsOne ==
  ASSUME ParserInv, status = "running", NEW q, q = pos + 1, tokens[pos] # EndOfFile
  PROVE  /\ q \in 1 .. Len(tokens) /\ pos \in Nat
         /\ tokens[pos] \in Punctuation => KeptFrom(tokens, pos, q, <<>>)
         /\ tokens[pos] \in Names \cup Numbers \cup Strings \cup Keywords =>
              KeptFrom(tokens, pos, q, One(tokens[pos]))
<1>1. Types /\ pos \in 1 .. Len(tokens) /\ tokens \in Seq(Token) /\ Len(tokens) \in Nat /\ pos \in Nat
  BY Running, Listed
<1>2. q \in 1 .. Len(tokens)
  BY <1>1, Behind
<1>3. KeptFrom(tokens, pos, pos, <<>>)
  BY <1>1, KeptNothing
<1>4. pos <= Len(tokens)
  BY <1>1
<1>5. /\ tokens[pos] \in Punctuation \cup {EndOfFile} => KeptFrom(tokens, pos, q, <<>>)
      /\ tokens[pos] \in Names \cup Numbers \cup Strings \cup Keywords =>
           KeptFrom(tokens, pos, q, One(tokens[pos]))
  BY <1>1, <1>3, <1>4, KeptMore
<1>. QED
  BY <1>1, <1>2, <1>5

\* Reading another one.
LEMMA ReadsMore ==
  ASSUME ParserInv, status = "running", NEW q \in 1 .. Len(tokens), NEW r, KeptFrom(tokens, pos, q, r),
         tokens[q] # EndOfFile, NEW next, next = q + 1
  PROVE  /\ next \in 1 .. Len(tokens)
         /\ tokens[q] \in Punctuation => KeptFrom(tokens, pos, next, r)
         /\ tokens[q] \in Names \cup Numbers \cup Strings \cup Keywords =>
              KeptFrom(tokens, pos, next, Join(r, One(tokens[q])))
<1>1. Types /\ pos \in 1 .. Len(tokens) /\ tokens \in Seq(Token) /\ Len(tokens) \in Nat
  BY Running, Listed
<1>2. next \in 1 .. Len(tokens) /\ q <= Len(tokens)
  BY <1>1, Behind
<1>3. /\ tokens[q] \in Punctuation \cup {EndOfFile} => KeptFrom(tokens, pos, next, r)
      /\ tokens[q] \in Names \cup Numbers \cup Strings \cup Keywords =>
           KeptFrom(tokens, pos, next, Join(r, One(tokens[q])))
  BY <1>1, <1>2, KeptMore
<1>. QED
  BY <1>2, <1>3

\* Reading nothing.
LEMMA ReadsNone ==
  ASSUME ParserInv, status = "running"
  PROVE  KeptFrom(tokens, pos, pos, <<>>)
<1>1. Types /\ pos \in 1 .. Len(tokens) /\ tokens \in Seq(Token)
  BY Running, Listed
<1>. QED
  BY <1>1, KeptNothing

\* Lists with the same elements.
LEMMA SameLists ==
  ASSUME NEW V, NEW s \in Seq(V), NEW W, NEW t \in Seq(W), Len(s) = Len(t),
         \A i \in 1 .. Len(t) : s[i] = t[i]
  PROVE  s = t
<1>1. PICK l : l = Len(t)
  OBVIOUS
<1>2. s = [i \in 1 .. l |-> s[i]] /\ t = [i \in 1 .. l |-> t[i]]
  BY <1>1, SeqIsList, Zenon DEF IsList
<1>3. [i \in 1 .. l |-> s[i]] = [i \in 1 .. l |-> t[i]]
  BY <1>1
<1>. QED
  BY <1>2, <1>3, Zenon

\* Words one behind the other.
LEMMA WordsJoin ==
  ASSUME NEW V
  PROVE  /\ \A a \in V : One(a) = <<a>>
         /\ \A a, b \in V : Join(One(a), One(b)) = <<a, b>>
         /\ \A a, b, c \in V : Join(<<a, b>>, One(c)) = <<a, b, c>>
<1>1. ASSUME NEW a \in V, NEW b \in V
      PROVE  <<a>> \o <<b>> = <<a, b>>
  <2>1. PICK s : s = <<a>> \o <<b>> /\ s \in Seq(V) /\ Len(s) = 2 /\ s[1] = a /\ s[2] = b
    <3>1. /\ <<a>> \o <<b>> \in Seq(V) /\ Len(<<a>> \o <<b>>) = 2
          /\ (<<a>> \o <<b>>)[1] = a /\ (<<a>> \o <<b>>)[2] = b
      OBVIOUS
    <3>. QED
      BY <3>1, Zenon
  <2>2. PICK t : t = <<a, b>> /\ t \in Seq(V) /\ Len(t) = 2 /\ t[1] = a /\ t[2] = b
    <3>1. <<a, b>> \in Seq(V) /\ Len(<<a, b>>) = 2 /\ <<a, b>>[1] = a /\ <<a, b>>[2] = b
      OBVIOUS
    <3>. QED
      BY <3>1, Zenon
  <2>3. \A i \in 1 .. Len(t) : s[i] = t[i]
    <3>1. \A i \in 1 .. 2 : i = 1 \/ i = 2
      OBVIOUS
    <3>. QED
      BY <2>1, <2>2, <3>1, Zenon
  <2>4. s = t
    BY <2>1, <2>2, <2>3, SameLists
  <2>. QED
    BY <2>1, <2>2, <2>4, Zenon
<1>2. ASSUME NEW a \in V, NEW b \in V, NEW c \in V
      PROVE  <<a, b>> \o <<c>> = <<a, b, c>>
  <2>1. PICK s : s = <<a, b>> \o <<c>> /\ s \in Seq(V) /\ Len(s) = 3 /\ s[1] = a /\ s[2] = b /\ s[3] = c
    <3>1. /\ <<a, b>> \o <<c>> \in Seq(V) /\ Len(<<a, b>> \o <<c>>) = 3
          /\ (<<a, b>> \o <<c>>)[1] = a /\ (<<a, b>> \o <<c>>)[2] = b /\ (<<a, b>> \o <<c>>)[3] = c
      OBVIOUS
    <3>. QED
      BY <3>1, Zenon
  <2>2. PICK t : t = <<a, b, c>> /\ t \in Seq(V) /\ Len(t) = 3 /\ t[1] = a /\ t[2] = b /\ t[3] = c
    <3>1. <<a, b, c>> \in Seq(V) /\ Len(<<a, b, c>>) = 3 /\ <<a, b, c>>[1] = a /\ <<a, b, c>>[2] = b /\ <<a, b, c>>[3] = c
      OBVIOUS
    <3>. QED
      BY <3>1, Zenon
  <2>3. \A i \in 1 .. Len(t) : s[i] = t[i]
    <3>1. \A i \in 1 .. 3 : i = 1 \/ i = 2 \/ i = 3
      OBVIOUS
    <3>. QED
      BY <2>1, <2>2, <3>1, Zenon
  <2>4. s = t
    BY <2>1, <2>2, <2>3, SameLists
  <2>. QED
    BY <2>1, <2>2, <2>4, Zenon
<1>. QED
  BY <1>1, <1>2, Zenon DEF Join, One

\* No name is another token.
LEMMA NoNames ==
  /\ Names \cap (Numbers \cup Strings \cup Keywords \cup Punctuation \cup {EndOfFile}) = {}
  /\ Punctuation \cap (Numbers \cup Strings \cup Keywords \cup {EndOfFile}) = {}
  /\ EndOfFile \notin Names \cup Numbers \cup Strings \cup Keywords \cup Punctuation
BY TokensAssumption

-----------------------------------------------------------------------------
(* The steps of an expression.                                             *)

\* parse_expression reads a constant.
LEMMA ReadConstantGrows ==
  ASSUME ParserInv, ParserInv', TreesGrow, ReadConstant PROVE TreesGrow'
<1>1. /\ status = "running" /\ status' = "running" /\ tokens' = tokens /\ types' = types
      /\ Top.fn = "expression" /\ tokens[pos] \in Numbers \cup Strings /\ pos' = pos + 1
      /\ Become([Top EXCEPT !.out = Append(@, Node("CONSTANT", <<tokens[pos]>>))])
  BY Zenon DEF ReadConstant, In, Current, Advance
<1>2. ExpressionOK(Top) /\ tokens \in Seq(Token) /\ tokens # <<>>
  BY <1>1, Situation, FrameKinds
<1>3. tokens[pos] \notin Names /\ tokens[pos] # EndOfFile /\ tokens[pos] \in Token
  BY <1>1, NoNames DEF Token
<1>4. KeptFrom(tokens, pos, pos', One(tokens[pos])) /\ pos \in Nat
  BY <1>1, <1>3, ReadsOne
<1>5. pos' - 1 = pos
  BY <1>1, <1>4
<1>6. BracketPlace'
  BY <1>1, <1>3, <1>5, BracketReads
<1>7. PICK words, g : /\ words = <<tokens[pos]>> /\ words \in Seq(Token) /\ words = One(tokens[pos])
                      /\ g = [Top EXCEPT !.out = Append(@, Node("CONSTANT", words))] /\ Become(g)
  <2>1. <<tokens[pos]>> \in Seq(Token) /\ <<tokens[pos]>> = One(tokens[pos])
    BY <1>3 DEF One
  <2>. QED
    BY <1>1, <2>1, Zenon
<1>8. "CONSTANT" \in NodeTypes \ {"KEYWORD"}
  BY DEF NodeTypes
<1>9. GoesOnAs(Top, g, tokens, words)
  BY <1>2, <1>7, <1>8, LeafRead
<1>. QED
  BY <1>1, <1>4, <1>6, <1>7, <1>9, Onwards

\* It reads an identifier.
LEMMA ReadIdentifierGrows ==
  ASSUME ParserInv, ParserInv', TreesGrow, ReadIdentifier PROVE TreesGrow'
<1>1. /\ status = "running" /\ status' = "running" /\ tokens' = tokens /\ types' = types
      /\ Top.fn = "expression" /\ tokens[pos] \in Names /\ pos' = pos + 1
      /\ tokens[pos + 1] \notin Names \cup {"(", "["}
      /\ Become([Top EXCEPT !.out = Append(@, Node("IDENTIFIER", <<tokens[pos]>>))])
  BY Zenon DEF ReadIdentifier, In, Current, Advance, Following
<1>2. ExpressionOK(Top) /\ tokens \in Seq(Token) /\ tokens # <<>>
  BY <1>1, Situation, FrameKinds
<1>3. tokens[pos] # EndOfFile /\ tokens[pos] \in Token
  BY <1>1, NoNames DEF Token
<1>4. KeptFrom(tokens, pos, pos', One(tokens[pos])) /\ pos \in Nat
  BY <1>1, <1>3, ReadsOne
<1>5. tokens[pos'] # "["
  BY <1>1
<1>6. BracketPlace'
  BY <1>1, <1>5, BracketReads
<1>7. PICK words, g : /\ words = <<tokens[pos]>> /\ words \in Seq(Token) /\ words = One(tokens[pos])
                      /\ g = [Top EXCEPT !.out = Append(@, Node("IDENTIFIER", words))] /\ Become(g)
  <2>1. <<tokens[pos]>> \in Seq(Token) /\ <<tokens[pos]>> = One(tokens[pos])
    BY <1>3 DEF One
  <2>. QED
    BY <1>1, <2>1, Zenon
<1>8. "IDENTIFIER" \in NodeTypes \ {"KEYWORD"}
  BY DEF NodeTypes
<1>9. GoesOnAs(Top, g, tokens, words)
  BY <1>2, <1>7, <1>8, LeafRead
<1>. QED
  BY <1>1, <1>4, <1>6, <1>7, <1>9, Onwards

\* A type and a name.
LEMMA ReadsBoth ==
  ASSUME ParserInv, Declares, NEW q, q = pos + 2
  PROVE  /\ status = "running" /\ Top.fn = "expression" /\ pos \in Nat
         /\ tokens[pos] \in Names /\ tokens[pos + 1] \in Names
         /\ q \in 1 .. Len(tokens)
         /\ KeptFrom(tokens, pos, q, <<tokens[pos], tokens[pos + 1]>>)
         /\ <<tokens[pos], tokens[pos + 1]>> \in Seq(Token)
         /\ <<tokens[pos], tokens[pos + 1]>> = Join(One(tokens[pos]), One(tokens[pos + 1]))
<1>1. status = "running" /\ Top.fn = "expression" /\ tokens[pos] \in Names /\ tokens[pos + 1] \in Names
  BY Zenon DEF Declares, In, Current, Following
<1>2. PICK k : k = pos + 1
  OBVIOUS
<1>3. k \in 1 .. Len(tokens) /\ pos \in Nat /\ KeptFrom(tokens, pos, k, One(tokens[pos]))
  BY <1>1, <1>2, NoNames, ReadsOne
<1>4. q = k + 1
  BY <1>2, <1>3
<1>5. q \in 1 .. Len(tokens) /\ KeptFrom(tokens, pos, q, Join(One(tokens[pos]), One(tokens[k])))
  BY <1>1, <1>2, <1>3, <1>4, NoNames, ReadsMore
<1>6. <<tokens[pos], tokens[k]>> = Join(One(tokens[pos]), One(tokens[k]))
  BY <1>1, <1>2, WordsJoin
<1>7. <<tokens[pos], tokens[k]>> \in Seq(Token)
  BY <1>1, <1>2 DEF Token
<1>. QED
  BY <1>1, <1>2, <1>3, <1>5, <1>6, <1>7

\* It reads the declaration of a variable.
LEMMA ReadVariableGrows ==
  ASSUME ParserInv, ParserInv', TreesGrow, ReadVariable PROVE TreesGrow'
<1>1. PICK words : words = <<tokens[pos], tokens[pos + 1]>>
  OBVIOUS
<1>2. /\ status' = status /\ tokens' = tokens /\ types' = types /\ Declares /\ pos' = pos + 2
      /\ tokens[pos + 2] \notin {"(", "{", "["}
      /\ Become([Top EXCEPT !.out = Append(@, Node("DECL_VARIABLE", words))])
  BY <1>1, Zenon DEF ReadVariable, Current, Advance, Following
<1>3. /\ status = "running" /\ Top.fn = "expression"
      /\ KeptFrom(tokens, pos, pos', words) /\ words \in Seq(Token)
  BY <1>1, <1>2, ReadsBoth
<1>4. ExpressionOK(Top) /\ tokens \in Seq(Token) /\ tokens # <<>>
  BY <1>3, Situation, FrameKinds
<1>5. tokens[pos'] # "["
  BY <1>2
<1>6. BracketPlace'
  BY <1>2, <1>5, BracketReads
<1>7. PICK g : g = [Top EXCEPT !.out = Append(@, Node("DECL_VARIABLE", words))] /\ Become(g)
  BY <1>2
<1>8. "DECL_VARIABLE" \in NodeTypes \ {"KEYWORD"}
  BY DEF NodeTypes
<1>9. GoesOnAs(Top, g, tokens, words)
  BY <1>3, <1>4, <1>7, <1>8, LeafRead
<1>. QED
  BY <1>2, <1>3, <1>6, <1>7, <1>9, Onwards

\* It reads the declaration of an array with its size.
LEMMA ReadArrayVariableGrows ==
  ASSUME ParserInv, ParserInv', TreesGrow, ReadArrayVariable PROVE TreesGrow'
<1>1. CASE tokens[pos + 3] \in Numbers /\ tokens[pos + 4] = "]"
  <2>1. PICK two, words : /\ two = <<tokens[pos], tokens[pos + 1]>>
                          /\ words = <<tokens[pos], tokens[pos + 1], tokens[pos + 3]>>
    OBVIOUS
  <2>2. /\ status' = status /\ tokens' = tokens /\ types' = types /\ Declares /\ pos' = pos + 5
        /\ tokens[pos + 2] = "["
        /\ Become([Top EXCEPT !.out = Append(@, Node("DECL_VARIABLE", words))])
    BY <1>1, <2>1, Zenon DEF ReadArrayVariable, Current, Advance, Following
  <2>3. PICK a, b, c : a = pos + 2 /\ b = pos + 3 /\ c = pos + 4
    OBVIOUS
  <2>4. /\ status = "running" /\ Top.fn = "expression" /\ pos \in Nat
        /\ KeptFrom(tokens, pos, a, two) /\ two = Join(One(tokens[pos]), One(tokens[pos + 1]))
        /\ a \in 1 .. Len(tokens) /\ tokens[pos] \in Names /\ tokens[pos + 1] \in Names
    BY <2>1, <2>2, <2>3, ReadsBoth
  <2>5. b = a + 1 /\ c = b + 1 /\ pos' = c + 1 /\ pos' - 1 = c
    BY <2>2, <2>3, <2>4
  <2>6. b \in 1 .. Len(tokens) /\ KeptFrom(tokens, pos, b, two)
    <3>1. tokens[a] \in Punctuation /\ tokens[a] # EndOfFile
      BY <2>2, <2>3, NoNames DEF Punctuation
    <3>. QED
      BY <2>4, <2>5, <3>1, ReadsMore
  <2>7. c \in 1 .. Len(tokens) /\ KeptFrom(tokens, pos, c, Join(two, One(tokens[b])))
    <3>1. tokens[b] \in Numbers /\ tokens[b] # EndOfFile
      BY <1>1, <2>3, NoNames
    <3>. QED
      BY <2>4, <2>5, <2>6, <3>1, ReadsMore
  <2>8. pos' \in 1 .. Len(tokens) /\ KeptFrom(tokens, pos, pos', Join(two, One(tokens[b])))
    <3>1. tokens[c] \in Punctuation /\ tokens[c] # EndOfFile
      BY <1>1, <2>3, NoNames DEF Punctuation
    <3>. QED
      BY <2>4, <2>5, <2>7, <3>1, ReadsMore
  <2>9. Join(two, One(tokens[b])) = words
    <3>1. tokens[pos] \in Token /\ tokens[pos + 1] \in Token /\ tokens[b] \in Token
      BY <1>1, <2>3, <2>4 DEF Token
    <3>. QED
      BY <2>1, <2>3, <3>1, WordsJoin, Zenon
  <2>10. ExpressionOK(Top) /\ tokens \in Seq(Token) /\ tokens # <<>>
    BY <2>4, Situation, FrameKinds
  <2>11. tokens[pos' - 1] \notin Names
    BY <1>1, <2>3, <2>5, NoNames DEF Punctuation
  <2>12. BracketPlace'
    BY <2>2, <2>11, BracketReads
  <2>13. PICK g : g = [Top EXCEPT !.out = Append(@, Node("DECL_VARIABLE", words))] /\ Become(g)
    BY <2>2
  <2>14. "DECL_VARIABLE" \in NodeTypes \ {"KEYWORD"}
    BY DEF NodeTypes
  <2>15. words \in Seq(Token)
    BY <1>1, <2>1, <2>4 DEF Token
  <2>16. GoesOnAs(Top, g, tokens, words)
    BY <2>10, <2>13, <2>14, <2>15, LeafRead
  <2>. QED
    BY <2>2, <2>4, <2>8, <2>9, <2>12, <2>13, <2>16, Onwards
<1>2. CASE ~(tokens[pos + 3] \in Numbers /\ tokens[pos + 4] = "]")
  <2>1. status' = "exit"
    BY <1>2, Zenon DEF ReadArrayVariable, Following
  <2>. QED
    BY <2>1, NoTree
<1>. QED
  BY <1>1, <1>2

\* It reads a type that is not known: that is an error.
LEMMA UnknownTypeGrows ==
  ASSUME UnknownType PROVE TreesGrow'
BY NoTree DEF UnknownType

\* It holds an open parenthesis.
LEMMA ReadOpenGrows ==
  ASSUME ParserInv, ParserInv', TreesGrow, ReadOpen PROVE TreesGrow'
<1>1. /\ status = "running" /\ status' = "running" /\ tokens' = tokens /\ types' = types
      /\ Top.fn = "expression" /\ tokens[pos] = "(" /\ pos' = pos + 1
      /\ Become([Top EXCEPT !.balance = @ + 1, !.held = Append(@, Open)])
  BY Zenon DEF ReadOpen, In, Current, Advance
<1>2. ExpressionOK(Top) /\ tokens \in Seq(Token) /\ tokens # <<>>
  BY <1>1, Situation, FrameKinds
<1>3. tokens[pos] \in Punctuation /\ tokens[pos] # EndOfFile /\ tokens[pos] \notin Names
  BY <1>1, NoNames DEF Punctuation
<1>4. KeptFrom(tokens, pos, pos', <<>>) /\ pos \in Nat
  BY <1>1, <1>3, ReadsOne
<1>5. pos' - 1 = pos
  BY <1>1, <1>4
<1>6. BracketPlace'
  BY <1>1, <1>3, <1>5, BracketReads
<1>7. PICK g : g = [Top EXCEPT !.balance = @ + 1, !.held = Append(@, Open)] /\ Become(g)
  BY <1>1
<1>8. GoesOnAs(Top, g, tokens, <<>>)
  BY <1>2, <1>7, OpenHeld
<1>. QED
  BY <1>1, <1>4, <1>6, <1>7, <1>8, Onwards

\* It drops the parenthesis that is closed.
LEMMA ReadCloseGrows ==
  ASSUME ParserInv, ParserInv', TreesGrow, ReadClose PROVE TreesGrow'
<1>1. /\ status = "running" /\ status' = "running" /\ tokens' = tokens /\ types' = types
      /\ Top.fn = "expression" /\ tokens[pos] = ")" /\ Top.balance > 0 /\ pos' = pos + 1
      /\ Become([Top EXCEPT !.balance = @ - 1, !.held = Front(@)])
  BY Zenon DEF ReadClose, In, Current, Advance
<1>2. ExpressionOK(Top) /\ tokens \in Seq(Token) /\ tokens # <<>>
  BY <1>1, Situation, FrameKinds
<1>3. tokens[pos] \in Punctuation /\ tokens[pos] # EndOfFile /\ tokens[pos] \notin Names
  BY <1>1, NoNames DEF Punctuation
<1>4. KeptFrom(tokens, pos, pos', <<>>) /\ pos \in Nat
  BY <1>1, <1>3, ReadsOne
<1>5. pos' - 1 = pos
  BY <1>1, <1>4
<1>6. BracketPlace'
  BY <1>1, <1>3, <1>5, BracketReads
<1>7. PICK g : g = [Top EXCEPT !.balance = @ - 1, !.held = Front(@)] /\ Become(g)
  BY <1>1
<1>8. GoesOnAs(Top, g, tokens, <<>>)
  BY <1>1, <1>2, <1>7, HeldDropped
<1>. QED
  BY <1>1, <1>4, <1>6, <1>7, <1>8, Onwards

\* The frame that has become the top.
LEMMA LastAppended ==
  ASSUME NEW s, IsList(s), NEW e
  PROVE  Last(Append(s, e)) = e
<1>1. PICK t : /\ t = Append(s, e) /\ Len(t) = Len(s) + 1 /\ t[Len(s) + 1] = e
  <2>1. Len(Append(s, e)) = Len(s) + 1 /\ Append(s, e)[Len(s) + 1] = e
    BY ListAppend
  <2>. QED
    BY <2>1, Zenon
<1>2. Last(t) = t[Len(t)]
  BY Zenon DEF Last
<1>. QED
  BY <1>1, <1>2, Zenon

\* parse_arguments takes the list of the expression it has called.
LEMMA ArgumentsResumeGrows ==
  ASSUME ParserInv, ParserInv', TreesGrow, ArgumentsResume PROVE TreesGrow'
<1>1. /\ status = "running" /\ Top.fn = "arguments"
      /\ tokens' = tokens /\ types' = types /\ status' = status
  BY DEF ArgumentsResume, Resumes, In
<1>2. pos' = pos + (IF tokens[pos] = "," THEN 1 ELSE 0)
  BY Zenon DEF ArgumentsResume, Advance, Current
<1>3. ArgumentsOK(Top) /\ tokens \in Seq(Token) /\ BracketPlace /\ pos \in Nat
  BY <1>1, Situation, FrameKinds
<1>4. PICK list, g : /\ list = Top.node.args \o Top.call.list
                     /\ g = [Top EXCEPT !.node.args = list, !.call = Waiting] /\ Become(g)
  BY Zenon DEF ArgumentsResume
<1>5. g = [fn |-> "arguments", node |-> [Top.node EXCEPT !.args = list],
           end |-> Top.end, call |-> Waiting]
  BY <1>3, <1>4, ArgumentsRecord
<1>6. GoesOnAs(Top, g, tokens, <<>>)
  BY <1>3, <1>4, <1>5, ArgumentsTake
<1>7. KeptFrom(tokens, pos, pos', <<>>) /\ BracketPlace'
  <2>1. CASE tokens[pos] = ","
    <3>1. tokens[pos] \in Punctuation /\ tokens[pos] # EndOfFile /\ tokens[pos] \notin Names
      BY <2>1, NoNames DEF Punctuation
    <3>2. pos' = pos + 1
      BY <1>2, <2>1, Zenon
    <3>3. KeptFrom(tokens, pos, pos', <<>>)
      BY <1>1, <3>1, <3>2, ReadsOne
    <3>4. pos' - 1 = pos
      BY <1>3, <3>2
    <3>. QED
      BY <1>1, <3>1, <3>3, <3>4, BracketReads
  <2>2. CASE tokens[pos] # ","
    <3>1. pos' = pos
      <4>1. pos' = pos + 0
        BY <1>2, <2>2, Zenon
      <4>. QED
        BY <1>3, <4>1
    <3>2. KeptFrom(tokens, pos, pos', <<>>)
      BY <1>1, <3>1, ReadsNone
    <3>. QED
      BY <1>1, <1>3, <3>1, <3>2, BracketStays
  <2>. QED
    BY <2>1, <2>2
<1>. QED
  BY <1>1, <1>4, <1>6, <1>7, Onwards

\* parse_block reads its opening brace.
LEMMA BlockFirstGrows ==
  ASSUME ParserInv, ParserInv', TreesGrow, BlockFirst PROVE TreesGrow'
<1>1. /\ status = "running" /\ Top.fn = "block" /\ Top.first
      /\ tokens' = tokens /\ pos' = pos /\ types' = types /\ status' = status
  BY DEF BlockFirst, Resumes, In
<1>2. PICK g : /\ g = [Top EXCEPT !.first = FALSE, !.root = Top.call.list, !.call = Waiting]
               /\ Become(g)
  BY Zenon DEF BlockFirst
<1>3. /\ BlockOK(Top) /\ FrameOK(Top) /\ tokens \in Seq(Token) /\ BracketPlace
      /\ FrameTree(Top, TreesIn(tokens), tokens)
  BY <1>1, Situation, FrameKinds
<1>4. g.fn = Top.fn /\ g.call = Waiting /\ g.root = Top.call.list /\ g.first = FALSE
  BY <1>2, <1>3 DEF BlockOK
<1>5. Top.root = <<>> /\ Top.call.list \in Seq(TreesIn(tokens))
  BY <1>1, <1>3 DEF FrameTree, BlockTree, ListTree
<1>6. g.root = Top.root \o Top.call.list
  BY <1>4, <1>5, Behinds
<1>7. GoesOnAs(Top, g, tokens, <<>>)
  BY <1>1, <1>3, <1>4, <1>6, RootTakes
<1>8. KeptFrom(tokens, pos, pos', <<>>)
  BY <1>1, ReadsNone
<1>9. BracketPlace'
  BY <1>1, <1>3, BracketStays
<1>. QED
  BY <1>1, <1>2, <1>7, <1>8, <1>9, Onwards

\* parse_block takes the list of the expression it has called.
LEMMA BlockNextGrows ==
  ASSUME ParserInv, ParserInv', TreesGrow, BlockNext PROVE TreesGrow'
<1>1. /\ status = "running" /\ Top.fn = "block"
      /\ tokens' = tokens /\ pos' = pos /\ types' = types
  BY DEF BlockNext, Resumes, In
<1>2. CASE Top.root = <<>>
  BY <1>2, NoTree DEF BlockNext
<1>3. CASE Top.root # <<>>
  <2>1. PICK g : /\ g = [Top EXCEPT !.root = @ \o Top.call.list, !.call = Waiting]
                 /\ Become(g) /\ status' = status
    BY <1>3, Zenon DEF BlockNext
  <2>2. /\ BlockOK(Top) /\ FrameOK(Top) /\ tokens \in Seq(Token) /\ BracketPlace
        /\ FrameTree(Top, TreesIn(tokens), tokens)
    BY <1>1, Situation, FrameKinds
  <2>3. g.fn = Top.fn /\ g.call = Waiting /\ g.root = Top.root \o Top.call.list /\ g.first = Top.first
    BY <2>1, <2>2 DEF BlockOK
  <2>4. Top.first = FALSE
    BY <1>1, <1>3, <2>2 DEF FrameTree, BlockTree
  <2>5. GoesOnAs(Top, g, tokens, <<>>)
    BY <1>1, <2>2, <2>3, <2>4, RootTakes
  <2>6. KeptFrom(tokens, pos, pos', <<>>)
    BY <1>1, ReadsNone
  <2>7. BracketPlace'
    BY <1>1, <2>2, BracketStays
  <2>. QED
    BY <1>1, <2>1, <2>5, <2>6, <2>7, Onwards
<1>. QED
  BY <1>2, <1>3

\* parser_analyze goes on.
LEMMA AnalyzeGoesOn ==
  ASSUME ParserInv, ParserInv', TreesGrow, AnalyzeResume, tokens[pos] # EndOfFile PROVE TreesGrow'
<1>1. /\ status = "running" /\ Top.fn = "analyze"
      /\ tokens' = tokens /\ types' = types
  BY DEF AnalyzeResume, Resumes, In
<1>2. PICK g : /\ g = [Top EXCEPT !.root = Top.root \o Top.call.list, !.call = Waiting]
               /\ Become(g) /\ status' = status /\ pos' = pos
  BY Zenon DEF AnalyzeResume, Current
<1>3. /\ AnalyzeOK(Top) /\ FrameOK(Top) /\ tokens \in Seq(Token) /\ BracketPlace
  BY <1>1, Situation, FrameKinds
<1>4. g.fn = Top.fn /\ g.call = Waiting /\ g.root = Top.root \o Top.call.list
  BY <1>2, <1>3 DEF AnalyzeOK
<1>5. GoesOnAs(Top, g, tokens, <<>>)
  BY <1>1, <1>3, <1>4, RootTakes
<1>6. KeptFrom(tokens, pos, pos', <<>>)
  BY <1>1, <1>2, ReadsNone
<1>7. BracketPlace'
  BY <1>1, <1>2, <1>3, BracketStays
<1>. QED
  BY <1>1, <1>2, <1>5, <1>6, <1>7, Onwards

\* parse_statement reads a token of the declaration, which is in no tree.
LEMMA PartTokenGrows ==
  ASSUME ParserInv, ParserInv', TreesGrow, PartToken PROVE TreesGrow'
<1>1. /\ Calls("statement") /\ Part(Punctuation) /\ tokens' = tokens /\ types' = types
  BY DEF PartToken
<1>2. status = "running" /\ Top.fn = "statement" /\ Top.call.back = FALSE /\ FrameOK(Top)
  BY <1>1, Ready
<1>3. /\ StatementOK(Top) /\ Top.parts # <<>> /\ Head(Top.parts) \in Punctuation
      /\ tokens \in Seq(Token) /\ pos \in Nat
  BY <1>1, <1>2, Situation, FrameKinds DEF Part
<1>4. CASE tokens[pos] = Head(Top.parts)
  <2>1. PICK g : g = [Top EXCEPT !.parts = Tail(Top.parts)]
    OBVIOUS
  <2>2. Become(g) /\ pos' = pos + 1 /\ status' = status
    BY <1>4, <2>1, Zenon DEF PartToken, Current, Advance
  <2>3. g = [fn |-> "statement", node |-> Top.node, parts |-> Tail(Top.parts), call |-> Top.call]
    BY <1>3, <2>1, StatementParts
  <2>4. IsStatement(g, Top.node, Tail(Top.parts), Top.call)
    BY <2>3, Zenon DEF IsStatement
  <2>5. GoesOnAs(Top, g, tokens, <<>>)
    BY <1>3, <2>4, PartConsumed, Zenon
  <2>6. tokens[pos] \in Punctuation /\ tokens[pos] # EndOfFile /\ tokens[pos] \notin Names
    BY <1>3, <1>4, NoNames
  <2>7. KeptFrom(tokens, pos, pos', <<>>)
    BY <1>2, <2>2, <2>6, ReadsOne
  <2>8. pos' - 1 = pos
    BY <1>3, <2>2
  <2>9. BracketPlace'
    BY <1>1, <2>6, <2>8, BracketReads
  <2>. QED
    BY <1>1, <1>2, <2>2, <2>5, <2>7, <2>9, Onwards
<1>5. CASE tokens[pos] # Head(Top.parts)
  <2>1. status' = "exit"
    BY <1>5, Zenon DEF PartToken, Current
  <2>. QED
    BY <2>1, NoTree
<1>. QED
  BY <1>4, <1>5

\* parse_statement reads the name that it keeps as a word.
LEMMA PartIdentifierGrows ==
  ASSUME ParserInv, ParserInv', TreesGrow, PartIdentifier PROVE TreesGrow'
<1>1. /\ Calls("statement") /\ Part({"IDENTIFIER"}) /\ tokens' = tokens /\ types' = types
  BY DEF PartIdentifier
<1>2. status = "running" /\ Top.fn = "statement" /\ Top.call.back = FALSE /\ FrameOK(Top)
  BY <1>1, Ready
<1>3. /\ StatementOK(Top) /\ Top.parts # <<>> /\ Head(Top.parts) = "IDENTIFIER"
      /\ tokens \in Seq(Token) /\ pos \in Nat /\ FrameTree(Top, TreesIn(tokens), tokens)
      /\ IsList(stack)
  BY <1>1, <1>2, Situation, FrameKinds DEF Part
<1>4. CASE tokens[pos] \in Names
  <2>1. PICK words : words = Append(Top.node.words, tokens[pos])
    OBVIOUS
  <2>2. PICK g : g = [Top EXCEPT !.parts = Tail(Top.parts), !.node.words = words]
    OBVIOUS
  <2>3. Become(g) /\ pos' = pos + 1 /\ status' = status
    BY <1>4, <2>1, <2>2 DEF PartIdentifier, Current, Advance
  <2>4. PICK node : node = [Top.node EXCEPT !.words = words]
    OBVIOUS
  <2>5. g = [fn |-> "statement", node |-> node, parts |-> Tail(Top.parts), call |-> Top.call]
    <3>1. g = [fn |-> "statement", node |-> [Top.node EXCEPT !.words = words],
               parts |-> Tail(Top.parts), call |-> Top.call]
      BY <1>3, <2>2, StatementWords
    <3>. QED
      BY <2>4, <3>1, Zenon
  <2>6. IsStatement(g, node, Tail(Top.parts), Top.call)
    BY <2>5, Zenon DEF IsStatement
  <2>7. GoesOnAs(Top, g, tokens, One(tokens[pos]))
    BY <1>2, <1>3, <1>4, <2>1, <2>4, <2>6, NameKept, Zenon
  <2>8. KeptFrom(tokens, pos, pos', One(tokens[pos]))
    BY <1>2, <1>4, <2>3, NoNames, ReadsOne
  <2>9. g.fn = "statement" /\ g.parts = Tail(Top.parts) /\ g.call.back = FALSE
    BY <1>2, <2>5
  <2>10. Tail(Top.parts) # <<>> /\ Head(Tail(Top.parts)) \in Punctuation
    <3>1. Ordered(Top.parts) /\ Top.parts \in Seq(Parts)
      BY <1>2, <1>3 DEF FrameTree, StatementTree, StatementOK
    <3>. QED
      BY <1>3, <3>1, OrderedParts
  <2>11. Top' = g
    <3>1. stack' = Append(Front(stack), g)
      BY <2>3, Zenon DEF Become
    <3>2. IsList(Front(stack))
      BY <1>2, Running, Zenon DEF StackOK
    <3>3. Last(Append(Front(stack), g)) = g
      BY <3>2, LastAppended
    <3>. QED
      BY <3>1, <3>3, Zenon DEF Top
  <2>12. BracketPlace'
    BY <2>9, <2>10, <2>11 DEF BracketPlace
  <2>. QED
    BY <1>1, <1>2, <2>3, <2>7, <2>8, <2>12, Onwards
<1>5. CASE tokens[pos] \notin Names
  <2>1. status' = "exit"
    BY <1>5, Zenon DEF PartIdentifier, Current
  <2>. QED
    BY <2>1, NoTree
<1>. QED
  BY <1>4, <1>5

\* parse_statement takes the list of what it has called.
LEMMA PartResumeGrows ==
  ASSUME ParserInv, ParserInv', TreesGrow, PartResume PROVE TreesGrow'
<1>1. /\ status = "running" /\ Top.fn = "statement" /\ Top.call.back
      /\ tokens' = tokens /\ types' = types /\ status' = status
  BY DEF PartResume, Resumes, In
<1>2. StatementOK(Top) /\ tokens \in Seq(Token) /\ BracketPlace /\ pos \in Nat
  BY <1>1, Situation, FrameKinds
<1>3. Top.parts # <<>> /\ Head(Top.parts) \in Asking
  <2>1. Top.call.back = TRUE
    BY <1>1, <1>2 DEF StatementOK, IsCall
  <2>. QED
    BY <1>2, <2>1 DEF StatementOK
<1>4. PICK again : again = (Part({"EXPRESSIONS"}) /\ tokens[pos] = ",")
  OBVIOUS
<1>5. PICK parts, next : /\ parts = IF again THEN Top.parts ELSE Tail(Top.parts)
                         /\ next = [Top EXCEPT !.call = Waiting, !.parts = parts]
  OBVIOUS
<1>6. parts = Top.parts \/ parts = Tail(Top.parts)
  BY <1>5, Zenon
<1>7. next = [fn |-> "statement", node |-> Top.node, parts |-> parts, call |-> Waiting]
  BY <1>2, <1>5, StatementReturns
<1>8. PICK g : GoesOnAs(Top, g, tokens, <<>>) /\ Become(g)
  <2>1. CASE Head(Top.parts) = "BLOCK"
    <3>1. Part({"BLOCK"}) /\ ~Part({"EXPRESSIONS"})
      BY <1>3, <2>1 DEF Part
    <3>2. PICK g : g = [next EXCEPT !.node.body = Top.call.list] /\ Become(g)
      BY <1>4, <1>5, <3>1, Zenon DEF PartResume, Current
    <3>3. PICK node : node = [Top.node EXCEPT !.body = Top.call.list]
      OBVIOUS
    <3>4. g = [fn |-> "statement", node |-> [Top.node EXCEPT !.body = Top.call.list],
               parts |-> parts, call |-> Waiting]
      BY <1>7, <3>2, StatementBody
    <3>5. parts = Tail(Top.parts)
      BY <1>4, <1>5, <3>1, Zenon
    <3>6. IsStatement(g, node, Tail(Top.parts), Waiting)
      BY <3>3, <3>4, <3>5, Zenon DEF IsStatement
    <3>7. GoesOnAs(Top, g, tokens, <<>>)
      BY <1>2, <1>3, <2>1, <3>3, <3>6, BodyTaken
    <3>. QED
      BY <3>2, <3>7
  <2>2. CASE Head(Top.parts) # "BLOCK"
    <3>1. ~Part({"BLOCK"})
      BY <2>2 DEF Part
    <3>2. PICK list : list = Top.node.args \o Top.call.list
      OBVIOUS
    <3>3. next.node.args = Top.node.args
      BY <1>7
    <3>4. PICK g : g = [next EXCEPT !.node.args = list] /\ Become(g)
      <4>1. Become([next EXCEPT !.node.args = next.node.args \o Top.call.list])
        BY <1>4, <1>5, <3>1, Zenon DEF PartResume, Current
      <4>. QED
        BY <3>2, <3>3, <4>1, Zenon
    <3>5. PICK node : node = [Top.node EXCEPT !.args = list]
      OBVIOUS
    <3>6. g = [fn |-> "statement", node |-> [Top.node EXCEPT !.args = list],
               parts |-> parts, call |-> Waiting]
      BY <1>7, <3>4, StatementArgs
    <3>7. IsStatement(g, node, parts, Waiting)
      BY <3>5, <3>6, Zenon DEF IsStatement
    <3>8. parts \in {Top.parts, Tail(Top.parts)}
      BY <1>6
    <3>9. GoesOnAs(Top, g, tokens, <<>>)
      BY <1>2, <1>3, <3>2, <3>5, <3>7, <3>8, ArgsTaken
    <3>. QED
      BY <3>4, <3>9
  <2>. QED
    BY <2>1, <2>2
<1>9. pos' = pos + (IF again THEN 1 ELSE 0)
  BY <1>4, Zenon DEF PartResume, Advance, Current
<1>10. KeptFrom(tokens, pos, pos', <<>>) /\ BracketPlace'
  <2>1. CASE again
    <3>1. tokens[pos] \in Punctuation /\ tokens[pos] # EndOfFile /\ tokens[pos] \notin Names
      BY <1>4, <2>1, NoNames DEF Punctuation
    <3>2. pos' = pos + 1
      BY <1>9, <2>1, Zenon
    <3>3. KeptFrom(tokens, pos, pos', <<>>)
      BY <1>1, <3>1, <3>2, ReadsOne
    <3>4. pos' - 1 = pos
      BY <1>2, <3>2
    <3>. QED
      BY <1>1, <3>1, <3>3, <3>4, BracketReads
  <2>2. CASE ~again
    <3>1. pos' = pos
      <4>1. pos' = pos + 0
        BY <1>9, <2>2, Zenon
      <4>. QED
        BY <1>2, <4>1
    <3>2. KeptFrom(tokens, pos, pos', <<>>)
      BY <1>1, <3>1, ReadsNone
    <3>3. Head(Top.parts) \notin Punctuation
      BY <1>3 DEF Asking, Punctuation
    <3>. QED
      BY <1>1, <1>2, <3>1, <3>2, <3>3, BracketStays
  <2>. QED
    BY <2>1, <2>2
<1>. QED
  BY <1>1, <1>8, <1>10, Onwards

-----------------------------------------------------------------------------
(* The steps that call.                                                    *)

\* A frame without nodes says its own words.
LEMMA NewSays ==
  ASSUME NEW toks \in Seq(Token), NEW f, NodesOf(f) = <<>>, OwnWords(f) \in Seq(Token)
  PROVE  Spoken(toks, f) = Join(<<>>, OwnWords(f)) /\ Held(toks, f) = <<>>
<1>1. PICK x, words : x = NodesOf(f) /\ words = OwnWords(f) /\ x = <<>> /\ words \in Seq(Token)
  OBVIOUS
<1>2. Spoken(toks, f) = Join(words, Wording(toks, x)) /\ Held(toks, f) = Structure(toks, x)
  BY <1>1, FrameSays
<1>3. Wording(toks, <<>>) = <<>> /\ Structure(toks, <<>>) = <<>>
  BY ListsJoin
<1>4. Join(words, <<>>) = words /\ Join(<<>>, words) = words
  BY <1>1, Joining
<1>. QED
  BY <1>1, <1>2, <1>3, <1>4, Zenon

\* The stack with a frame more.
Grown(calls, f, more) == more = Append(calls, f)

HasOnTop(calls, f, more, m, k) ==
  Len(more) = k /\ Frame(more, k) = f /\ IsList(more) /\ \A i \in 1 .. m : more[i] = calls[i]

\* A frame on top of a list of frames.
LEMMA MoreFrames ==
  ASSUME NEW calls, IsList(calls), NEW f, NEW m, m = Len(calls), NEW k, IsNext(m, k),
         NEW more, Grown(calls, f, more)
  PROVE  HasOnTop(calls, f, more, m, k)
<1>1. /\ IsList(Append(calls, f)) /\ Len(Append(calls, f)) = Len(calls) + 1
      /\ Append(calls, f)[Len(calls) + 1] = f
      /\ \A i \in 1 .. Len(calls) : Append(calls, f)[i] = calls[i]
  BY ListAppend
<1>. QED
  BY <1>1, Zenon DEF IsNext, Frame, Grown, HasOnTop

\* An object initialiser that is being read stays on the stack.
LEMMA ObjectsBelow ==
  ASSUME NEW calls, NEW m \in Nat, m = Len(calls), NEW more, \A i \in 1 .. m : more[i] = calls[i],
         m <= Len(more), Len(more) \in Nat
  PROVE  Objects(calls) => Objects(more)
BY DEF Objects

\* A new call: it has no nodes yet, and its words are what is read, unless it is an
\* object initialiser, whose text is not accepted.
LEMMA EntersTree ==
  ASSUME ParserInv, ParserInv', TreesGrow, status = "running", status' = "running",
         tokens' = tokens, types' = types, NEW f, Enter(f), NodesOf(f) = <<>>,
         \A i \in Nat \ {0} : FrameTree(f, Trees[i], tokens),
         NEW r, r = Room(Top.fn), Room(f.fn) + 1 <= r + 3 * (pos' - pos),
         NEW read, KeptFrom(tokens, pos, pos', read), OwnWords(f) \in Seq(Token),
         read = OwnWords(f) \/ (f.fn = "arguments" /\ f.node.type = "OBJECT_INIT"), BracketPlace'
  PROVE  TreesGrow'
<1>1. /\ tokens \in Seq(Token) /\ Len(tokens) \in Nat /\ pos \in 1 .. Len(tokens)
      /\ StackOK(stack) /\ Len(stack) \in Nat \ {0} /\ IsList(stack)
      /\ Grows(stack, pos, tokens, types) /\ FramesGrow(stack, pos, tokens)
      /\ Len(stack) + r <= 3 * pos
  BY Situation
<1>2. PICK more, q : more = stack' /\ q = pos'
  OBVIOUS
<1>3. PICK m : m = Len(stack) /\ m \in Nat \ {0}
  BY <1>1
<1>4. PICK n, k : IsNext(n, m) /\ IsNext(m, k)
  <2>1. IsNext(m - 1, m) /\ IsNext(m, m + 1)
    BY <1>3 DEF IsNext
  <2>. QED
    BY <2>1, Zenon
<1>5. /\ Len(more) = k /\ Frame(more, k) = f /\ IsList(more)
      /\ \A i \in 1 .. m : more[i] = stack[i]
  <2>1. Grown(stack, f, more)
    BY <1>2, Zenon DEF Enter, Grown
  <2>. QED
    <3>1. HasOnTop(stack, f, more, m, k)
      BY <1>1, <1>3, <1>4, <2>1, MoreFrames
    <3>. QED
      BY <3>1, Zenon DEF HasOnTop
<1>6. StackOK(more) /\ q \in 1 .. Len(tokens)
  <2>1. StackOK(stack') /\ pos' \in 1 .. Len(tokens')
    BY RunningNext
  <2>. QED
    BY <1>2, <2>1
<1>7. /\ q \in pos .. Len(tokens) /\ read \in Seq(Token)
      /\ KeptUpTo(tokens, q - 1) = Join(KeptUpTo(tokens, pos - 1), read)
  BY <1>2, <1>6 DEF KeptFrom
<1>8. Stays(stack, pos, more, q, m, tokens)
  BY <1>1, <1>3, <1>4, <1>5, <1>6, <1>7 DEF Stays, IsNext
<1>9. Fits(Frame(more, k), q, k, tokens)
  <2>1. PICK s : s = Room(f.fn) /\ s \in {1, 2, 3}
    BY DEF Room
  <2>2. r \in {1, 2, 3}
    BY DEF Room
  <2>3. k + s <= 3 * q /\ Levels(q, k) \in Nat \ {0}
    <3>1. PICK p \in Nat : p = pos
      BY <1>1
    <3>2. PICK t : t = r /\ t \in {1, 2, 3}
      BY <2>2
    <3>3. q \in Nat /\ s + 1 <= t + 3 * (q - p) /\ m + t <= 3 * p /\ k = m + 1 /\ p <= q
      BY <1>1, <1>2, <1>3, <1>4, <1>6, <1>7, <2>1, <3>1, <3>2 DEF IsNext
    <3>4. k + s <= 3 * q /\ 3 * q - k \in Nat \ {0}
      BY <1>3, <2>1, <3>2, <3>3
    <3>. QED
      BY <3>4, Zenon DEF Levels
  <2>4. FrameTree(f, Trees[Levels(q, k)], tokens)
    BY <2>3
  <2>. QED
    BY <1>5, <2>1, <2>3, <2>4, Zenon DEF Fits
<1>10. Above(stack, m, tokens, <<>>, <<>>)
  BY <1>1, <1>3, <1>4, NothingAbove
<1>11. Objects(stack) => Objects(more)
  <2>1. m \in Nat /\ m <= Len(more) /\ Len(more) \in Nat
    BY <1>3, <1>4, <1>5 DEF IsNext
  <2>. QED
    BY <1>3, <1>5, <2>1, ObjectsBelow
<1>12. Spoken(tokens, f) = Join(<<>>, OwnWords(f)) /\ Held(tokens, f) = <<>>
  BY <1>1, NewSays
<1>13. /\ Says(WordsIn(tokens), Frame(more, k)) = Join(<<>>, OwnWords(f))
       /\ Replaceable(tokens, <<>>, types, Has(StructsIn(tokens), Frame(more, k)), types)
  BY <1>5, <1>12, SameStructs, Zenon DEF Spoken, Held
<1>14. Grows(more, q, tokens, types)
  <2>1. \/ HasArrayIn(tokens) \/ Objects(more)
        \/ /\ KeptUpTo(tokens, q - 1) = Join(KeptUpTo(tokens, pos - 1), read)
           /\ Says(WordsIn(tokens), Frame(more, k)) = Join(<<>>, read)
    <3>1. CASE read = OwnWords(f)
      BY <1>7, <1>13, <3>1, Zenon
    <3>2. CASE f.fn = "arguments" /\ f.node.type = "OBJECT_INIT"
      <4>1. k \in 1 .. Len(more) /\ more[k] = f
        BY <1>3, <1>4, <1>5 DEF IsNext, Frame
      <4>. QED
        BY <3>2, <4>1, Zenon DEF Objects
    <3>. QED
      BY <3>1, <3>2
  <2>. QED
    BY <1>1, <1>4, <1>7, <1>8, <1>9, <1>10, <1>11, <1>13, <2>1, StackGrows
<1>. QED
  BY <1>2, <1>14, NoTree, Zenon

\* New frames.
LEMMA NewFrameTrees ==
  ASSUME NEW S, NEW toks
  PROVE  /\ FrameTree(Expression, S, toks) /\ FrameTree(Block, S, toks)
         /\ NodesOf(Expression) = <<>> /\ OwnWords(Expression) = <<>>
         /\ NodesOf(Block) = <<>> /\ OwnWords(Block) = <<>>
         /\ Expression.fn = "expression" /\ Block.fn = "block"
<1>1. <<>> \in Seq(S) /\ Len(<<>>) = 0 /\ <<>> \o <<>> = <<>> /\ 1 .. 0 = {}
  OBVIOUS
<1>2. Reverse(<<>>) = <<>>
  <2>1. PICK e : e = <<>> /\ Len(e) = 0
    OBVIOUS
  <2>2. Reverse(e) = [i \in 1 .. Len(e) |-> e[(Len(e) - i) + 1]]
    BY DEF Reverse
  <2>3. [i \in 1 .. 0 |-> e[(0 - i) + 1]] = <<>>
    OBVIOUS
  <2>. QED
    BY <2>1, <2>2, <2>3
<1>3. PICK e : e = Expression /\ e.fn = "expression" /\ e.out = <<>> /\ e.held = <<>>
  <2>1. Expression.fn = "expression" /\ Expression.out = <<>> /\ Expression.held = <<>>
    BY DEF Expression
  <2>. QED
    BY <2>1, Zenon
<1>4. PICK b : b = Block /\ b.fn = "block" /\ b.root = <<>> /\ b.call.list = <<>>
  <2>1. Block.fn = "block" /\ Block.root = <<>> /\ Block.call.list = <<>>
    BY DEF Block, Waiting
  <2>. QED
    BY <2>1, Zenon
<1>5. FrameTree(e, S, toks)
  BY <1>1, <1>3 DEF FrameTree, ExpressionTree
<1>6. FrameTree(b, S, toks)
  BY <1>1, <1>4 DEF FrameTree, BlockTree, ListTree
<1>7. NodesOf(e) = <<>> /\ OwnWords(e) = <<>>
  BY <1>1, <1>2, <1>3 DEF NodesOf, OwnWords
<1>8. NodesOf(b) = <<>> /\ OwnWords(b) = <<>>
  BY <1>1, <1>4 DEF NodesOf, OwnWords
<1>. QED
  BY <1>3, <1>4, <1>5, <1>6, <1>7, <1>8

\* A frame without nodes.
StartsWith(f, fn, words, toks) ==
  (\A S : FrameTree(f, S, toks)) /\ NodesOf(f) = <<>> /\ OwnWords(f) = words /\ f.fn = fn

ArgumentsOf(f, type, words, end) == f = Arguments(Node(type, words), end)

\* A new call of parse_arguments.
LEMMA NewArgumentsTree ==
  ASSUME NEW toks, NEW type \in {"FUNCTION_CALL", "ARRAY_ACCESS", "ARRAY", "OBJECT_INIT"},
         NEW words \in Seq(Token), HasArrayIn(toks) \/ type # "ARRAY", NEW end,
         NEW f, ArgumentsOf(f, type, words, end)
  PROVE  StartsWith(f, "arguments", words, toks)
<1>1. ASSUME NEW S
      PROVE  <<>> \in Seq(S) /\ <<>> \o <<>> = <<>>
  OBVIOUS
<1>2. /\ f.fn = "arguments" /\ f.node.type = type /\ f.node.words = words
      /\ f.node.args = <<>> /\ f.node.body = <<>> /\ f.call.list = <<>>
  BY DEF ArgumentsOf, Arguments, Node, Waiting
<1>3. ASSUME NEW S
      PROVE  FrameTree(f, S, toks)
  BY <1>1, <1>2 DEF FrameTree, ArgumentsTree, ListTree
<1>4. NodesOf(f) = <<>> /\ OwnWords(f) = words
  BY <1>1, <1>2 DEF NodesOf, OwnWords
<1>. QED
  BY <1>2, <1>3, <1>4, Zenon DEF StartsWith

StatementOf(f, type, words, decl) == f = Statement(Node(type, words), decl)

\* A new call of parse_statement.
LEMMA NewStatementTree ==
  ASSUME NEW toks, NEW type \in {"KEYWORD", "DECL_FUNCTION"}, NEW words \in Seq(Token),
         NEW decl \in {FuncDecl} \cup {KeywordDecl[k] : k \in Keywords},
         NEW f, StatementOf(f, type, words, decl)
  PROVE  StartsWith(f, "statement", words, toks)
<1>1. ASSUME NEW S
      PROVE  <<>> \in Seq(S) /\ <<>> \o <<>> = <<>>
  OBVIOUS
<1>2. /\ f.fn = "statement" /\ f.node.type = type /\ f.node.words = words /\ f.parts = decl
      /\ f.node.args = <<>> /\ f.node.body = <<>> /\ f.call.list = <<>>
  BY DEF StatementOf, Statement, Node, Waiting
<1>3. Ordered(decl)
  BY OrderAssumption
<1>4. ASSUME NEW S
      PROVE  FrameTree(f, S, toks)
  BY <1>1, <1>2, <1>3 DEF FrameTree, StatementTree, ListTree
<1>5. NodesOf(f) = <<>> /\ OwnWords(f) = words
  BY <1>1, <1>2 DEF NodesOf, OwnWords
<1>. QED
  BY <1>2, <1>4, <1>5, Zenon DEF StartsWith

\* parse_expression reads a name and the bracket that opens its arguments.
LEMMA ReadCallGrows ==
  ASSUME ParserInv, ParserInv', TreesGrow, ReadCall PROVE TreesGrow'
<1>1. /\ status = "running" /\ status' = "running" /\ tokens' = tokens /\ types' = types
      /\ Top.fn = "expression" /\ tokens[pos] \in Names /\ pos' = pos + 2
      /\ tokens[pos + 1] \in {"(", "["}
  BY DEF ReadCall, In, Current, Advance, Following
<1>2. PICK words : words = <<tokens[pos]>> /\ words \in Seq(Token) /\ words = One(tokens[pos])
  <2>1. tokens[pos] \in Token
    BY <1>1 DEF Token
  <2>2. <<tokens[pos]>> \in Seq(Token) /\ <<tokens[pos]>> = One(tokens[pos])
    BY <2>1 DEF One
  <2>. QED
    BY <2>2, Zenon
<1>3. PICK f : /\ \/ f = Arguments(Node("FUNCTION_CALL", words), ")")
                  \/ f = Arguments(Node("ARRAY_ACCESS", words), "]")
               /\ Enter(f)
  <2>1. \/ Enter(Arguments(Node("FUNCTION_CALL", words), ")"))
        \/ Enter(Arguments(Node("ARRAY_ACCESS", words), "]"))
    BY <1>2, Zenon DEF ReadCall, Current
  <2>. QED
    BY <2>1, Zenon
<1>4. PICK k : k = pos + 1
  OBVIOUS
<1>5. k \in 1 .. Len(tokens) /\ pos \in Nat /\ KeptFrom(tokens, pos, k, One(tokens[pos]))
  BY <1>1, <1>4, NoNames, ReadsOne
<1>6. pos' = k + 1 /\ pos' - 1 = k /\ pos' - pos = 2
  BY <1>1, <1>4, <1>5
<1>7. tokens[k] \in Punctuation /\ tokens[k] # EndOfFile /\ tokens[k] \notin Names
  BY <1>1, <1>4, NoNames DEF Punctuation
<1>8. KeptFrom(tokens, pos, pos', words)
  BY <1>1, <1>2, <1>5, <1>6, <1>7, ReadsMore
<1>9. BracketPlace'
  BY <1>1, <1>6, <1>7, BracketReads
<1>10. StartsWith(f, "arguments", words, tokens)
  <2>1. /\ "FUNCTION_CALL" \in {"FUNCTION_CALL", "ARRAY_ACCESS", "ARRAY", "OBJECT_INIT"}
        /\ "ARRAY_ACCESS" \in {"FUNCTION_CALL", "ARRAY_ACCESS", "ARRAY", "OBJECT_INIT"}
        /\ "FUNCTION_CALL" # "ARRAY" /\ "ARRAY_ACCESS" # "ARRAY"
    OBVIOUS
  <2>2. ArgumentsOf(f, "FUNCTION_CALL", words, ")") \/ ArgumentsOf(f, "ARRAY_ACCESS", words, "]")
    BY <1>3, Zenon DEF ArgumentsOf
  <2>. QED
    BY <1>2, <2>1, <2>2, NewArgumentsTree
<1>11. Room(f.fn) + 1 <= Room(Top.fn) + 3 * (pos' - pos)
  BY <1>1, <1>6, <1>10 DEF Room, StartsWith
<1>. QED
  BY <1>1, <1>2, <1>3, <1>8, <1>9, <1>10, <1>11, EntersTree DEF StartsWith

\* It reads the head of a function.
LEMMA ReadFunctionGrows ==
  ASSUME ParserInv, ParserInv', TreesGrow, ReadFunction PROVE TreesGrow'
<1>1. PICK words : words = <<tokens[pos], tokens[pos + 1]>>
  OBVIOUS
<1>2. PICK f : /\ f = Statement(Node("DECL_FUNCTION", words), FuncDecl) /\ Enter(f)
               /\ status' = status /\ tokens' = tokens /\ types' = types /\ Declares /\ pos' = pos + 2
               /\ tokens[pos + 2] = "("
  BY <1>1, Zenon DEF ReadFunction, Current, Advance, Following
<1>3. /\ status = "running" /\ Top.fn = "expression" /\ pos \in Nat
      /\ KeptFrom(tokens, pos, pos', words) /\ words \in Seq(Token)
  BY <1>1, <1>2, ReadsBoth
<1>4. tokens[pos'] # "["
  BY <1>2
<1>5. BracketPlace'
  BY <1>2, <1>4, BracketReads
<1>6. StartsWith(f, "statement", words, tokens)
  <2>1. /\ "DECL_FUNCTION" \in {"KEYWORD", "DECL_FUNCTION"}
        /\ FuncDecl \in {FuncDecl} \cup {KeywordDecl[k] : k \in Keywords}
    OBVIOUS
  <2>2. StatementOf(f, "DECL_FUNCTION", words, FuncDecl)
    BY <1>2, Zenon DEF StatementOf
  <2>. QED
    BY <1>3, <2>1, <2>2, NewStatementTree
<1>7. Room(f.fn) + 1 <= Room(Top.fn) + 3 * (pos' - pos)
  <2>1. pos' - pos = 2
    BY <1>2, <1>3
  <2>. QED
    BY <1>3, <1>6, <2>1 DEF Room, StartsWith
<1>. QED
  BY <1>2, <1>3, <1>5, <1>6, <1>7, EntersTree DEF StartsWith

\* It reads the head of an object initialiser.
LEMMA ReadObjectGrows ==
  ASSUME ParserInv, ParserInv', TreesGrow, ReadObject PROVE TreesGrow'
<1>1. PICK words, k : words = <<tokens[pos + 1]>> /\ k = pos + 2
  OBVIOUS
<1>2. PICK f : /\ f = Arguments(Node("OBJECT_INIT", words), "}") /\ Enter(f)
               /\ status' = status /\ tokens' = tokens /\ types' = types /\ Declares /\ pos' = pos + 3
               /\ tokens[pos + 2] = "{"
  BY <1>1, Zenon DEF ReadObject, Advance, Following
<1>3. PICK read : /\ status = "running" /\ Top.fn = "expression" /\ pos \in Nat
                  /\ KeptFrom(tokens, pos, k, read) /\ tokens[pos + 1] \in Names /\ k \in 1 .. Len(tokens)
  BY <1>1, <1>2, ReadsBoth
<1>4. words \in Seq(Token)
  BY <1>1, <1>3 DEF Token
<1>5. pos' = k + 1 /\ pos' - 1 = k /\ pos' - pos = 3
  <2>1. pos \in Nat /\ k = pos + 2 /\ pos' = pos + 3
    BY <1>1, <1>2, <1>3, Zenon
  <2>. QED
    BY <2>1
<1>6. tokens[k] \in Punctuation /\ tokens[k] # EndOfFile /\ tokens[k] \notin Names
  BY <1>1, <1>2, NoNames DEF Punctuation
<1>7. KeptFrom(tokens, pos, pos', read)
  BY <1>3, <1>5, <1>6, ReadsMore
<1>8. BracketPlace'
  BY <1>2, <1>5, <1>6, BracketReads
<1>9. StartsWith(f, "arguments", words, tokens)
  <2>1. "OBJECT_INIT" \in {"FUNCTION_CALL", "ARRAY_ACCESS", "ARRAY", "OBJECT_INIT"} /\ "OBJECT_INIT" # "ARRAY"
    OBVIOUS
  <2>2. ArgumentsOf(f, "OBJECT_INIT", words, "}")
    BY <1>2, Zenon DEF ArgumentsOf
  <2>. QED
    BY <1>4, <2>1, <2>2, NewArgumentsTree
<1>10. f.node.type = "OBJECT_INIT"
  BY <1>2 DEF Arguments, Node
<1>11. Room(f.fn) + 1 <= Room(Top.fn) + 3 * (pos' - pos)
  BY <1>3, <1>5, <1>9 DEF Room, StartsWith
<1>. QED
  BY <1>2, <1>3, <1>4, <1>7, <1>8, <1>9, <1>10, <1>11, EntersTree DEF StartsWith

\* It reads a keyword.
LEMMA ReadKeywordGrows ==
  ASSUME ParserInv, ParserInv', TreesGrow, ReadKeyword PROVE TreesGrow'
<1>1. /\ status = "running" /\ status' = "running" /\ tokens' = tokens /\ types' = types
      /\ Top.fn = "expression" /\ tokens[pos] \in Keywords /\ pos' = pos + 1
  BY DEF ReadKeyword, In, Current, Advance
<1>2. PICK words : words = <<tokens[pos]>> /\ words \in Seq(Token) /\ words = One(tokens[pos])
  <2>1. tokens[pos] \in Token
    BY <1>1 DEF Token
  <2>2. <<tokens[pos]>> \in Seq(Token) /\ <<tokens[pos]>> = One(tokens[pos])
    BY <2>1 DEF One
  <2>. QED
    BY <2>2, Zenon
<1>3. PICK f : f = Statement(Node("KEYWORD", words), KeywordDecl[tokens[pos]]) /\ Enter(f)
  BY <1>2, Zenon DEF ReadKeyword, Current
<1>4. tokens[pos] \notin Names /\ tokens[pos] # EndOfFile
  BY <1>1, NoNames
<1>5. KeptFrom(tokens, pos, pos', words) /\ pos \in Nat
  BY <1>1, <1>2, <1>4, ReadsOne
<1>6. pos' - 1 = pos /\ pos' - pos = 1
  BY <1>1, <1>5
<1>7. BracketPlace'
  BY <1>1, <1>4, <1>6, BracketReads
<1>8. StartsWith(f, "statement", words, tokens)
  <2>1. /\ "KEYWORD" \in {"KEYWORD", "DECL_FUNCTION"}
        /\ KeywordDecl[tokens[pos]] \in {FuncDecl} \cup {KeywordDecl[k] : k \in Keywords}
    BY <1>1
  <2>2. StatementOf(f, "KEYWORD", words, KeywordDecl[tokens[pos]])
    BY <1>3, Zenon DEF StatementOf
  <2>. QED
    BY <1>2, <2>1, <2>2, NewStatementTree
<1>9. Room(f.fn) + 1 <= Room(Top.fn) + 3 * (pos' - pos)
  BY <1>1, <1>6, <1>8 DEF Room, StartsWith
<1>. QED
  BY <1>1, <1>2, <1>3, <1>5, <1>7, <1>8, <1>9, EntersTree DEF StartsWith

\* An expression starts with a bracket: the text has an array literal.
LEMMA ReadArrayGrows ==
  ASSUME ParserInv, ParserInv', TreesGrow, ReadArray PROVE TreesGrow'
<1>1. PICK f : /\ status = "running" /\ status' = "running" /\ tokens' = tokens /\ types' = types
               /\ Top.fn = "expression" /\ tokens[pos] = "[" /\ pos' = pos + 1
               /\ f = Arguments(Node("ARRAY", <<>>), "]") /\ Enter(f)
  BY Zenon DEF ReadArray, In, Current, Advance
<1>2. tokens[pos] \in Punctuation /\ tokens[pos] # EndOfFile /\ tokens[pos] \notin Names
  BY <1>1, NoNames DEF Punctuation
<1>3. /\ tokens \in Seq(Token) /\ pos \in 1 .. Len(tokens) /\ BracketPlace
  BY <1>1, Situation
<1>4. KeptFrom(tokens, pos, pos', <<>>)
  BY <1>1, <1>2, ReadsOne
<1>5. pos' - 1 = pos /\ pos' - pos = 1
  BY <1>1, <1>3
<1>6. BracketPlace'
  BY <1>1, <1>2, <1>5, BracketReads
<1>7. HasArrayIn(tokens)
  <2>1. pos = 1 \/ tokens[pos - 1] \notin Names
    BY <1>1, <1>3 DEF BracketPlace
  <2>2. pos \in DOMAIN tokens
    BY <1>3
  <2>. QED
    BY <1>1, <2>1, <2>2, Zenon DEF HasArrayIn
<1>8. StartsWith(f, "arguments", <<>>, tokens) /\ <<>> \in Seq(Token)
  <2>1. "ARRAY" \in {"FUNCTION_CALL", "ARRAY_ACCESS", "ARRAY", "OBJECT_INIT"}
    OBVIOUS
  <2>2. <<>> \in Seq(Token)
    OBVIOUS
  <2>3. ArgumentsOf(f, "ARRAY", <<>>, "]")
    BY <1>1, Zenon DEF ArgumentsOf
  <2>. QED
    BY <1>7, <2>1, <2>2, <2>3, NewArgumentsTree
<1>9. Room(f.fn) + 1 <= Room(Top.fn) + 3 * (pos' - pos)
  BY <1>1, <1>5, <1>8 DEF Room, StartsWith
<1>. QED
  BY <1>1, <1>4, <1>6, <1>8, <1>9, EntersTree DEF StartsWith

\* A call that reads nothing.
LEMMA NestsTree ==
  ASSUME ParserInv, ParserInv', TreesGrow, status = "running", status' = "running",
         tokens' = tokens, types' = types, pos' = pos, NEW f \in {Expression, Block}, Enter(f),
         Room(f.fn) + 1 <= Room(Top.fn), Top.fn = "statement" => Head(Top.parts) \notin Punctuation
  PROVE  TreesGrow'
<1>1. pos \in Nat /\ BracketPlace
  BY Situation
<1>2. /\ \A S : FrameTree(f, S, tokens)
      /\ NodesOf(f) = <<>> /\ OwnWords(f) = <<>> /\ <<>> \in Seq(Token)
  <2>1. <<>> \in Seq(Token)
    OBVIOUS
  <2>. QED
    BY <2>1, NewFrameTrees
<1>3. KeptFrom(tokens, pos, pos', <<>>)
  BY ReadsNone
<1>4. BracketPlace'
  BY <1>1, BracketStays
<1>5. Room(f.fn) + 1 <= Room(Top.fn) + 3 * (pos' - pos)
  <2>1. 3 * (pos' - pos) = 0
    BY <1>1
  <2>2. Room(Top.fn) \in {1, 2, 3}
    BY DEF Room
  <2>3. Room(Top.fn) + 0 = Room(Top.fn)
    BY <2>2
  <2>. QED
    BY <2>1, <2>3
<1>. QED
  BY <1>2, <1>3, <1>4, <1>5, EntersTree

\* parse_arguments calls parse_expression.
LEMMA ArgumentsCallGrows ==
  ASSUME ParserInv, ParserInv', TreesGrow, ArgumentsCall PROVE TreesGrow'
<1>1. /\ status = "running" /\ status' = "running" /\ tokens' = tokens /\ types' = types
      /\ pos' = pos /\ Top.fn = "arguments" /\ Enter(Expression)
  BY DEF ArgumentsCall, Calls, In
<1>2. Room(Expression.fn) + 1 <= Room(Top.fn)
  BY <1>1, NewFrameTrees DEF Room
<1>. QED
  BY <1>1, <1>2, NestsTree

\* parse_block calls parse_expression.
LEMMA BlockCallGrows ==
  ASSUME ParserInv, ParserInv', TreesGrow, BlockCall PROVE TreesGrow'
<1>1. /\ status = "running" /\ status' = "running" /\ tokens' = tokens /\ types' = types
      /\ pos' = pos /\ Top.fn = "block" /\ Enter(Expression)
  BY DEF BlockCall, Calls, In
<1>2. Room(Expression.fn) + 1 <= Room(Top.fn)
  BY <1>1, NewFrameTrees DEF Room
<1>. QED
  BY <1>1, <1>2, NestsTree

\* parser_analyze calls parse_expression.
LEMMA AnalyzeCallGrows ==
  ASSUME ParserInv, ParserInv', TreesGrow, AnalyzeCall PROVE TreesGrow'
<1>1. /\ status = "running" /\ status' = "running" /\ tokens' = tokens /\ types' = types
      /\ pos' = pos /\ Top.fn = "analyze" /\ Enter(Expression)
  BY DEF AnalyzeCall, Calls, In
<1>2. Room(Expression.fn) + 1 <= Room(Top.fn)
  BY <1>1, NewFrameTrees DEF Room
<1>. QED
  BY <1>1, <1>2, NestsTree

\* parse_statement calls what reads its next part.
LEMMA PartCallGrows ==
  ASSUME ParserInv, ParserInv', TreesGrow, PartCall PROVE TreesGrow'
<1>1. /\ status = "running" /\ status' = "running" /\ tokens' = tokens /\ types' = types
      /\ pos' = pos /\ Top.fn = "statement" /\ Head(Top.parts) \in Asking
  BY DEF PartCall, Calls, In, Part, Asking
<1>2. PICK f \in {Expression, Block} : Enter(f)
  BY DEF PartCall
<1>3. Room(f.fn) + 1 <= Room(Top.fn)
  BY <1>1, NewFrameTrees DEF Room
<1>4. Head(Top.parts) \notin Punctuation
  BY <1>1 DEF Asking, Punctuation
<1>. QED
  BY <1>1, <1>2, <1>3, <1>4, NestsTree

-----------------------------------------------------------------------------
(* The steps that return.                                                  *)

\* The stack once the call on top has returned.
LEMMA FramesLeft ==
  ASSUME NEW calls, IsList(calls), NEW n, NEW m, IsNext(n, m), NEW k, IsNext(m, k), k = Len(calls),
         NEW less, less = Front(Front(calls)), NEW g, NEW more, Grown(less, g, more)
  PROVE  HasOnTop(calls, g, more, n, m)
<1>1. n \in Nat /\ m = n + 1 /\ k = m + 1
  BY DEF IsNext
<1>2. PICK fr : /\ fr = Front(calls) /\ IsList(fr) /\ Len(fr) = m /\ \A i \in 1 .. m : fr[i] = calls[i]
  <2>1. /\ IsList(Front(calls)) /\ Len(Front(calls)) = Len(calls) - 1
        /\ \A i \in 1 .. Len(calls) - 1 : Front(calls)[i] = calls[i]
    <3>1. Len(calls) > 0
      BY <1>1
    <3>. QED
      BY <3>1, ListFront
  <2>2. Len(calls) - 1 = m
    BY <1>1
  <2>. QED
    BY <2>1, <2>2, Zenon
<1>3. IsList(less) /\ Len(less) = n /\ \A i \in 1 .. n : less[i] = fr[i]
  <2>1. /\ IsList(Front(fr)) /\ Len(Front(fr)) = Len(fr) - 1
        /\ \A i \in 1 .. Len(fr) - 1 : Front(fr)[i] = fr[i]
    BY <1>1, <1>2, ListFront
  <2>2. Len(fr) - 1 = n
    BY <1>1, <1>2
  <2>. QED
    BY <1>2, <2>1, <2>2, Zenon
<1>4. n = Len(less) /\ IsNext(n, m)
  BY <1>3
<1>5. HasOnTop(less, g, more, n, m)
  BY <1>3, <1>4, MoreFrames
<1>6. Len(more) = m /\ Frame(more, m) = g /\ IsList(more) /\ \A i \in 1 .. n : more[i] = less[i]
  BY <1>5, Zenon DEF HasOnTop
<1>7. \A i \in 1 .. n : i \in 1 .. m
  BY <1>1
<1>8. \A i \in 1 .. n : more[i] = calls[i]
  BY <1>2, <1>3, <1>6, <1>7, Zenon
<1>. QED
  BY <1>6, <1>8, Zenon DEF HasOnTop

\* The caller takes over from the call on top.
TakesOver(caller, callee, g, toks, names, names2) ==
  /\ g.fn = caller.fn
  /\ caller.fn = "arguments" => g.node = caller.node
  /\ HasArrayIn(toks) \/ Spoken(toks, g) = Join(Spoken(toks, caller), Spoken(toks, callee))
  /\ Replaceable(toks, Join(Held(toks, caller), Held(toks, callee)), names, Held(toks, g), names2)

\* The call on top returns, and what it says and has goes over to its caller.
LEMMA Backwards ==
  ASSUME ParserInv, ParserInv', TreesGrow, status = "running", status' = "running",
         tokens' = tokens, Top.fn # "analyze", Top.fn = "arguments" => Top.node.type # "OBJECT_INIT",
         NEW caller, caller = Last(Front(stack)),
         NEW g, stack' = Append(Front(Front(stack)), g),
         TakesOver(caller, Top, g, tokens, types, types'),
         \A m : IsNext(m, Len(stack)) /\ FrameTree(caller, Trees[Levels(pos, m)], tokens)
                  => FrameTree(g, Trees[Levels(pos, m)], tokens),
         KeptFrom(tokens, pos, pos', <<>>), BracketPlace'
  PROVE  TreesGrow'
<1>1. /\ tokens \in Seq(Token) /\ Len(tokens) \in Nat /\ pos \in 1 .. Len(tokens)
      /\ StackOK(stack) /\ Len(stack) \in Nat \ {0} /\ IsList(stack)
      /\ Grows(stack, pos, tokens, types) /\ FramesGrow(stack, pos, tokens)
      /\ Top = Frame(stack, Len(stack))
  BY Situation
<1>2. PICK more, q : more = stack' /\ q = pos'
  OBVIOUS
<1>3. Len(stack) > 1
  <2>1. Len(Front(stack)) > 0 /\ Len(Front(stack)) = Len(stack) - 1
    BY Below, Running
  <2>. QED
    BY <1>1, <2>1
<1>4. PICK n, m, k : IsNext(n, m) /\ IsNext(m, k) /\ k = Len(stack)
  <2>1. IsNext(Len(stack) - 2, Len(stack) - 1) /\ IsNext(Len(stack) - 1, Len(stack))
    BY <1>1, <1>3 DEF IsNext
  <2>. QED
    BY <2>1, Zenon
<1>5. /\ Len(more) = m /\ Frame(more, m) = g /\ IsList(more)
      /\ \A i \in 1 .. n : more[i] = stack[i]
  <2>1. PICK less : less = Front(Front(stack)) /\ Grown(less, g, more)
    BY <1>2, Zenon DEF Grown
  <2>2. HasOnTop(stack, g, more, n, m)
    BY <1>1, <1>4, <2>1, FramesLeft
  <2>. QED
    BY <2>2, Zenon DEF HasOnTop
<1>6. caller = Frame(stack, m)
  <2>1. PICK fr : fr = Front(stack) /\ IsList(fr) /\ Len(fr) = m /\ fr[m] = stack[m]
    <3>1. /\ IsList(Front(stack)) /\ Len(Front(stack)) = Len(stack) - 1
          /\ \A i \in 1 .. Len(stack) - 1 : Front(stack)[i] = stack[i]
      BY <1>1, ListFront
    <3>2. Len(stack) - 1 = m /\ m \in 1 .. Len(stack) - 1
      BY <1>4 DEF IsNext
    <3>. QED
      BY <3>1, <3>2, Zenon
  <2>2. Last(fr) = fr[Len(fr)]
    BY Zenon DEF Last
  <2>. QED
    BY <2>1, <2>2, Zenon DEF Frame
<1>7. StackOK(more) /\ q \in 1 .. Len(tokens)
  <2>1. StackOK(stack') /\ pos' \in 1 .. Len(tokens')
    BY RunningNext
  <2>. QED
    BY <1>2, <2>1
<1>8. /\ q \in pos .. Len(tokens) /\ <<>> \in Seq(Token)
      /\ KeptUpTo(tokens, q - 1) = Join(KeptUpTo(tokens, pos - 1), <<>>)
  BY <1>2, <1>7 DEF KeptFrom
<1>9. Stays(stack, pos, more, q, n, tokens)
  BY <1>1, <1>4, <1>5, <1>7, <1>8 DEF Stays, IsNext
<1>10. Fits(Frame(more, m), q, m, tokens)
  <2>1. m \in 1 .. Len(stack) /\ m \in Nat
    BY <1>4 DEF IsNext
  <2>2. m + Room(stack[m].fn) <= 3 * pos /\ FrameTree(stack[m], Trees[Levels(pos, m)], tokens)
    BY <1>1, <2>1 DEF FramesGrow
  <2>3. FrameTree(g, Trees[Levels(pos, m)], tokens)
    BY <1>4, <1>6, <2>2, Zenon DEF Frame
  <2>4. g.fn = stack[m].fn
    BY <1>6, Zenon DEF TakesOver, Frame
  <2>5. PICK r : r = Room(g.fn) /\ r \in {1, 2, 3}
    BY DEF Room
  <2>6. pos \in Nat /\ q \in Nat /\ pos <= q /\ m + r <= 3 * pos
    <3>1. pos \in Nat /\ q \in Nat /\ pos <= q
      BY <1>1, <1>8
    <3>2. m + r <= 3 * pos
      BY <2>2, <2>4, <2>5, Zenon
    <3>. QED
      BY <3>1, <3>2
  <2>7. Levels(pos, m) \in Nat /\ Levels(q, m) \in Nat /\ Levels(pos, m) <= Levels(q, m) /\ m + r <= 3 * q
    BY <2>1, <2>5, <2>6 DEF Levels
  <2>8. Trees[Levels(pos, m)] \subseteq Trees[Levels(q, m)]
    BY <2>7, TreesGrowOn
  <2>9. FrameTree(g, Trees[Levels(q, m)], tokens)
    BY <2>3, <2>8, FrameTreeGrows
  <2>. QED
    BY <1>5, <2>5, <2>7, <2>9, Zenon DEF Fits
<1>11. Above(stack, n, tokens, Join(Spoken(tokens, caller), Spoken(tokens, Top)),
                               Join(Held(tokens, caller), Held(tokens, Top)))
  <2>1. Above(stack, n, tokens,
              Join(Says(WordsIn(tokens), Frame(stack, m)), Says(WordsIn(tokens), Frame(stack, k))),
              Join(Has(StructsIn(tokens), Frame(stack, m)), Has(StructsIn(tokens), Frame(stack, k))))
    BY <1>1, <1>4, TwoAbove
  <2>. QED
    BY <1>1, <1>4, <1>6, <2>1, Zenon DEF Spoken, Held
<1>12. Objects(stack) => Objects(more)
  <2>. SUFFICES ASSUME NEW i \in 1 .. Len(stack), stack[i].fn = "arguments", stack[i].node.type = "OBJECT_INIT"
                PROVE  Objects(more)
    BY DEF Objects
  <2>1. i # k
    BY <1>1, <1>4, Zenon DEF Frame
  <2>2. i \in 1 .. n \/ i = m
    BY <1>4, <2>1 DEF IsNext
  <2>3. i \in 1 .. Len(more) /\ more[i].fn = "arguments" /\ more[i].node.type = "OBJECT_INIT"
    <3>1. CASE i \in 1 .. n
      <4>1. i \in 1 .. Len(more)
        BY <1>4, <1>5, <3>1 DEF IsNext
      <4>. QED
        BY <1>5, <3>1, <4>1, Zenon
    <3>2. CASE i = m
      <4>1. more[i] = g /\ stack[i] = caller
        BY <1>5, <1>6, <3>2, Zenon DEF Frame
      <4>2. g.fn = caller.fn /\ (caller.fn = "arguments" => g.node = caller.node)
        BY Zenon DEF TakesOver
      <4>3. i \in 1 .. Len(more)
        BY <1>4, <1>5, <3>2 DEF IsNext
      <4>. QED
        BY <4>1, <4>2, <4>3, Zenon
    <3>. QED
      BY <2>2, <3>1, <3>2
  <2>. QED
    BY <2>3, Zenon DEF Objects
<1>13. /\ HasArrayIn(tokens)
            \/ Says(WordsIn(tokens), Frame(more, m)) = Join(Spoken(tokens, caller), Spoken(tokens, Top))
       /\ Replaceable(tokens, Join(Held(tokens, caller), Held(tokens, Top)), types,
                      Has(StructsIn(tokens), Frame(more, m)), types')
  BY <1>5, Zenon DEF TakesOver, Spoken, Held
<1>14. Grows(more, q, tokens, types')
  <2>1. PICK said, had, names2 : /\ said = Join(Spoken(tokens, caller), Spoken(tokens, Top))
                                /\ had = Join(Held(tokens, caller), Held(tokens, Top)) /\ names2 = types'
    OBVIOUS
  <2>2. Above(stack, n, tokens, said, had)
    BY <1>11, <2>1, Zenon
  <2>3. Join(said, <<>>) = said
    BY <2>2, Joining DEF Above
  <2>4. \/ HasArrayIn(tokens) \/ Objects(more)
        \/ /\ KeptUpTo(tokens, q - 1) = Join(KeptUpTo(tokens, pos - 1), <<>>)
           /\ Says(WordsIn(tokens), Frame(more, m)) = Join(said, <<>>)
    BY <1>8, <1>13, <2>1, <2>3, Zenon
  <2>5. Replaceable(tokens, had, types, Has(StructsIn(tokens), Frame(more, m)), names2)
    BY <1>13, <2>1, Zenon
  <2>6. Grows(more, q, tokens, names2)
    BY <1>1, <1>4, <1>8, <1>9, <1>10, <1>12, <2>2, <2>4, <2>5, StackGrows
  <2>. QED
    BY <2>1, <2>6, Zenon
<1>. QED
  BY <1>2, <1>14, NoTree, Zenon

\* A caller that has been given a list, and what it has become.
GivenList(f, list, g) == g = [f EXCEPT !.call = [back |-> TRUE, list |-> list]]
Received(f, list, g) == NodesOf(g) = Join(NodesOf(f), list) /\ OwnWords(g) = OwnWords(f)

SameFields(f, g) ==
  /\ g.fn = f.fn
  /\ f.fn \in {"arguments", "statement"} => g.node = f.node
  /\ f.fn = "statement" => g.parts = f.parts
  /\ f.fn \in {"block", "analyze"} => g.root = f.root
  /\ f.fn = "block" => g.first = f.first
HasCall(g, back, list) == g.call.back = back /\ g.call.list = list

\* The fields of a caller that has been given a list.
LEMMA GivenFields ==
  ASSUME NEW f, FrameOK(f), f.fn # "expression", NEW list,
         NEW g, GivenList(f, list, g)
  PROVE  SameFields(f, g) /\ HasCall(g, TRUE, list)
<1>1. CASE f.fn = "arguments"
  <2>1. f = [fn |-> "arguments", node |-> f.node, end |-> f.end, call |-> f.call]
    BY <1>1, FrameKinds, Zenon DEF ArgumentsOK
  <2>. QED
    BY <1>1, <2>1 DEF GivenList, SameFields, HasCall
<1>2. CASE f.fn = "statement"
  <2>1. f = [fn |-> "statement", node |-> f.node, parts |-> f.parts, call |-> f.call]
    BY <1>2, FrameKinds, Zenon DEF StatementOK
  <2>. QED
    BY <1>2, <2>1 DEF GivenList, SameFields, HasCall
<1>3. CASE f.fn = "block"
  <2>1. f = [fn |-> "block", first |-> f.first, root |-> f.root, call |-> f.call]
    BY <1>3, FrameKinds, Zenon DEF BlockOK
  <2>. QED
    BY <1>3, <2>1 DEF GivenList, SameFields, HasCall
<1>4. CASE f.fn = "analyze"
  <2>1. f = [fn |-> "analyze", root |-> f.root, call |-> f.call]
    BY <1>4, FrameKinds, Zenon DEF AnalyzeOK
  <2>. QED
    BY <1>4, <2>1 DEF GivenList, SameFields, HasCall
<1>. QED
  BY <1>1, <1>2, <1>3, <1>4, FrameKinds DEF Frames

\* The nodes of a frame that may be given a list.
LEMMA ListNodes ==
  ASSUME NEW f
  PROVE  /\ f.fn = "arguments" => NodesOf(f) = Join(f.node.args, f.call.list)
         /\ f.fn = "statement" => NodesOf(f) = Join(Join(f.node.args, f.node.body), f.call.list)
         /\ f.fn \in {"block", "analyze"} => NodesOf(f) = Join(f.root, f.call.list)
         /\ f.fn \in {"arguments", "statement"} => OwnWords(f) = f.node.words
         /\ f.fn \in {"block", "analyze"} => OwnWords(f) = <<>>
<1>1. CASE f.fn = "arguments"
  BY <1>1, Zenon DEF NodesOf, OwnWords, Join
<1>2. CASE f.fn = "statement"
  <2>1. f.fn # "expression" /\ f.fn # "arguments"
    BY <1>2
  <2>. QED
    BY <1>2, <2>1, Zenon DEF NodesOf, OwnWords, Join
<1>3. CASE f.fn \in {"block", "analyze"}
  <2>1. f.fn # "expression" /\ f.fn # "arguments" /\ f.fn # "statement"
    BY <1>3
  <2>. QED
    BY <1>3, <2>1, Zenon DEF NodesOf, OwnWords, Join
<1>. QED
  BY <1>1, <1>2, <1>3

\* What it is given comes behind its own nodes.
LEMMA Receives ==
  ASSUME NEW toks, NEW f, FrameOK(f), f.fn # "expression", f.call.back = FALSE, NEW list,
         NEW g, GivenList(f, list, g),
         NEW S, FrameTree(f, S, toks), list \in Seq(S)
  PROVE  FrameTree(g, S, toks) /\ Received(f, list, g)
<1>1. /\ g.fn = f.fn /\ g.call.back = TRUE /\ g.call.list = list
      /\ f.fn \in {"arguments", "statement"} => g.node = f.node
      /\ f.fn = "statement" => g.parts = f.parts
      /\ f.fn \in {"block", "analyze"} => g.root = f.root
      /\ f.fn = "block" => g.first = f.first
  <2>1. SameFields(f, g) /\ HasCall(g, TRUE, list)
    BY GivenFields
  <2>. QED
    BY <2>1, Zenon DEF SameFields, HasCall
<1>2. ListTree(g.call, S)
  BY <1>1, Zenon DEF ListTree
<1>3. CASE f.fn = "arguments"
  <2>1. f.node.args \in Seq(S) /\ f.call.list = <<>>
    BY <1>3 DEF FrameTree, ArgumentsTree, ListTree
  <2>2. FrameTree(g, S, toks)
    BY <1>1, <1>2, <1>3 DEF FrameTree, ArgumentsTree
  <2>3. NodesOf(f) = Join(f.node.args, <<>>) /\ OwnWords(f) = f.node.words
    BY <1>3, <2>1, ListNodes
  <2>4. NodesOf(g) = Join(f.node.args, list) /\ OwnWords(g) = f.node.words
    BY <1>1, <1>3, ListNodes
  <2>5. Join(f.node.args, <<>>) = f.node.args
    BY <2>1, Joining
  <2>. QED
    BY <2>2, <2>3, <2>4, <2>5, Zenon DEF Received
<1>4. CASE f.fn = "statement"
  <2>1. f.node.args \in Seq(S) /\ f.node.body \in Seq(S) /\ f.call.list = <<>>
    BY <1>4 DEF FrameTree, StatementTree, ListTree
  <2>2. FrameTree(g, S, toks)
    BY <1>1, <1>2, <1>4 DEF FrameTree, StatementTree
  <2>3. NodesOf(f) = Join(Join(f.node.args, f.node.body), <<>>) /\ OwnWords(f) = f.node.words
    BY <1>4, <2>1, ListNodes
  <2>4. NodesOf(g) = Join(Join(f.node.args, f.node.body), list) /\ OwnWords(g) = f.node.words
    BY <1>1, <1>4, ListNodes
  <2>5. Join(Join(f.node.args, f.node.body), <<>>) = Join(f.node.args, f.node.body)
    <3>1. Join(f.node.args, f.node.body) \in Seq(S)
      BY <2>1, Joining
    <3>. QED
      BY <3>1, Joining
  <2>. QED
    BY <2>2, <2>3, <2>4, <2>5, Zenon DEF Received
<1>5. CASE f.fn \in {"block", "analyze"}
  <2>1. f.root \in Seq(S) /\ f.call.list = <<>>
    BY <1>5 DEF FrameTree, BlockTree, AnalyzeTree, ListTree
  <2>2. FrameTree(g, S, toks)
    BY <1>1, <1>2, <1>5 DEF FrameTree, BlockTree, AnalyzeTree
  <2>3. NodesOf(f) = Join(f.root, <<>>) /\ OwnWords(f) = <<>>
    BY <1>5, <2>1, ListNodes
  <2>4. NodesOf(g) = Join(f.root, list) /\ OwnWords(g) = <<>>
    BY <1>1, <1>5, ListNodes
  <2>5. Join(f.root, <<>>) = f.root
    BY <2>1, Joining
  <2>. QED
    BY <2>2, <2>3, <2>4, <2>5, Zenon DEF Received
<1>. QED
  BY <1>3, <1>4, <1>5, FrameKinds DEF Frames

\* A list goes from one frame to the other.
LEMMA ListPasses ==
  ASSUME NEW toks \in Seq(Token), NEW f, FrameOK(f), FrameTree(f, TreesIn(toks), toks),
         NEW h, FrameOK(h), FrameTree(h, TreesIn(toks), toks), OwnWords(h) = <<>>,
         NEW g, NodesOf(g) = Join(NodesOf(f), NodesOf(h)), OwnWords(g) = OwnWords(f)
  PROVE  /\ Spoken(toks, g) = Join(Spoken(toks, f), Spoken(toks, h))
         /\ Held(toks, g) = Join(Held(toks, f), Held(toks, h))
<1>1. PICK own, x, y : /\ own = OwnWords(f) /\ x = NodesOf(f) /\ y = NodesOf(h)
                       /\ own \in Seq(Token) /\ x \in Seq(TreesIn(toks)) /\ y \in Seq(TreesIn(toks))
  BY SpokenType
<1>2. /\ Spoken(toks, f) = Join(own, Wording(toks, x)) /\ Held(toks, f) = Structure(toks, x)
      /\ Spoken(toks, h) = Join(<<>>, Wording(toks, y)) /\ Held(toks, h) = Structure(toks, y)
      /\ Spoken(toks, g) = Join(own, Wording(toks, Join(x, y))) /\ Held(toks, g) = Structure(toks, Join(x, y))
  <2>1. /\ Spoken(toks, f) = Join(OwnWords(f), Wording(toks, NodesOf(f)))
        /\ Held(toks, f) = Structure(toks, NodesOf(f))
        /\ Spoken(toks, h) = Join(OwnWords(h), Wording(toks, NodesOf(h)))
        /\ Held(toks, h) = Structure(toks, NodesOf(h))
        /\ Spoken(toks, g) = Join(OwnWords(g), Wording(toks, NodesOf(g)))
        /\ Held(toks, g) = Structure(toks, NodesOf(g))
    BY FrameWords
  <2>. QED
    BY <1>1, <2>1, Zenon
<1>3. /\ Wording(toks, x) \in Seq(Token) /\ Wording(toks, y) \in Seq(Token)
      /\ Wording(toks, Join(x, y)) = Join(Wording(toks, x), Wording(toks, y))
      /\ Structure(toks, Join(x, y)) = Join(Structure(toks, x), Structure(toks, y))
  BY <1>1, ListsJoin
<1>4. Join(<<>>, Wording(toks, y)) = Wording(toks, y)
  BY <1>3, Joining
<1>5. Join(Join(own, Wording(toks, x)), Wording(toks, y)) = Join(own, Join(Wording(toks, x), Wording(toks, y)))
  BY <1>1, <1>3, Joining
<1>. QED
  BY <1>2, <1>3, <1>4, <1>5, Zenon

\* The frame below the top has its tree too.
LEMMA CallerTree ==
  ASSUME ParserInv, TreesGrow, status = "running", Top.fn # "analyze"
  PROVE  FrameTree(Last(Front(stack)), TreesIn(tokens), tokens)
<1>1. /\ tokens \in Seq(Token) /\ pos \in 1 .. Len(tokens) /\ FramesGrow(stack, pos, tokens)
      /\ StackOK(stack) /\ Len(stack) \in Nat \ {0} /\ IsList(stack)
  BY Situation
<1>2. Len(Front(stack)) > 0
  BY Below
<1>3. PICK fr : /\ fr = Front(stack) /\ Len(fr) = Len(stack) - 1
                /\ \A i \in 1 .. Len(stack) - 1 : fr[i] = stack[i]
  <2>1. /\ Len(Front(stack)) = Len(stack) - 1
        /\ \A i \in 1 .. Len(stack) - 1 : Front(stack)[i] = stack[i]
    BY <1>1, ListFront
  <2>. QED
    BY <2>1, Zenon
<1>4. PICK m : m = Len(stack) - 1 /\ m \in 1 .. Len(stack) /\ fr[m] = stack[m]
  BY <1>1, <1>2, <1>3
<1>5. Last(fr) = fr[Len(fr)]
  BY Zenon DEF Last
<1>6. PICK h : h = 3 * Len(tokens)
  OBVIOUS
<1>7. FrameTree(stack[m], Trees[h], tokens)
  BY <1>1, <1>4, <1>6, FramesInside
<1>. QED
  BY <1>3, <1>4, <1>5, <1>6, <1>7, Zenon DEF TreesIn

\* It returns a list that says and has what it does.
LEMMA ReturnTree ==
  ASSUME ParserInv, ParserInv', TreesGrow, status = "running", status' = "running",
         tokens' = tokens, types' = types, Top.fn \in {"expression", "block"},
         NEW list, ReturnList(list), NodesOf(Top) = list,
         KeptFrom(tokens, pos, pos', <<>>), BracketPlace'
  PROVE  TreesGrow'
<1>1. /\ tokens \in Seq(Token) /\ pos \in 1 .. Len(tokens) /\ FramesGrow(stack, pos, tokens)
      /\ FrameOK(Top) /\ FrameTree(Top, TreesIn(tokens), tokens)
      /\ Levels(pos, Len(stack)) \in Nat \ {0} /\ Len(stack) \in Nat \ {0}
      /\ FrameTree(Top, Trees[Levels(pos, Len(stack))], tokens)
      /\ StackOK(stack) /\ IsList(stack)
  BY Situation
<1>2. PICK caller : caller = Last(Front(stack)) /\ FrameOK(caller) /\ MayCall(caller, Top)
  <2>1. Top.fn # "analyze"
    OBVIOUS
  <2>. QED
    BY <2>1, Below
<1>3. caller.fn # "expression" /\ caller.call.back = FALSE
  BY <1>2, Zenon DEF MayCall
<1>4. PICK g : GivenList(caller, list, g)
  BY Zenon DEF GivenList
<1>5. stack' = Append(Front(Front(stack)), g)
  BY <1>2, <1>4, Zenon DEF ReturnList, GivenList
<1>6. FrameTree(caller, TreesIn(tokens), tokens)
  BY <1>1, <1>2, CallerTree
<1>7. OwnWords(Top) = <<>> /\ list \in Seq(TreesIn(tokens)) /\ list \in Seq(Trees[Levels(pos, Len(stack))])
  <2>1. OwnWords(Top) = <<>>
    BY DEF OwnWords
  <2>2. NodesOf(Top) \in Seq(TreesIn(tokens)) /\ NodesOf(Top) \in Seq(Trees[Levels(pos, Len(stack))])
    BY <1>1, NodesType
  <2>. QED
    BY <2>1, <2>2
<1>8. /\ NodesOf(g) = Join(NodesOf(caller), NodesOf(Top)) /\ OwnWords(g) = OwnWords(caller)
  <2>1. Received(caller, list, g)
    BY <1>2, <1>3, <1>4, <1>6, <1>7, Receives
  <2>. QED
    BY <2>1, Zenon DEF Received
<1>9. g.fn = caller.fn /\ (caller.fn = "arguments" => g.node = caller.node)
  <2>1. SameFields(caller, g)
    BY <1>2, <1>3, <1>4, GivenFields
  <2>. QED
    BY <2>1 DEF SameFields
<1>10. TakesOver(caller, Top, g, tokens, types, types')
  <2>1. /\ Spoken(tokens, g) = Join(Spoken(tokens, caller), Spoken(tokens, Top))
        /\ Held(tokens, g) = Join(Held(tokens, caller), Held(tokens, Top))
    BY <1>1, <1>2, <1>6, <1>7, <1>8, ListPasses
  <2>2. Replaceable(tokens, Join(Held(tokens, caller), Held(tokens, Top)), types,
                    Join(Held(tokens, caller), Held(tokens, Top)), types)
    BY SameStructs
  <2>. QED
    BY <1>9, <2>1, <2>2, Zenon DEF TakesOver
<1>11. ASSUME NEW m, IsNext(m, Len(stack)), FrameTree(caller, Trees[Levels(pos, m)], tokens)
       PROVE  FrameTree(g, Trees[Levels(pos, m)], tokens)
  <2>1. Levels(pos, m) \in Nat /\ Levels(pos, Len(stack)) <= Levels(pos, m)
    BY <1>1, <1>11 DEF Levels, IsNext
  <2>2. Seq(Trees[Levels(pos, Len(stack))]) \subseteq Seq(Trees[Levels(pos, m)])
    BY <1>1, <2>1, TreesGrowOn
  <2>3. list \in Seq(Trees[Levels(pos, m)])
    BY <1>7, <2>2, Zenon
  <2>. QED
    BY <1>2, <1>3, <1>4, <1>11, <2>3, Receives
<1>12. Top.fn # "analyze" /\ Top.fn # "arguments"
  OBVIOUS
<1>. QED
  BY <1>2, <1>5, <1>10, <1>11, <1>12, Backwards

\* parse_expression returns its output and, behind it, what it holds, reversed.
LEMMA ExpressionEndsGrows ==
  ASSUME ParserInv, ParserInv', TreesGrow, ExpressionEnds PROVE TreesGrow'
<1>1. /\ status = "running" /\ Top.fn = "expression" /\ tokens' = tokens /\ types' = types
  BY DEF ExpressionEnds, In
<1>2. CASE Contains(Top.held, Open)
  <2>1. status' = "nullderef"
    BY <1>2, Zenon DEF ExpressionEnds
  <2>. QED
    BY <2>1, NoTree
<1>3. CASE ~Contains(Top.held, Open)
  <2>1. PICK list : /\ list = Top.out \o Reverse(Top.held)
                    /\ ReturnList(list) /\ status' = "running"
    BY <1>1, <1>3, Zenon DEF ExpressionEnds
  <2>2. NodesOf(Top) = list
    BY <1>1, <2>1, Zenon DEF NodesOf
  <2>3. pos \in Nat /\ BracketPlace
    BY <1>1, Situation
  <2>4. \/ tokens[pos] = ";" /\ pos' = pos + 1
        \/ tokens[pos] # "[" /\ pos' = pos
    <3>1. \/ tokens[pos] = ";" /\ pos' = pos + 1
          \/ tokens[pos] \in {EndOfFile, ",", "]", "{", "}", ":", ")"} /\ pos' = pos + 0
      BY DEF ExpressionEnds, Current, Advance
    <3>2. pos + 0 = pos
      <4>1. pos \in Nat
        BY <2>3, Zenon
      <4>. QED
        BY <4>1
    <3>3. \A t \in {EndOfFile, ",", "]", "{", "}", ":", ")"} : t # "["
      BY DEF EndOfFile
    <3>. QED
      BY <3>1, <3>2, <3>3, Zenon
  <2>5. KeptFrom(tokens, pos, pos', <<>>) /\ BracketPlace'
    <3>1. CASE tokens[pos] = ";" /\ pos' = pos + 1
      <4>1. tokens[pos] \in Punctuation /\ tokens[pos] # EndOfFile /\ tokens[pos] \notin Names
        BY <3>1, NoNames DEF Punctuation
      <4>2. KeptFrom(tokens, pos, pos', <<>>)
        BY <1>1, <3>1, <4>1, ReadsOne
      <4>3. pos' - 1 = pos
        <5>1. pos \in Nat /\ pos' = pos + 1
          BY <2>3, <3>1, Zenon
        <5>. QED
          BY <5>1
      <4>. QED
        BY <1>1, <4>1, <4>2, <4>3, BracketReads
    <3>2. CASE tokens[pos] # "[" /\ pos' = pos
      <4>1. KeptFrom(tokens, pos, pos', <<>>)
        BY <1>1, <3>2, ReadsNone
      <4>2. tokens[pos'] # "["
        BY <3>2
      <4>. QED
        BY <1>1, <4>1, <4>2, BracketReads
    <3>. QED
      BY <2>4, <3>1, <3>2
  <2>. QED
    BY <1>1, <2>1, <2>2, <2>5, ReturnTree
<1>. QED
  BY <1>2, <1>3

\* parse_block returns its nodes.
LEMMA BlockEndGrows ==
  ASSUME ParserInv, ParserInv', TreesGrow, BlockEnd PROVE TreesGrow'
<1>1. /\ status = "running" /\ Top.fn = "block" /\ tokens' = tokens /\ types' = types
      /\ pos' = pos /\ status' = "running" /\ Top.call.list = <<>> /\ ReturnList(Top.root)
  BY DEF BlockEnd, Resumes, In
<1>2. /\ pos \in Nat /\ BracketPlace /\ FrameTree(Top, TreesIn(tokens), tokens)
  BY <1>1, Situation
<1>3. Top.root \in Seq(TreesIn(tokens))
  BY <1>1, <1>2 DEF FrameTree, BlockTree
<1>4. NodesOf(Top) = Top.root
  <2>1. NodesOf(Top) = Join(Top.root, <<>>)
    BY <1>1, ListNodes
  <2>2. Join(Top.root, <<>>) = Top.root
    BY <1>3, Joining
  <2>. QED
    BY <2>1, <2>2, Zenon
<1>5. KeptFrom(tokens, pos, pos', <<>>)
  BY <1>1, ReadsNone
<1>6. BracketPlace'
  BY <1>1, <1>2, BracketStays
<1>. QED
  BY <1>1, <1>4, <1>5, <1>6, ReturnTree

-----------------------------------------------------------------------------
(* The steps that complete a node.                                         *)

\* The structs of a frame in front of what is held, and the struct that is
\* completed behind them.
NewStruct(own, names, names2) ==
  \A i \in 1 .. Len(own) :
    /\ NameOf(own[i]) \in names2
    /\ HasFields(own[i]) => NameOf(own[i]) \notin names \cup PrimitiveTypes
    /\ Len(own) = 1

\* The struct that is completed has a name that no struct had before it.
LEMMA OwnApart ==
  ASSUME NEW toks, NEW V, NEW own \in Seq(V), NEW names, NEW names2, NewStruct(own, names, names2),
         NEW s \in Seq(V), DeclaredIn(toks, s, names)
  PROVE  Apart(toks, s, own)
<1>1. ASSUME NEW i \in 1 .. Len(s), NEW j \in 1 .. Len(own)
      PROVE  Follows(toks, s[i], own[j])
  <2>1. NameOf(s[i]) \in names
    BY DEF DeclaredIn
  <2>2. HasFields(own[j]) => NameOf(own[j]) \notin names
    BY DEF NewStruct
  <2>. QED
    BY <2>1, <2>2 DEF Follows
<1>. QED
  BY <1>1, Zenon DEF Apart

\* It is a list of at most one struct, whose name is now a type.
LEMMA OwnDeclared ==
  ASSUME NEW toks, NEW V, NEW own \in Seq(V), NEW names, NEW names2, NewStruct(own, names, names2)
  PROVE  DeclaredIn(toks, own, names2)
<1>1. ASSUME NEW i \in 1 .. Len(own)
      PROVE  /\ NameOf(own[i]) \in names2
             /\ HasFields(own[i]) => NameOf(own[i]) \notin PrimitiveTypes
             /\ \A j \in i + 1 .. Len(own) : Follows(toks, own[i], own[j])
  <2>1. /\ NameOf(own[i]) \in names2 /\ Len(own) = 1
        /\ HasFields(own[i]) => NameOf(own[i]) \notin names \cup PrimitiveTypes
    BY DEF NewStruct
  <2>2. \A j \in i + 1 .. Len(own) : FALSE
    BY <2>1
  <2>. QED
    BY <2>1, <2>2
<1>. QED
  BY <1>1, Zenon DEF DeclaredIn

\* What is declared stays declared.
LEMMA NamesGrow ==
  ASSUME NEW toks, NEW s, NEW names, NEW names2, names \subseteq names2, DeclaredIn(toks, s, names)
  PROVE  DeclaredIn(toks, s, names2)
BY DEF DeclaredIn

\* Without an array literal r is empty and the struct comes last; with one, OneStructPerName
\* asks for no order.
LEMMA DeclaredInserted ==
  ASSUME NEW toks \in Seq(Token), NEW o \in Seq(TreesIn(toks)), NEW r \in Seq(TreesIn(toks)),
         NEW s \in Seq(TreesIn(toks)), NEW own \in Seq(TreesIn(toks)),
         NEW names, NEW names2, names \subseteq names2, NewStruct(own, names, names2),
         HasArrayIn(toks) \/ r = <<>>
  PROVE  Replaceable(toks, Join(Join(o, r), s), names, Join(o, Join(Join(s, own), r)), names2)
<1>1. PICK V : V = TreesIn(toks)
  OBVIOUS
<1>2. ASSUME NEW a \in Seq(V), DeclaredIn(toks, Join(a, Join(Join(o, r), s)), names)
      PROVE  DeclaredIn(toks, Join(a, Join(o, Join(Join(s, own), r))), names2)
  <2>1. /\ a \in Seq(V) /\ o \in Seq(V) /\ r \in Seq(V) /\ s \in Seq(V) /\ own \in Seq(V)
        /\ Join(o, r) \in Seq(V) /\ Join(s, own) \in Seq(V)
    BY <1>1, Joining
  <2>2. /\ Join(Join(o, r), s) \in Seq(V) /\ Join(Join(s, own), r) \in Seq(V)
        /\ Join(o, Join(Join(s, own), r)) \in Seq(V)
    <3>1. Join(Join(o, r), s) \in Seq(V) /\ Join(Join(s, own), r) \in Seq(V)
      BY <2>1, Joining
    <3>. QED
      BY <2>1, <3>1, Joining
  <2>3. /\ DeclaredIn(toks, a, names) /\ DeclaredIn(toks, Join(Join(o, r), s), names)
        /\ Apart(toks, a, Join(Join(o, r), s))
    BY <1>2, <2>1, <2>2, DeclaredParts
  <2>4. DeclaredIn(toks, Join(o, r), names) /\ DeclaredIn(toks, s, names) /\ Apart(toks, Join(o, r), s)
    BY <2>1, <2>3, DeclaredParts
  <2>5. DeclaredIn(toks, o, names) /\ DeclaredIn(toks, r, names)
    BY <2>1, <2>4, DeclaredParts
  <2>6. Apart(toks, a, Join(o, r)) /\ Apart(toks, a, s)
    BY <2>1, <2>3, ApartParts
  <2>7. Apart(toks, a, o) /\ Apart(toks, a, r)
    BY <2>1, <2>6, ApartParts
  <2>8. Apart(toks, o, s) /\ Apart(toks, r, s)
    BY <2>1, <2>4, ApartParts
  <2>9. Apart(toks, o, r)
    BY <2>1, <2>4, DeclaredParts
  <2>10. Apart(toks, a, own) /\ Apart(toks, o, own) /\ Apart(toks, s, own) /\ Apart(toks, r, own)
    BY <2>1, <2>3, <2>4, <2>5, OwnApart
  <2>11. Apart(toks, s, r) /\ Apart(toks, own, r)
    <3>1. CASE HasArrayIn(toks)
      BY <2>1, <2>8, <2>10, <3>1, DeclaredParts
    <3>2. CASE r = <<>>
      <4>1. \A x : Apart(toks, x, <<>>)
        BY DEF Apart
      <4>. QED
        BY <3>2, <4>1, Zenon
    <3>. QED
      BY <3>1, <3>2
  <2>12. /\ DeclaredIn(toks, a, names2) /\ DeclaredIn(toks, o, names2) /\ DeclaredIn(toks, r, names2)
         /\ DeclaredIn(toks, s, names2) /\ DeclaredIn(toks, own, names2)
    BY <2>1, <2>3, <2>4, <2>5, NamesGrow, OwnDeclared
  <2>13. DeclaredIn(toks, Join(s, own), names2)
    BY <2>1, <2>10, <2>12, DeclaredParts
  <2>14. Apart(toks, Join(s, own), r)
    BY <2>1, <2>11, ApartParts
  <2>15. DeclaredIn(toks, Join(Join(s, own), r), names2)
    BY <2>1, <2>12, <2>13, <2>14, DeclaredParts
  <2>16. Apart(toks, o, Join(s, own)) /\ Apart(toks, a, Join(s, own))
    BY <2>1, <2>6, <2>8, <2>10, ApartParts
  <2>17. Apart(toks, o, Join(Join(s, own), r)) /\ Apart(toks, a, Join(Join(s, own), r))
    BY <2>1, <2>7, <2>9, <2>16, ApartParts
  <2>18. DeclaredIn(toks, Join(o, Join(Join(s, own), r)), names2)
    BY <2>1, <2>2, <2>12, <2>15, <2>17, DeclaredParts
  <2>19. Apart(toks, a, Join(o, Join(Join(s, own), r)))
    BY <2>1, <2>2, <2>7, <2>17, ApartParts
  <2>. QED
    BY <2>1, <2>2, <2>12, <2>18, <2>19, DeclaredParts
<1>. QED
  BY <1>1, <1>2, Zenon DEF Replaceable

\* A node that is complete, one level above what is under it.
LEMMA CompletedNode ==
  ASSUME NEW f, FrameOK(f), f.fn \in {"arguments", "statement"}, f.call.back = FALSE,
         NEW n, NEW m, IsNext(n, m), NEW toks, FrameTree(f, Trees[n], toks)
  PROVE  f.node \in Trees[m]
<1>1. /\ f.node = [type |-> f.node.type, words |-> f.node.words, args |-> f.node.args, body |-> f.node.body]
      /\ f.node.words \in Seq(Token)
  <2>1. CASE f.fn = "arguments"
    BY <2>1, FrameKinds DEF ArgumentsOK, FrameTree, ArgumentsTree
  <2>2. CASE f.fn = "statement"
    BY <2>2, FrameKinds DEF StatementOK, IsNode
  <2>. QED
    BY <2>1, <2>2
<1>2. f.node.args \in Seq(Trees[n]) /\ f.node.body \in Seq(Trees[n]) /\ f.node.type \in NodeTypes
  <2>1. CASE f.fn = "arguments"
    <3>1. <<>> \in Seq(Trees[n])
      OBVIOUS
    <3>. QED
      BY <2>1, <3>1 DEF FrameTree, ArgumentsTree, NodeTypes
  <2>2. CASE f.fn = "statement"
    BY <2>2 DEF FrameTree, StatementTree, NodeTypes
  <2>. QED
    BY <2>1, <2>2
<1>3. f.node \in NodesOver(Trees[n])
  BY <1>1, <1>2 DEF NodesOver
<1>4. n \in Nat /\ m = n + 1
  BY DEF IsNext
<1>. QED
  BY <1>3, <1>4, TreesDefined, Zenon

\* A frame that is about to complete its node.
CompleteIn(f, toks) ==
  /\ f.fn \in {"arguments", "statement"} /\ f.call.back = FALSE
  /\ FrameTree(f, TreesIn(toks), toks) /\ f.node \in TreesIn(toks)
  /\ HasArrayIn(toks) \/ f.node.type # "ARRAY"

SaysNode(f, node, toks) ==
  /\ Wording(toks, One(node)) = Spoken(toks, f)
  /\ Structure(toks, One(node)) = Join(Held(toks, f), Own(node))
  /\ Held(toks, f) \in Seq(TreesIn(toks)) /\ Own(node) \in Seq(TreesIn(toks))

\* What its frame has said of it.
LEMMA CompletedSays ==
  ASSUME NEW toks \in Seq(Token), NEW f, CompleteIn(f, toks)
  PROVE  SaysNode(f, f.node, toks)
<1>0. /\ f.fn \in {"arguments", "statement"} /\ f.call.back = FALSE
      /\ FrameTree(f, TreesIn(toks), toks) /\ f.node \in TreesIn(toks)
  BY DEF CompleteIn
<1>1. PICK T : T = TreesIn(toks)
  OBVIOUS
<1>2. PICK a, b, words : a = f.node.args /\ b = f.node.body /\ words = f.node.words
  OBVIOUS
<1>3. a \in Seq(T) /\ b \in Seq(T) /\ f.call.list = <<>>
  <2>1. CASE f.fn = "arguments"
    <3>1. <<>> \in Seq(T)
      OBVIOUS
    <3>. QED
      BY <1>0, <1>1, <1>2, <2>1, <3>1 DEF FrameTree, ArgumentsTree, ListTree
  <2>2. CASE f.fn = "statement"
    BY <1>0, <1>1, <1>2, <2>2 DEF FrameTree, StatementTree, ListTree
  <2>. QED
    BY <1>0, <2>1, <2>2
<1>4. NodesOf(f) = Join(a, b) /\ OwnWords(f) = words
  <2>1. CASE f.fn = "arguments"
    <3>1. b = <<>>
      BY <1>0, <1>2, <2>1 DEF FrameTree, ArgumentsTree
    <3>. QED
      BY <1>2, <1>3, <2>1, <3>1, ListNodes, Zenon
  <2>2. CASE f.fn = "statement"
    <3>1. NodesOf(f) = Join(Join(a, b), <<>>) /\ OwnWords(f) = words
      BY <1>2, <1>3, <2>2, ListNodes, Zenon
    <3>2. Join(a, b) \in Seq(T)
      BY <1>3, Joining
    <3>3. Join(Join(a, b), <<>>) = Join(a, b)
      BY <3>2, Joining
    <3>. QED
      BY <3>1, <3>3, Zenon
  <2>. QED
    BY <1>0, <2>1, <2>2
<1>5. Spoken(toks, f) = Join(words, Wording(toks, Join(a, b))) /\ Held(toks, f) = Structure(toks, Join(a, b))
  BY <1>4, FrameWords, Zenon
<1>6. /\ Wording(toks, Join(a, b)) = Join(Wording(toks, a), Wording(toks, b))
      /\ Structure(toks, Join(a, b)) = Join(Structure(toks, a), Structure(toks, b))
      /\ Wording(toks, Join(a, b)) \in Seq(Token) /\ Structure(toks, Join(a, b)) \in Seq(T)
  <2>1. Join(a, b) \in Seq(T)
    BY <1>3, Joining
  <2>. QED
    BY <1>1, <1>3, <2>1, ListsJoin
<1>7. /\ One(f.node) \in Seq(T) /\ Own(f.node) \in Seq(T) /\ words \in Seq(Token)
      /\ Wording(toks, One(f.node)) = Join(words, Join(Wording(toks, a), Wording(toks, b)))
      /\ Structure(toks, One(f.node)) = Join(Join(Structure(toks, a), Structure(toks, b)), Own(f.node))
  BY <1>0, <1>1, <1>2, NodeSays, Zenon DEF Wording, Structure
<1>. QED
  BY <1>1, <1>5, <1>6, <1>7, Zenon DEF SaysNode

\* What Complete makes of the expression below.
GivenNode(c, node, g) ==
  g = IF node.type = "ARRAY" THEN [c EXCEPT !.held = Append(@, node)]
                             ELSE [c EXCEPT !.out = Append(@, node)]

NodeAdded(c, node, g) ==
  /\ g.fn = "expression"
  /\ IF node.type = "ARRAY" THEN g.out = c.out /\ g.held = Append(c.held, node)
                            ELSE g.out = Append(c.out, node) /\ g.held = c.held

\* The fields of an expression that is given a node.
LEMMA CompletesFields ==
  ASSUME NEW c, ExpressionOK(c), NEW node, NEW g, GivenNode(c, node, g)
  PROVE  NodeAdded(c, node, g)
<1>1. c = [fn |-> "expression", out |-> c.out, held |-> c.held, balance |-> c.balance]
  BY DEF ExpressionOK
<1>2. CASE node.type = "ARRAY"
  <2>1. g = [c EXCEPT !.held = Append(c.held, node)]
    BY <1>2 DEF GivenNode
  <2>. QED
    BY <1>1, <1>2, <2>1 DEF NodeAdded
<1>3. CASE node.type # "ARRAY"
  <2>1. g = [c EXCEPT !.out = Append(c.out, node)]
    BY <1>3 DEF GivenNode
  <2>. QED
    BY <1>1, <1>3, <2>1 DEF NodeAdded
<1>. QED
  BY <1>2, <1>3

\* A node more, in front of what is held when it is an array.
LEMMA AddsTree ==
  ASSUME NEW c, c.fn = "expression", NEW S, NEW toks, FrameTree(c, S, toks),
         NEW node \in S, HasArrayIn(toks) \/ node.type # "ARRAY", NEW g, NodeAdded(c, node, g)
  PROVE  FrameTree(g, S, toks)
<1>1. /\ c.out \in Seq(S) /\ c.held \in Seq(S)
      /\ HasArrayIn(toks) \/ \A k \in 1 .. Len(c.held) : c.held[k] = Open
  BY DEF FrameTree, ExpressionTree
<1>2. CASE node.type = "ARRAY"
  <2>1. g.fn = "expression" /\ g.out = c.out /\ g.held = Append(c.held, node)
    BY <1>2, Zenon DEF NodeAdded
  <2>2. Append(c.held, node) \in Seq(S)
    BY <1>1
  <2>3. ExpressionTree(g, S, toks)
    BY <1>1, <1>2, <2>1, <2>2, Zenon DEF ExpressionTree
  <2>. QED
    BY <2>1, <2>3 DEF FrameTree
<1>3. CASE node.type # "ARRAY"
  <2>1. g.fn = "expression" /\ g.out = Append(c.out, node) /\ g.held = c.held
    BY <1>3, Zenon DEF NodeAdded
  <2>2. Append(c.out, node) \in Seq(S)
    BY <1>1
  <2>3. ExpressionTree(g, S, toks)
    BY <1>1, <2>1, <2>2, Zenon DEF ExpressionTree
  <2>. QED
    BY <2>1, <2>3 DEF FrameTree
<1>. QED
  BY <1>2, <1>3

\* The node comes behind the output, or in front of what was held.
LEMMA AddsSays ==
  ASSUME NEW toks \in Seq(Token), NEW c, c.fn = "expression", FrameTree(c, TreesIn(toks), toks),
         NEW node \in TreesIn(toks), HasArrayIn(toks) \/ node.type # "ARRAY",
         NEW g, NodeAdded(c, node, g)
  PROVE  /\ HasArrayIn(toks) \/ Spoken(toks, g) = Join(Spoken(toks, c), Wording(toks, One(node)))
         /\ Held(toks, g) = Join(Structure(toks, c.out),
                                 Join(Structure(toks, One(node)), Structure(toks, Back(c.held))))
<1>1. /\ c.out \in Seq(TreesIn(toks)) /\ Back(c.held) \in Seq(TreesIn(toks)) /\ c.held \in Seq(TreesIn(toks))
      /\ Spoken(toks, c) = Join(Wording(toks, c.out), Wording(toks, Back(c.held)))
      /\ HasArrayIn(toks) \/ Wording(toks, Back(c.held)) = <<>>
  BY ExpressionSays
<1>2. FrameTree(g, TreesIn(toks), toks)
  BY AddsTree
<1>3. /\ Spoken(toks, g) = Join(Wording(toks, g.out), Wording(toks, Back(g.held)))
      /\ Held(toks, g) = Join(Structure(toks, g.out), Structure(toks, Back(g.held)))
  <2>1. g.fn = "expression"
    BY Zenon DEF NodeAdded
  <2>. QED
    BY <1>2, <2>1, ExpressionSays
<1>4. /\ One(node) \in Seq(TreesIn(toks))
      /\ Append(c.out, node) = Join(c.out, One(node))
      /\ Back(Append(c.held, node)) = Join(One(node), Back(c.held))
  BY <1>1, BackAppend
<1>5. /\ Wording(toks, Join(c.out, One(node))) = Join(Wording(toks, c.out), Wording(toks, One(node)))
      /\ Structure(toks, Join(c.out, One(node))) = Join(Structure(toks, c.out), Structure(toks, One(node)))
      /\ Structure(toks, Join(One(node), Back(c.held))) = Join(Structure(toks, One(node)), Structure(toks, Back(c.held)))
      /\ Wording(toks, c.out) \in Seq(Token) /\ Wording(toks, One(node)) \in Seq(Token)
      /\ Structure(toks, c.out) \in Seq(TreesIn(toks)) /\ Structure(toks, One(node)) \in Seq(TreesIn(toks))
      /\ Structure(toks, Back(c.held)) \in Seq(TreesIn(toks))
  BY <1>1, <1>4, ListsJoin
<1>6. CASE node.type = "ARRAY"
  <2>1. g.out = c.out /\ Back(g.held) = Join(One(node), Back(c.held))
    BY <1>4, <1>6, Zenon DEF NodeAdded
  <2>. QED
    BY <1>3, <1>5, <1>6, <2>1, Zenon
<1>7. CASE node.type # "ARRAY"
  <2>1. g.out = Join(c.out, One(node)) /\ g.held = c.held
    BY <1>4, <1>7, Zenon DEF NodeAdded
  <2>2. Held(toks, g) = Join(Join(Structure(toks, c.out), Structure(toks, One(node))), Structure(toks, Back(c.held)))
    BY <1>3, <1>5, <2>1, Zenon
  <2>3. Join(Join(Structure(toks, c.out), Structure(toks, One(node))), Structure(toks, Back(c.held)))
          = Join(Structure(toks, c.out), Join(Structure(toks, One(node)), Structure(toks, Back(c.held))))
    BY <1>5, Joining
  <2>4. Spoken(toks, g) = Join(Join(Wording(toks, c.out), Wording(toks, One(node))), Wording(toks, Back(c.held)))
    BY <1>3, <1>5, <2>1, Zenon
  <2>5. /\ Join(Wording(toks, c.out), <<>>) = Wording(toks, c.out)
        /\ Join(Join(Wording(toks, c.out), Wording(toks, One(node))), <<>>)
             = Join(Wording(toks, c.out), Wording(toks, One(node)))
    <3>1. Join(Wording(toks, c.out), Wording(toks, One(node))) \in Seq(Token)
      BY <1>5, Joining
    <3>. QED
      BY <1>5, <3>1, Joining
  <2>6. HasArrayIn(toks) \/ Spoken(toks, g) = Join(Spoken(toks, c), Wording(toks, One(node)))
    BY <1>1, <2>4, <2>5, Zenon
  <2>. QED
    BY <2>2, <2>3, <2>6, Zenon
<1>. QED
  BY <1>6, <1>7

\* The expression below takes the node.
LEMMA NodeTaken ==
  ASSUME NEW toks \in Seq(Token), NEW c, c.fn = "expression", FrameTree(c, TreesIn(toks), toks),
         NEW f, CompleteIn(f, toks), NEW node, node = f.node, NEW g, NodeAdded(c, node, g),
         NEW names, NEW names2, names \subseteq names2, NewStruct(Own(node), names, names2)
  PROVE  TakesOver(c, f, g, toks, names, names2)
<1>1. node \in TreesIn(toks) /\ (HasArrayIn(toks) \/ node.type # "ARRAY")
  BY DEF CompleteIn
<1>2. /\ HasArrayIn(toks) \/ Spoken(toks, g) = Join(Spoken(toks, c), Wording(toks, One(node)))
      /\ Held(toks, g) = Join(Structure(toks, c.out),
                              Join(Structure(toks, One(node)), Structure(toks, Back(c.held))))
  BY <1>1, AddsSays
<1>3. /\ Wording(toks, One(node)) = Spoken(toks, f)
      /\ Structure(toks, One(node)) = Join(Held(toks, f), Own(node))
      /\ Held(toks, f) \in Seq(TreesIn(toks)) /\ Own(node) \in Seq(TreesIn(toks))
  <2>1. SaysNode(f, f.node, toks)
    BY CompletedSays
  <2>. QED
    BY <2>1, Zenon DEF SaysNode
<1>4. /\ c.out \in Seq(TreesIn(toks)) /\ Back(c.held) \in Seq(TreesIn(toks))
      /\ Held(toks, c) = Join(Structure(toks, c.out), Structure(toks, Back(c.held)))
      /\ HasArrayIn(toks) \/ Structure(toks, Back(c.held)) = <<>>
  BY ExpressionSays
<1>5. Structure(toks, c.out) \in Seq(TreesIn(toks)) /\ Structure(toks, Back(c.held)) \in Seq(TreesIn(toks))
  BY <1>4, ListsJoin
<1>6. Replaceable(toks, Join(Join(Structure(toks, c.out), Structure(toks, Back(c.held))), Held(toks, f)), names,
                  Join(Structure(toks, c.out), Join(Join(Held(toks, f), Own(node)), Structure(toks, Back(c.held)))), names2)
  BY <1>3, <1>4, <1>5, DeclaredInserted
<1>7. Replaceable(toks, Join(Held(toks, c), Held(toks, f)), names, Held(toks, g), names2)
  BY <1>2, <1>3, <1>4, <1>6, Zenon
<1>8. HasArrayIn(toks) \/ Spoken(toks, g) = Join(Spoken(toks, c), Spoken(toks, f))
  BY <1>2, <1>3, Zenon
<1>9. g.fn = c.fn /\ c.fn # "arguments"
  BY DEF NodeAdded
<1>. QED
  BY <1>7, <1>8, <1>9, Zenon DEF TakesOver

\* parse_arguments or parse_statement completes its node: its words and structs, and the
\* node's own, are those of the node.
LEMMA CompleteTree ==
  ASSUME ParserInv, ParserInv', TreesGrow, status = "running", status' = "running",
         tokens' = tokens, Top.fn \in {"arguments", "statement"}, Top.call.back = FALSE,
         Complete(Top.node), types \subseteq types', NewStruct(Own(Top.node), types, types'),
         KeptFrom(tokens, pos, pos', <<>>), BracketPlace'
  PROVE  TreesGrow'
<1>1. /\ tokens \in Seq(Token) /\ pos \in 1 .. Len(tokens) /\ FramesGrow(stack, pos, tokens)
      /\ FrameOK(Top) /\ FrameTree(Top, TreesIn(tokens), tokens)
      /\ Levels(pos, Len(stack)) \in Nat \ {0} /\ Len(stack) \in Nat \ {0}
      /\ FrameTree(Top, Trees[Levels(pos, Len(stack))], tokens)
      /\ StackOK(stack) /\ IsList(stack)
  BY Situation
<1>2. PICK caller : caller = Last(Front(stack)) /\ FrameOK(caller) /\ MayCall(caller, Top)
  <2>1. Top.fn # "analyze"
    OBVIOUS
  <2>. QED
    BY <2>1, Below
<1>3. caller.fn = "expression" /\ ExpressionOK(caller)
  BY <1>2, FrameKinds DEF MayCall
<1>4. PICK node : node = Top.node
  OBVIOUS
<1>5. PICK g : GivenNode(caller, node, g) /\ stack' = Append(Front(Front(stack)), g)
  BY <1>2, <1>4, Zenon DEF Complete, GivenNode
<1>6. node.type # "OBJECT_INIT"
  BY <1>4 DEF Complete
<1>7. FrameTree(caller, TreesIn(tokens), tokens)
  BY <1>1, <1>2, CallerTree
<1>8. NodeAdded(caller, node, g)
  BY <1>3, <1>5, CompletesFields
<1>9. PICK m : IsNext(Levels(pos, Len(stack)), m) /\ m <= 3 * Len(tokens) /\ m \in Nat
  <2>1. Levels(pos, Len(stack)) + 1 <= 3 * Len(tokens) /\ Levels(pos, Len(stack)) \in Nat
    BY <1>1 DEF Levels
  <2>2. IsNext(Levels(pos, Len(stack)), Levels(pos, Len(stack)) + 1)
    BY <2>1 DEF IsNext
  <2>. QED
    BY <2>1, <2>2
<1>10. node \in Trees[m]
  BY <1>1, <1>4, <1>9, CompletedNode
<1>11. node \in TreesIn(tokens)
  <2>1. Trees[m] \subseteq Trees[3 * Len(tokens)]
    BY <1>1, <1>9, TreesGrowOn
  <2>. QED
    BY <1>10, <2>1 DEF TreesIn
<1>12. HasArrayIn(tokens) \/ node.type # "ARRAY"
  <2>1. CASE Top.fn = "arguments"
    BY <1>1, <1>4, <2>1 DEF FrameTree, ArgumentsTree
  <2>2. CASE Top.fn = "statement"
    BY <1>1, <1>4, <2>2 DEF FrameTree, StatementTree
  <2>. QED
    BY <2>1, <2>2
<1>13. TakesOver(caller, Top, g, tokens, types, types')
  <2>1. CompleteIn(Top, tokens)
    BY <1>1, <1>4, <1>11, <1>12, Zenon DEF CompleteIn
  <2>2. NewStruct(Own(node), types, types')
    BY <1>4, Zenon
  <2>. QED
    BY <1>1, <1>3, <1>4, <1>7, <1>8, <2>1, <2>2, NodeTaken
<1>14. ASSUME NEW k, IsNext(k, Len(stack)), FrameTree(caller, Trees[Levels(pos, k)], tokens)
       PROVE  FrameTree(g, Trees[Levels(pos, k)], tokens)
  <2>1. Levels(pos, k) = m
    BY <1>1, <1>9, <1>14 DEF Levels, IsNext
  <2>2. node \in Trees[Levels(pos, k)]
    BY <1>10, <2>1, Zenon
  <2>. QED
    BY <1>3, <1>8, <1>12, <1>14, <2>2, AddsTree
<1>15. Top.fn # "analyze" /\ (Top.fn = "arguments" => Top.node.type # "OBJECT_INIT")
  BY <1>4, <1>6
<1>. QED
  BY <1>2, <1>5, <1>13, <1>14, <1>15, Backwards

\* parse_arguments reaches its end.
LEMMA ArgumentsEndGrows ==
  ASSUME ParserInv, ParserInv', TreesGrow, ArgumentsEnd PROVE TreesGrow'
<1>1. /\ Calls("arguments") /\ tokens' = tokens /\ types' = types /\ Complete(Top.node)
      /\ tokens[pos] = Top.end /\ pos' = pos + 1
  BY DEF ArgumentsEnd, Consume, Current, Advance
<1>2. status = "running" /\ Top.fn = "arguments" /\ Top.call.back = FALSE /\ FrameOK(Top)
  BY <1>1, Ready
<1>3. CASE Top.node.type = "OBJECT_INIT"
  <2>1. status' = "exit"
    BY <1>1, <1>3, Zenon DEF Complete
  <2>. QED
    BY <2>1, NoTree
<1>4. CASE Top.node.type # "OBJECT_INIT"
  <2>1. status' = "running"
    BY <1>1, <1>4, Zenon DEF Complete
  <2>2. /\ tokens \in Seq(Token) /\ pos \in Nat /\ FrameTree(Top, TreesIn(tokens), tokens)
        /\ Top.end \in Closing
    <3>1. ArgumentsOK(Top) /\ tokens \in Seq(Token) /\ pos \in Nat /\ FrameTree(Top, TreesIn(tokens), tokens)
      BY <1>2, Situation, FrameKinds
    <3>2. Top.end \in Closing
      BY <3>1, Zenon DEF ArgumentsOK
    <3>. QED
      BY <3>1, <3>2
  <2>3. tokens[pos] \in Punctuation /\ tokens[pos] # EndOfFile /\ tokens[pos] \notin Names
    BY <1>1, <2>2, NoNames DEF Punctuation, Closing
  <2>4. KeptFrom(tokens, pos, pos', <<>>)
    BY <1>1, <1>2, <2>3, ReadsOne
  <2>5. pos' - 1 = pos
    <3>1. pos \in Nat /\ pos' = pos + 1
      BY <1>1, <2>2, Zenon
    <3>. QED
      BY <3>1
  <2>6. BracketPlace'
    BY <1>1, <2>3, <2>5, BracketReads
  <2>7. Own(Top.node) = <<>>
    <3>1. Top.node.type # "KEYWORD"
      BY <1>2, <2>2 DEF FrameTree, ArgumentsTree
    <3>. QED
      BY <3>1, Zenon DEF Own, IsStruct
  <2>8. NewStruct(Own(Top.node), types, types') /\ types \subseteq types'
    <3>1. \A names, names2 : NewStruct(<<>>, names, names2)
      BY DEF NewStruct
    <3>. QED
      BY <1>1, <2>7, <3>1
  <2>. QED
    BY <1>1, <1>2, <2>1, <2>4, <2>6, <2>8, CompleteTree
<1>. QED
  BY <1>3, <1>4

\* parse_statement reaches the end of its declaration; the name of a struct becomes a type.
LEMMA StatementEndGrows ==
  ASSUME ParserInv, ParserInv', TreesGrow, StatementEnd PROVE TreesGrow'
<1>1. /\ Calls("statement") /\ tokens' = tokens /\ pos' = pos /\ Top.parts = <<>>
  BY DEF StatementEnd
<1>2. status = "running" /\ Top.fn = "statement" /\ Top.call.back = FALSE /\ FrameOK(Top)
  BY <1>1, Ready
<1>3. PICK node, name, isStruct, fields :
        /\ node = Top.node /\ name = Last(node.words)
        /\ isStruct = (node.words[1] = StructKeyword)
        /\ fields = {i \in DOMAIN node.body : node.body[i].type = "DECL_VARIABLE"}
  OBVIOUS
<1>4. IF isStruct /\ name \in types /\ fields # {}
        THEN status' = "nullderef" /\ UNCHANGED <<stack, types>>
        ELSE types' = (IF isStruct THEN types \cup {name} ELSE types) /\ Complete(node)
  BY <1>3, Zenon DEF StatementEnd
<1>5. CASE isStruct /\ name \in types /\ fields # {}
  <2>1. status' = "nullderef"
    BY <1>4, <1>5
  <2>. QED
    BY <2>1, NoTree
<1>6. CASE ~(isStruct /\ name \in types /\ fields # {})
  <2>1. types' = (IF isStruct THEN types \cup {name} ELSE types) /\ Complete(node)
    BY <1>4, <1>6
  <2>2. /\ tokens \in Seq(Token) /\ FrameTree(Top, TreesIn(tokens), tokens) /\ BracketPlace
    BY <1>2, Situation
  <2>3. node.type \in {"KEYWORD", "DECL_FUNCTION"}
    BY <1>2, <1>3, <2>2 DEF FrameTree, StatementTree
  <2>4. status' = "running"
    BY <2>1, <2>3 DEF Complete
  <2>5. KeptFrom(tokens, pos, pos', <<>>)
    BY <1>1, <1>2, ReadsNone
  <2>6. BracketPlace'
    BY <1>1, <2>2, BracketStays
  <2>7. PrimitiveTypes \subseteq types
    BY <1>2, Running DEF Types
  <2>8. HasFields(node) => fields # {}
    BY <1>3 DEF HasFields
  <2>9. NameOf(node) = name
    BY <1>3, Zenon DEF NameOf
  <2>10. NewStruct(Own(node), types, types')
    <3>1. CASE IsStruct(node)
      <4>1. isStruct /\ Own(node) = <<node>>
        BY <1>3, <3>1, Zenon DEF IsStruct, Own
      <4>2. name \in types'
        BY <2>1, <4>1
      <4>3. HasFields(node) => name \notin types \cup PrimitiveTypes
        BY <1>6, <2>7, <2>8, <4>1
      <4>4. PICK own : own = <<node>> /\ Len(own) = 1 /\ own[1] = node
        <5>1. Len(<<node>>) = 1 /\ <<node>>[1] = node
          OBVIOUS
        <5>. QED
          BY <5>1, Zenon
      <4>5. \A i \in 1 .. Len(own) : own[i] = node
        BY <4>4
      <4>6. NewStruct(own, types, types')
        BY <2>9, <4>2, <4>3, <4>4, <4>5, Zenon DEF NewStruct
      <4>. QED
        BY <4>1, <4>4, <4>6, Zenon
    <3>2. CASE ~IsStruct(node)
      <4>1. Own(node) = <<>>
        BY <3>2, Zenon DEF Own
      <4>2. \A names, names2 : NewStruct(<<>>, names, names2)
        BY DEF NewStruct
      <4>. QED
        BY <4>1, <4>2, Zenon
    <3>. QED
      BY <3>1, <3>2
  <2>11. types \subseteq types'
    BY <2>1
  <2>12. Complete(Top.node) /\ NewStruct(Own(Top.node), types, types')
    BY <1>3, <2>1, <2>10, Zenon
  <2>. QED
    BY <1>1, <1>2, <2>4, <2>5, <2>6, <2>11, <2>12, CompleteTree
<1>. QED
  BY <1>5, <1>6

-----------------------------------------------------------------------------
(* The tree that parser_analyze returns.                                   *)

\* The properties of a tree, with the operators of the invariant.
LEMMA DoneTree ==
  ASSUME tokens' = tokens, tokens \in Seq(Token), NEW root, tree' = root, NEW names,
         HasArrayIn(tokens) \/ KeptUpTo(tokens, Len(tokens)) = Wording(tokens, root),
         Structure(tokens, root) \in Seq(TreesIn(tokens)),
         DeclaredIn(tokens, Structure(tokens, root), names)
  PROVE  KeepsEveryWord' /\ OneStructPerName'
<1>1. /\ Each(Words(Height), tree)' = Wording(tokens, root)
      /\ Each(Structs(Height), tree)' = Structure(tokens, root)
  BY Zenon DEF Height, Wording, Structure, WordsIn, StructsIn
<1>2. HasArray' <=> HasArrayIn(tokens)
  BY Zenon DEF HasArray, HasArrayIn
<1>3. FlattenSeq([i \in DOMAIN tokens |-> Kept(tokens[i])])' = KeptUpTo(tokens, Len(tokens))
  <2>1. DOMAIN tokens = 1 .. Len(tokens)
    OBVIOUS
  <2>. QED
    BY <2>1, Zenon DEF KeptUpTo
<1>4. KeepsEveryWord'
  BY <1>1, <1>2, <1>3, Zenon DEF KeepsEveryWord
<1>5. OneStructPerName'
  <2>1. PICK structs : structs = Structure(tokens, root) /\ DOMAIN structs = 1 .. Len(structs)
    <3>1. DOMAIN Structure(tokens, root) = 1 .. Len(Structure(tokens, root))
      OBVIOUS
    <3>. QED
      BY <3>1, Zenon
  <2>2. \A i \in DOMAIN structs :
          /\ HasFields(structs[i]) => NameOf(structs[i]) \notin PrimitiveTypes
          /\ \A j \in i + 1 .. Len(structs) : MayFollow(structs[i], structs[j])'
    <3>1. \A a, b : Follows(tokens, a, b) => MayFollow(a, b)'
      BY <1>2, Zenon DEF Follows, MayFollow
    <3>. QED
      BY <2>1, <3>1, Zenon DEF DeclaredIn
  <2>. QED
    BY <1>1, <2>1, <2>2, Zenon DEF OneStructPerName
<1>. QED
  BY <1>4, <1>5

\* What a stack of one frame says and has.
LEMMA OneFrame ==
  ASSUME NEW toks \in Seq(Token), NEW p \in 1 .. Len(toks), NEW calls, StackOK(calls),
         FramesGrow(calls, p, toks), Len(calls) = 1
  PROVE  /\ SaidUpTo(WordsIn(toks), calls, Len(calls)) = Spoken(toks, Frame(calls, 1))
         /\ HadUpTo(StructsIn(toks), calls, Len(calls)) = Held(toks, Frame(calls, 1))
<1>1. PICK n, m : n = 0 /\ m = 1 /\ IsNext(n, m) /\ m = Len(calls)
  <2>1. IsNext(0, 1)
    BY DEF IsNext
  <2>. QED
    BY <2>1, Zenon
<1>2. Above(calls, n, toks, Says(WordsIn(toks), Frame(calls, m)), Has(StructsIn(toks), Frame(calls, m)))
  BY <1>1, OneAbove
<1>3. PICK said, had : /\ said = Spoken(toks, Frame(calls, 1)) /\ had = Held(toks, Frame(calls, 1))
                       /\ Above(calls, n, toks, said, had)
  BY <1>1, <1>2, Zenon DEF Spoken, Held
<1>4. SaidUpTo(WordsIn(toks), calls, n) = <<>> /\ HadUpTo(StructsIn(toks), calls, n) = <<>>
  <2>1. PICK r : r = [i \in 1 .. 0 |-> Says(WordsIn(toks), calls[i])]
    OBVIOUS
  <2>2. PICK t : t = [i \in 1 .. 0 |-> Has(StructsIn(toks), calls[i])]
    OBVIOUS
  <2>3. [i \in 1 .. 0 |-> r[i]] = r /\ [i \in 1 .. 0 |-> t[i]] = t
    BY <2>1, <2>2
  <2>4. FlattenSeq([i \in 1 .. 0 |-> r[i]]) = <<>> /\ FlattenSeq([i \in 1 .. 0 |-> t[i]]) = <<>>
    BY NoRows
  <2>. QED
    BY <1>1, <2>1, <2>2, <2>3, <2>4, Zenon DEF SaidUpTo, HadUpTo
<1>5. /\ SaidUpTo(WordsIn(toks), calls, Len(calls)) = Join(<<>>, said)
      /\ HadUpTo(StructsIn(toks), calls, Len(calls)) = Join(<<>>, had)
      /\ said \in Seq(Token) /\ had \in Seq(TreesIn(toks))
  BY <1>3, <1>4, Zenon DEF Above
<1>6. Join(<<>>, said) = said /\ Join(<<>>, had) = had
  BY <1>5, Joining
<1>. QED
  BY <1>3, <1>5, <1>6, Zenon

\* parser_analyze returns.
LEMMA AnalyzeReturns ==
  ASSUME ParserInv, ParserInv', TreesGrow, AnalyzeResume, tokens[pos] = EndOfFile PROVE TreesGrow'
<1>1. /\ status = "running" /\ Top.fn = "analyze" /\ tokens' = tokens /\ types' = types
  BY DEF AnalyzeResume, Resumes, In
<1>2. PICK root : root = Top.root \o Top.call.list /\ tree' = root /\ status' = "done"
  BY Zenon DEF AnalyzeResume, Current
<1>3. /\ tokens \in Seq(Token) /\ pos \in 1 .. Len(tokens) /\ Len(tokens) \in Nat /\ FramesGrow(stack, pos, tokens)
      /\ StackOK(stack) /\ Len(stack) \in Nat \ {0} /\ Top = Frame(stack, Len(stack))
      /\ Top = stack[Len(stack)]
      /\ FrameOK(Top) /\ FrameTree(Top, TreesIn(tokens), tokens)
      /\ Grows(stack, pos, tokens, types)
  BY <1>1, Situation
<1>4. pos = Len(tokens) /\ Types
  BY <1>1, <1>3, Running, Listed
<1>5. Len(stack) = 1
  <2>1. ASSUME Len(stack) > 1
        PROVE  FALSE
    <3>1. MayCall(stack[Len(stack) - 1], stack[Len(stack)])
      BY <1>3, <2>1 DEF StackOK
    <3>. QED
      BY <1>1, <1>3, <3>1 DEF MayCall
  <2>2. PICK n \in Nat \ {0} : n = Len(stack)
    BY <1>3
  <2>3. ~(n > 1)
    BY <2>1, <2>2, Zenon
  <2>4. n = 1
    BY <2>2, <2>3
  <2>. QED
    BY <2>2, <2>4, Zenon
<1>6. /\ SaidUpTo(WordsIn(tokens), stack, Len(stack)) = Spoken(tokens, Top)
      /\ HadUpTo(StructsIn(tokens), stack, Len(stack)) = Held(tokens, Top)
  <2>1. Top = Frame(stack, 1)
    BY <1>3, <1>5, Zenon
  <2>. QED
    BY <1>3, <1>5, <2>1, OneFrame, Zenon
<1>7. /\ Spoken(tokens, Top) = Wording(tokens, root) /\ Held(tokens, Top) = Structure(tokens, root)
      /\ Structure(tokens, root) \in Seq(TreesIn(tokens))
  <2>1. PICK x : x = NodesOf(Top) /\ x = root
    <3>1. Top.fn # "expression" /\ Top.fn # "arguments" /\ Top.fn # "statement"
      BY <1>1
    <3>. QED
      BY <1>2, <3>1, Zenon DEF NodesOf
  <2>2. OwnWords(Top) = <<>>
    BY <1>1 DEF OwnWords
  <2>3. Spoken(tokens, Top) = Join(OwnWords(Top), Wording(tokens, NodesOf(Top)))
        /\ Held(tokens, Top) = Structure(tokens, NodesOf(Top))
    BY <1>3, FrameWords
  <2>4. NodesOf(Top) \in Seq(TreesIn(tokens))
    BY <1>3, NodesType
  <2>5. PICK said : said = Wording(tokens, NodesOf(Top)) /\ said \in Seq(Token)
                    /\ Structure(tokens, NodesOf(Top)) \in Seq(TreesIn(tokens))
    BY <1>3, <2>4, ListsJoin
  <2>6. Join(<<>>, said) = said
    BY <2>5, Joining
  <2>. QED
    BY <2>1, <2>2, <2>3, <2>5, <2>6, Zenon
<1>8. ~Objects(stack)
  BY <1>1, <1>3, <1>5 DEF Objects
<1>9. HasArrayIn(tokens) \/ KeptUpTo(tokens, pos - 1) = Wording(tokens, root)
  BY <1>3, <1>6, <1>7, <1>8, Zenon DEF Grows, WordsGrow
<1>10. KeptUpTo(tokens, Len(tokens)) = KeptUpTo(tokens, pos - 1)
  <2>1. PICK q : q = pos + 1 /\ q - 1 = pos /\ pos <= Len(tokens)
    BY <1>3
  <2>2. KeptFrom(tokens, pos, pos, <<>>)
    BY <1>3, KeptNothing
  <2>3. KeptFrom(tokens, pos, q, <<>>)
    BY <1>3, <2>1, <2>2, KeptMore
  <2>4. KeptUpTo(tokens, q - 1) = Join(KeptUpTo(tokens, pos - 1), <<>>)
    BY <2>3, Zenon DEF KeptFrom
  <2>5. KeptUpTo(tokens, pos - 1) \in Seq(Token)
    <3>1. PICK n \in Nat : n = pos - 1 /\ n < Len(tokens)
      BY <1>3
    <3>2. KeptUpTo(tokens, n) \in Seq(Token)
      BY <1>3, <3>1, KeptNext
    <3>. QED
      BY <3>1, <3>2, Zenon
  <2>6. Join(KeptUpTo(tokens, pos - 1), <<>>) = KeptUpTo(tokens, pos - 1)
    BY <2>5, Joining
  <2>. QED
    BY <1>4, <2>1, <2>4, <2>6, Zenon
<1>11. DeclaredIn(tokens, Structure(tokens, root), types)
  BY <1>3, <1>6, <1>7, Zenon DEF Grows, StructsGrow
<1>12. KeepsEveryWord' /\ OneStructPerName'
  BY <1>1, <1>2, <1>3, <1>7, <1>9, <1>10, <1>11, DoneTree, Zenon
<1>. QED
  BY <1>2, <1>12 DEF TreesGrow

-----------------------------------------------------------------------------
(* Every call.                                                             *)

\* parser_analyze starts with no nodes and no types but the primitive ones.
LEMMA TreesGrowFirst == Init => TreesGrow
<1>. SUFFICES ASSUME Init
              PROVE  TreesGrow
  OBVIOUS
<1>1. /\ tokens \in Inputs /\ pos = 1 /\ stack = <<Analyze>> /\ status = "running"
      /\ types = PrimitiveTypes
  BY DEF Init
<1>2. tokens \in Seq(Token)
  BY <1>1, InputsAssumption
<1>3. PICK f : f = Analyze /\ f.fn = "analyze" /\ f.root = <<>> /\ f.call.list = <<>>
  <2>1. Analyze.fn = "analyze" /\ Analyze.root = <<>> /\ Analyze.call.list = <<>>
    BY DEF Analyze, Waiting
  <2>. QED
    BY <2>1, Zenon
<1>4. PICK calls : calls = stack /\ Len(calls) = 1 /\ calls[1] = f /\ Last(calls) = f
  <2>1. Len(<<f>>) = 1 /\ <<f>>[1] = f /\ Last(<<f>>) = f
    BY DEF Last
  <2>. QED
    BY <1>1, <1>3, <2>1, Zenon
<1>5. <<>> \o <<>> = <<>>
  OBVIOUS
<1>6. ASSUME NEW S
      PROVE  FrameTree(f, S, tokens)
  <2>1. <<>> \in Seq(S)
    OBVIOUS
  <2>. QED
    BY <1>3, <2>1 DEF FrameTree, AnalyzeTree, ListTree
<1>7. FramesGrow(calls, 1, tokens)
  <2>1. \A i \in 1 .. 1 : i = 1
    OBVIOUS
  <2>2. 1 + Room(f.fn) <= 3 * 1
    BY <1>3 DEF Room
  <2>. QED
    BY <1>4, <1>6, <2>1, <2>2, Zenon DEF FramesGrow
<1>8. Spoken(tokens, f) = <<>> /\ Held(tokens, f) = <<>>
  <2>1. NodesOf(f) = <<>>
    <3>1. f.fn # "expression" /\ f.fn # "arguments" /\ f.fn # "statement"
      BY <1>3
    <3>. QED
      BY <1>3, <1>5, <3>1, Zenon DEF NodesOf
  <2>2. OwnWords(f) = <<>> /\ <<>> \in Seq(Token)
    BY <1>3 DEF OwnWords
  <2>3. Spoken(tokens, f) = Join(<<>>, OwnWords(f)) /\ Held(tokens, f) = <<>>
    BY <1>2, <2>1, <2>2, NewSays
  <2>4. Join(<<>>, <<>>) = <<>>
    BY <1>5, Zenon DEF Join
  <2>. QED
    BY <2>2, <2>3, <2>4, Zenon
<1>9. Grows(calls, 1, tokens, types)
  <2>1. StackOK(calls)
    BY <1>1, <1>4, InitHolds DEF ParserInv
  <2>2. tokens # <<>> /\ 1 \in 1 .. Len(tokens)
    <3>1. tokens # <<>>
      BY <1>1, InputsAssumption
    <3>. QED
      BY <1>2, <3>1
  <2>3. /\ SaidUpTo(WordsIn(tokens), calls, Len(calls)) = <<>>
        /\ HadUpTo(StructsIn(tokens), calls, Len(calls)) = <<>>
    <3>1. Frame(calls, 1) = f
      BY <1>4, Zenon DEF Frame
    <3>2. /\ SaidUpTo(WordsIn(tokens), calls, Len(calls)) = Spoken(tokens, Frame(calls, 1))
          /\ HadUpTo(StructsIn(tokens), calls, Len(calls)) = Held(tokens, Frame(calls, 1))
      BY <1>2, <1>4, <1>7, <2>1, <2>2, OneFrame
    <3>. QED
      BY <1>8, <3>1, <3>2, Zenon
  <2>4. KeptUpTo(tokens, 0) = <<>>
    <3>1. PICK r : r = [i \in 1 .. 0 |-> Kept(tokens[i])]
      OBVIOUS
    <3>2. [i \in 1 .. 0 |-> r[i]] = r
      BY <3>1
    <3>3. FlattenSeq([i \in 1 .. 0 |-> r[i]]) = <<>>
      BY NoRows
    <3>. QED
      BY <3>1, <3>2, <3>3, Zenon DEF KeptUpTo
  <2>5. WordsGrow(calls, 1, tokens)
    <3>1. 1 - 1 = 0
      OBVIOUS
    <3>. QED
      BY <2>3, <2>4, <3>1, Zenon DEF WordsGrow
  <2>6. StructsGrow(calls, tokens, types)
    <3>1. \A names : DeclaredIn(tokens, <<>>, names)
      BY DEF DeclaredIn
    <3>. QED
      BY <2>3, <3>1, Zenon DEF StructsGrow
  <2>. QED
    BY <1>7, <2>5, <2>6, Zenon DEF Grows
<1>10. BracketPlace
  BY <1>1 DEF BracketPlace
<1>11. KeepsEveryWord /\ OneStructPerName
  BY <1>1 DEF KeepsEveryWord, OneStructPerName
<1>. QED
  BY <1>1, <1>4, <1>9, <1>10, <1>11, Zenon DEF TreesGrow

\* parser_analyze takes the list of the expression it has called, or returns.
LEMMA AnalyzeResumeGrows ==
  ASSUME ParserInv, ParserInv', TreesGrow, AnalyzeResume PROVE TreesGrow'
<1>1. CASE tokens[pos] # EndOfFile
  BY <1>1, AnalyzeGoesOn
<1>2. CASE tokens[pos] = EndOfFile
  BY <1>2, AnalyzeReturns
<1>. QED
  BY <1>1, <1>2

\* Without a step nothing changes.
LEMMA TreesStay ==
  ASSUME TreesGrow, UNCHANGED vars PROVE TreesGrow'
<1>1. /\ tokens' = tokens /\ pos' = pos /\ stack' = stack /\ types' = types /\ tree' = tree /\ status' = status
  BY DEF vars
<1>2. (BracketPlace' <=> BracketPlace) /\ Grows(stack, pos, tokens, types)' = Grows(stack, pos, tokens, types)
  BY <1>1, Zenon DEF BracketPlace, Top
<1>3. (KeepsEveryWord' <=> KeepsEveryWord) /\ (OneStructPerName' <=> OneStructPerName)
  BY <1>1, Zenon DEF KeepsEveryWord, OneStructPerName, HasArray, Height, MayFollow
<1>. QED
  BY <1>1, <1>2, <1>3, Zenon DEF TreesGrow

\* Each step keeps the invariant.
LEMMA TreesGrowNext == ParserInv /\ TreesGrow /\ [Next]_vars => TreesGrow'
<1>. SUFFICES ASSUME ParserInv, TreesGrow, [Next]_vars
              PROVE  TreesGrow'
  OBVIOUS
<1>1. ParserInv'
  BY NextHolds
<1>2. CASE UNCHANGED vars
  BY <1>2, TreesStay
<1>3. CASE Next
  BY <1>1, <1>2, <1>3, TreesStay, ExpressionEndsGrows, ReadConstantGrows, ReadIdentifierGrows, ReadCallGrows,
     UnknownTypeGrows, ReadVariableGrows, ReadArrayVariableGrows, ReadFunctionGrows,
     ReadObjectGrows, ReadKeywordGrows, ReadArrayGrows, ReadOpenGrows, ReadCloseGrows,
     ArgumentsCallGrows, ArgumentsResumeGrows, ArgumentsEndGrows, PartTokenGrows,
     PartIdentifierGrows, PartCallGrows, PartResumeGrows, StatementEndGrows, BlockCallGrows,
     BlockFirstGrows, BlockNextGrows, BlockEndGrows, AnalyzeCallGrows, AnalyzeResumeGrows,
     Zenon DEF Next, Over
<1>. QED
  BY <1>2, <1>3

\* The inductive invariant: the nodes the calls of parser.c have built so far,
\* frame by frame from parser_analyze up, say the words that have been consumed in
\* their order, have the structs that have been declared in theirs, and are trees of
\* as many levels as tokens allow.
THEOREM TreesGrowing == Spec => []TreesGrow
BY InitHolds, NextHolds, TreesGrowFirst, TreesGrowNext, PTL DEF Spec

\* In the tree parser_analyze returns for a text without array literals is every name,
\* constant and keyword of the text, once and in the order of the text: of what
\* parse_expression, parse_arguments, parse_stmt_declaration and parse_block hand to
\* each other nothing is lost, repeated or moved.
THEOREM WordsKept == Spec => []KeepsEveryWord
<1>1. TreesGrow => KeepsEveryWord
  BY DEF TreesGrow
<1>. QED
  BY <1>1, TreesGrowing, PTL

\* In the tree parser_analyze returns the fields of a type come from one struct: of
\* two of one name only the first has fields, because dgen_struct_init_node has no type
\* to add those of the second to; behind an array literal, which the holding
\* stack may move, at most one of the two.  No primitive type has fields.
THEOREM StructsOnce == Spec => []OneStructPerName
<1>1. TreesGrow => OneStructPerName
  BY DEF TreesGrow
<1>. QED
  BY <1>1, TreesGrowing, PTL

=============================================================================
