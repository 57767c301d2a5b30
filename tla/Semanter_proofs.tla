---------------------------- MODULE Semanter_proofs ----------------------------
(***************************************************************************)
(* Theorems about the validator and the scopes it works on, for every      *)
(* program.                                                                *)
(***************************************************************************)

EXTENDS Semanter, SequenceLemmas, FiniteSetTheorems

-----------------------------------------------------------------------------
(* The inductive invariant.                                                *)

\* The scopes on the walk are a chain of parents, each created after the one
\* outside of it.
Chain ==
  /\ walk[1].scope = 1
  /\ \A k \in 2 .. Len(walk) : scopes[walk[k].scope].parent = walk[k - 1].scope
  /\ \A j, k \in DOMAIN walk : j < k => walk[j].scope < walk[k].scope

\* The construct a search has got to, counted from the outermost.
Depth == Len(walk) - Len(search.saved)

\* A search climbs the walk: it has saved the scopes it has left, and is in the
\* scope of the next construct outside of them.
Climbing ==
  /\ search.phase = "idle" => search.saved = <<>>
  /\ Len(search.saved) < Len(walk)
  /\ \A i \in 1 .. Len(search.saved) : search.saved[i] = walk[Len(walk) + 1 - i].scope
  /\ current = walk[Depth].scope

\* What the answer of a search says about the constructs the walk is in.
Nearest ==
  IF Missing THEN \A k \in DOMAIN walk : ~Declares(k, search.name)
  ELSE \E k \in DOMAIN walk :
         /\ search.symbol \in ToSet(scopes[walk[k].scope].symbols)
         /\ search.symbol.name = search.name
         /\ \A j \in k + 1 .. Len(walk) : ~Declares(j, search.name)

\* A search is made for the node the walk is at: for the name of a declaration
\* before it is added, for the name that is used, and in expressions for the left
\* side of a member access only.
Pending ==
  search.phase # "idle" =>
    /\ status = "running" /\ Top.rest # <<>>
    /\ Here.type \in {"DECL_VARIABLE", "DECL_FUNCTION"} => search.name = Here.name
    /\ Here.type \in {"IDENTIFIER", "FUNCTION_CALL"} => search.name = IdOf(Here)
    /\ Here.type = "EXPRESSION" => Here.name = "." /\ search.name = IdOf(Here.operands[1])

\* The scopes a search has left do not declare the name; what it hands back is
\* the nearest declaration.
Searching ==
  /\ search.phase = "down" =>
       /\ search.symbol = NoSymbol
       /\ \A k \in Depth + 1 .. Len(walk) : ~Declares(k, search.name)
  /\ search.phase = "up" => Nearest

\* Every scope but the first is a child of its parent, of nothing else and only
\* once; the lists are shorter than the list of all scopes.
Owned ==
  /\ \A s \in 2 .. Len(scopes) : \E i \in DOMAIN scopes[scopes[s].parent].childs :
       scopes[scopes[s].parent].childs[i] = s
  /\ \A p, q \in DOMAIN scopes :
       \A i \in DOMAIN scopes[p].childs, j \in DOMAIN scopes[q].childs :
         scopes[p].childs[i] = scopes[q].childs[j] => p = q /\ i = j
  /\ \A p \in DOMAIN scopes : Len(scopes[p].childs) < Len(scopes)

SemInv ==
  /\ program \in Programs /\ TypeOK
  /\ Pending /\ Chain /\ Climbing /\ Searching /\ NoShadowing /\ Owned

-----------------------------------------------------------------------------
(* What entering a scope and adding a symbol do to the scopes.             *)

\* A scope with children among the scopes of a set.
ScopeOver(childs) == [parent : Nat, symbols : Seq(Symbols), childs : Seq(childs)]

\* Everything TypeOK says of the scopes and the current one.
ScopesType(scs) ==
  /\ scs \in Seq(ScopeOver(DOMAIN scs))
  /\ \A s \in DOMAIN scs : scs[s].parent \in 0 .. s - 1 /\ (scs[s].parent = 0 <=> s = 1)

\* Parents, symbols and children of a list with one more scope inside the scope at.
LEMMA WithScopeProperties ==
  ASSUME NEW scs, ScopesType(scs), NEW at \in DOMAIN scs
  PROVE  /\ ScopesType(WithScope(scs, at))
         /\ Len(WithScope(scs, at)) = Len(scs) + 1
         /\ \A s \in 1 .. Len(scs) :
              /\ WithScope(scs, at)[s].parent = scs[s].parent
              /\ WithScope(scs, at)[s].symbols = scs[s].symbols
              /\ WithScope(scs, at)[s].childs =
                   IF s = at THEN <<Len(scs) + 1>> \o scs[s].childs ELSE scs[s].childs
         /\ WithScope(scs, at)[Len(scs) + 1] = NewScope(at)
<1>. DEFINE n == Len(scs)
            old == [scs EXCEPT ![at].childs = <<n + 1>> \o @]
            All == ScopeOver(1 .. n + 1)
<1>1. n \in Nat /\ DOMAIN scs = 1 .. n /\ at \in 1 .. n
      /\ \A s \in 1 .. n : scs[s] \in ScopeOver(1 .. n)
  BY DEF ScopesType
<1>2. \A s \in 1 .. n : scs[s].childs \in Seq(1 .. n + 1)
  <2>1. \A s \in 1 .. n : scs[s].childs \in Seq(1 .. n)
    BY <1>1 DEF ScopeOver
  <2>2. 1 .. n \subseteq 1 .. n + 1
    BY <1>1
  <2>. QED
    BY <2>1, <2>2, SeqMonotonic
<1>3. <<n + 1>> \o scs[at].childs \in Seq(1 .. n + 1)
  BY <1>1, <1>2, ConcatProperties
<1>4. \A s \in 1 .. n : scs[s] \in All
  BY <1>1, <1>2 DEF ScopeOver
<1>5. scs \in Seq(All)
  BY <1>1, <1>4 DEF ScopesType
<1>6. [scs[at] EXCEPT !.childs = <<n + 1>> \o @] \in All
  BY <1>1, <1>3, <1>4 DEF ScopeOver
<1>7. /\ old \in Seq(All) /\ Len(old) = n
      /\ \A s \in 1 .. n : old[s] = IF s = at THEN [scs[at] EXCEPT !.childs = <<n + 1>> \o @] ELSE scs[s]
  BY <1>1, <1>5, <1>6, ExceptSeq
<1>8. NewScope(at) \in All
  BY <1>1 DEF NewScope, ScopeOver
<1>. HIDE DEF old
<1>9. /\ WithScope(scs, at) \in Seq(All)
      /\ Len(WithScope(scs, at)) = n + 1
      /\ \A s \in 1 .. n : WithScope(scs, at)[s] = old[s]
      /\ WithScope(scs, at)[n + 1] = NewScope(at)
  BY <1>7, <1>8, AppendProperties DEF WithScope, old
<1>10. \A s \in 1 .. n : /\ old[s].parent = scs[s].parent /\ old[s].symbols = scs[s].symbols
                         /\ old[s].childs = IF s = at THEN <<n + 1>> \o scs[s].childs ELSE scs[s].childs
  BY <1>1, <1>7 DEF ScopeOver
<1>11. ScopesType(WithScope(scs, at))
  <2>1. DOMAIN WithScope(scs, at) = 1 .. n + 1
    BY <1>1, <1>9
  <2>2. ASSUME NEW s \in 1 .. n + 1
        PROVE  WithScope(scs, at)[s].parent \in 0 .. s - 1
                 /\ (WithScope(scs, at)[s].parent = 0 <=> s = 1)
    <3>1. CASE s = n + 1
      <4>1. WithScope(scs, at)[s].parent = at
        BY <1>9, <3>1 DEF NewScope
      <4>. QED
        BY <1>1, <3>1, <4>1
    <3>2. CASE s \in 1 .. n
      <4>1. WithScope(scs, at)[s].parent = scs[s].parent
        BY <1>9, <1>10, <3>2
      <4>. QED
        BY <1>1, <3>2, <4>1 DEF ScopesType
    <3>. QED
      BY <1>1, <3>1, <3>2
  <2>. QED
    BY <1>9, <2>1, <2>2 DEF ScopesType
<1>. QED
  BY <1>9, <1>10, <1>11

\* A symbol is in front of the symbols of its scope; nothing else changes.
LEMMA WithSymbolProperties ==
  ASSUME NEW scs, ScopesType(scs), NEW at \in DOMAIN scs, NEW symbol \in Symbols
  PROVE  /\ ScopesType(WithSymbol(scs, at, symbol))
         /\ Len(WithSymbol(scs, at, symbol)) = Len(scs)
         /\ \A s \in 1 .. Len(scs) :
              /\ WithSymbol(scs, at, symbol)[s].parent = scs[s].parent
              /\ WithSymbol(scs, at, symbol)[s].childs = scs[s].childs
              /\ WithSymbol(scs, at, symbol)[s].symbols =
                   IF s = at THEN <<symbol>> \o scs[s].symbols ELSE scs[s].symbols
<1>. DEFINE n == Len(scs)
            All == ScopeOver(1 .. n)
            new == WithSymbol(scs, at, symbol)
<1>1. n \in Nat /\ DOMAIN scs = 1 .. n /\ at \in 1 .. n /\ scs \in Seq(All)
      /\ \A s \in 1 .. n : scs[s] \in All
  BY DEF ScopesType
<1>2. <<symbol>> \o scs[at].symbols \in Seq(Symbols)
  BY <1>1, ConcatProperties DEF ScopeOver
<1>3. [scs[at] EXCEPT !.symbols = <<symbol>> \o @] \in All
  BY <1>1, <1>2 DEF ScopeOver
<1>4. /\ new \in Seq(All) /\ Len(new) = n
      /\ \A s \in 1 .. n : new[s] = IF s = at THEN [scs[at] EXCEPT !.symbols = <<symbol>> \o @] ELSE scs[s]
  BY <1>1, <1>3, ExceptSeq DEF WithSymbol
<1>. HIDE DEF new
<1>5. \A s \in 1 .. n : /\ new[s].parent = scs[s].parent /\ new[s].childs = scs[s].childs
                        /\ new[s].symbols = IF s = at THEN <<symbol>> \o scs[s].symbols ELSE scs[s].symbols
  BY <1>1, <1>4 DEF ScopeOver
<1>6. ScopesType(new)
  <2>1. DOMAIN new = 1 .. n
    BY <1>4
  <2>2. new \in Seq(ScopeOver(DOMAIN new))
    BY <1>4, <2>1
  <2>3. \A s \in 1 .. n : scs[s].parent \in 0 .. s - 1 /\ (scs[s].parent = 0 <=> s = 1)
    BY <1>1 DEF ScopesType
  <2>. QED
    BY <1>5, <2>1, <2>2, <2>3 DEF ScopesType
<1>. QED
  BY <1>5, <1>4, <1>6 DEF new

-----------------------------------------------------------------------------
(* Type correctness.                                                       *)

Frames == [scope : DOMAIN scopes, rest : Seq(Visited)]

\* TypeOK in the terms of the lemmas.
LEMMA Types ==
  ASSUME TypeOK
  PROVE  /\ ScopesType(scopes) /\ DOMAIN scopes = 1 .. Len(scopes) /\ Len(scopes) \in Nat \ {0}
         /\ current \in 1 .. Len(scopes)
         /\ walk \in Seq(Frames) /\ walk # <<>> /\ Len(walk) \in Nat \ {0}
         /\ Top = walk[Len(walk)] /\ Top \in Frames /\ Top.rest \in Seq(Visited)
<1>1. ScopesType(scopes)
  BY DEF TypeOK, ScopesType, ScopeOver
<1>2. scopes \in Seq(ScopeOver(DOMAIN scopes)) /\ current \in DOMAIN scopes
  BY <1>1 DEF ScopesType, TypeOK
<1>3. DOMAIN scopes = 1 .. Len(scopes) /\ Len(scopes) \in Nat \ {0}
  BY <1>2, EmptySeq
<1>4. walk \in Seq(Frames) /\ walk # <<>>
  BY DEF TypeOK, Frames
<1>5. Len(walk) \in Nat \ {0} /\ Top = walk[Len(walk)] /\ Top \in Frames
  BY <1>4, FrontLast DEF Top
<1>6. Top.rest \in Seq(Visited)
  BY <1>5 DEF Frames
<1>. QED
  BY <1>1, <1>2, <1>3, <1>4, <1>5, <1>6

\* A node is known by its name, by the struct it declares or not at all.
LEMMA IdOfType ==
  ASSUME NEW n, n.name \in STRING, n.info \in STRING
  PROVE  IdOf(n) \in Names
<1>1. IdOf(n) \in {n.name, n.info, ""}
  BY DEF IdOf
<1>. QED
  BY <1>1 DEF Names

\* The nodes of the programs are nodes a walk may come to.
LEMMA NodesVisited ==
  /\ Nodes \subseteq Visited
  /\ \A p \in Programs : p.root \in Visited
<1>1. ASSUME NEW n, IsNodeOver(Nodes, n), n.type # "MEMBER"
      PROVE  n \in Visited
  BY <1>1 DEF IsNodeOver, Visited
<1>2. \A p \in Programs : IsNodeOver(Nodes, p.root) /\ p.root.type # "MEMBER"
  BY ProgramsAssumption
<1>. QED
  BY <1>1, <1>2, NodesAssumption

\* What the walk is at, and the nodes in it.
LEMMA HereProperties ==
  ASSUME TypeOK, Top.rest # <<>>
  PROVE  /\ Here \in Visited /\ Here.name \in STRING /\ Here.info \in STRING
         /\ IdOf(Here) \in Names
         /\ Here.operands \in Seq(Nodes) /\ Here.operands \in Seq(Visited)
         /\ Here.args \o Here.body \in Seq(Visited)
         /\ Here.body \in Seq(Visited)
<1>1. Top.rest \in Seq(Visited)
  BY Types
<1>2. Here \in Visited
  BY <1>1, HeadTailProperties DEF Here
<1>3. /\ Here.name \in STRING /\ Here.info \in STRING
      /\ Here.operands \in Seq(Nodes) /\ Here.args \in Seq(Nodes) /\ Here.body \in Seq(Nodes)
  BY <1>2 DEF Visited
<1>. HIDE DEF Here
<1>4. Here.operands \in Seq(Visited) /\ Here.args \in Seq(Visited) /\ Here.body \in Seq(Visited)
  BY <1>3, NodesVisited, SeqMonotonic
<1>5. Here.args \o Here.body \in Seq(Visited)
  BY <1>4, ConcatProperties
<1>. QED
  BY <1>2, <1>3, <1>4, <1>5, IdOfType

\* Going on with other nodes leaves the constructs as they are.
LEMMA AfterProperties ==
  ASSUME TypeOK, Top.rest # <<>>, NEW nodes \in Seq(Visited)
  PROVE  /\ After(nodes) \in Seq(Frames) /\ After(nodes) # <<>>
         /\ Len(After(nodes)) = Len(walk)
         /\ \A k \in 1 .. Len(walk) : After(nodes)[k].scope = walk[k].scope
         /\ \A k \in 1 .. Len(walk) - 1 : After(nodes)[k] = walk[k]
         /\ After(nodes)[Len(walk)].rest = nodes \o Tail(Top.rest)
<1>1. walk \in Seq(Frames) /\ walk # <<>> /\ Top.rest \in Seq(Visited)
  BY Types
<1>2. /\ Front(walk) \in Seq(Frames) /\ Top \in Frames /\ Len(walk) \in Nat \ {0}
      /\ Len(Front(walk)) = Len(walk) - 1 /\ Top = walk[Len(walk)]
      /\ \A k \in 1 .. Len(walk) - 1 : Front(walk)[k] = walk[k]
  BY <1>1, FrontLast DEF Top
<1>3. nodes \o Tail(Top.rest) \in Seq(Visited)
  <2>1. Tail(Top.rest) \in Seq(Visited)
    BY <1>1, HeadTailProperties
  <2>. QED
    BY <2>1, ConcatProperties
<1>. DEFINE rest == nodes \o Tail(Top.rest)
            new == [Top EXCEPT !.rest = rest]
<1>4. rest \in Seq(Visited)
  BY <1>3
<1>5. After(nodes) = Append(Front(walk), new)
  BY DEF After
<1>. HIDE DEF rest
<1>6. new \in Frames /\ new.scope = walk[Len(walk)].scope /\ new.rest = rest
  BY <1>2, <1>4 DEF Frames
<1>. HIDE DEF new
<1>7. /\ Append(Front(walk), new) \in Seq(Frames)
      /\ Append(Front(walk), new) # <<>>
      /\ Len(Append(Front(walk), new)) = Len(walk)
      /\ \A k \in 1 .. Len(walk) - 1 : Append(Front(walk), new)[k] = Front(walk)[k]
      /\ Append(Front(walk), new)[Len(walk)] = new
  BY <1>2, <1>6, AppendProperties
<1>8. \A k \in 1 .. Len(walk) : Append(Front(walk), new)[k].scope = walk[k].scope
  BY <1>2, <1>6, <1>7
<1>. QED
  BY <1>2, <1>5, <1>6, <1>7, <1>8 DEF rest

\* Entering a scope puts a frame for it on the walk.
LEMMA EnterProperties ==
  ASSUME TypeOK, Top.rest # <<>>, NEW scs, ScopesType(scs), Len(scs) = Len(scopes),
         NEW nodes \in Seq(Visited), Enter(scs, nodes)
  PROVE  /\ ScopesType(scopes') /\ Len(scopes') = Len(scopes) + 1
         /\ scopes' = WithScope(scs, current) /\ current' = Len(scopes) + 1
         /\ walk' \in Seq([scope : DOMAIN scopes', rest : Seq(Visited)]) /\ walk' # <<>>
         /\ Len(walk') = Len(walk) + 1
         /\ \A k \in 1 .. Len(walk) : walk'[k].scope = walk[k].scope
         /\ walk'[Len(walk) + 1].scope = Len(scopes) + 1
<1>1. Len(scopes) \in Nat /\ DOMAIN scopes = 1 .. Len(scopes) /\ DOMAIN scs = 1 .. Len(scopes)
  BY Types DEF ScopesType
<1>2. /\ ScopesType(scopes') /\ Len(scopes') = Len(scopes) + 1
      /\ scopes' = WithScope(scs, current) /\ current' = Len(scopes) + 1
  <2>1. current \in DOMAIN scs
    BY <1>1, Types
  <2>2. /\ ScopesType(WithScope(scs, current))
        /\ Len(WithScope(scs, current)) = Len(scs) + 1
    BY <2>1, WithScopeProperties
  <2>3. scopes' = WithScope(scs, current) /\ current' = Len(scs) + 1
    BY DEF Enter
  <2>. QED
    BY <2>2, <2>3 DEF ScopesType
<1>3. DOMAIN scopes' = 1 .. Len(scopes) + 1
  BY <1>1, <1>2 DEF ScopesType
<1>. DEFINE All == [scope : DOMAIN scopes', rest : Seq(Visited)]
            new == Frame(Len(scopes) + 1, nodes)
            rest == After(<<>>)
<1>4. new \in All /\ new.scope = Len(scopes) + 1
  BY <1>1, <1>3 DEF Frame
<1>5. walk' = Append(rest, new)
  BY DEF Enter
<1>6. /\ rest \in Seq(Frames) /\ Len(rest) = Len(walk)
      /\ \A k \in 1 .. Len(walk) : rest[k].scope = walk[k].scope
  BY AfterProperties, EmptySeq
<1>7. Frames \subseteq All
  BY <1>1, <1>3 DEF Frames
<1>. HIDE DEF rest, All, new
<1>8. rest \in Seq(All)
  BY <1>6, <1>7, SeqMonotonic
<1>9. /\ walk' \in Seq(All) /\ walk' # <<>> /\ Len(walk') = Len(rest) + 1
      /\ \A k \in 1 .. Len(rest) : walk'[k] = rest[k]
      /\ walk'[Len(rest) + 1] = new
  BY <1>4, <1>5, <1>8, AppendProperties
<1>. QED
  BY <1>2, <1>4, <1>6, <1>9 DEF All

\* What TypeOK says of a search.
Searches ==
  [phase : {"idle", "down", "up"}, name : Names,
   symbol : Symbols \cup {NoSymbol}, saved : Seq(DOMAIN scopes)]

\* TypeOK after a step that leaves the scopes as they are.
LEMMA SameScopesType ==
  ASSUME TypeOK, scopes' = scopes, current' \in DOMAIN scopes, search' \in Searches,
         walk' \in Seq(Frames), walk' # <<>>, status' \in {"running", "done", "exit"}
  PROVE  TypeOK'
BY DEF TypeOK, Searches, Frames

-----------------------------------------------------------------------------
(* What the steps do, in few kinds.                                        *)

\* The constructs and their scopes are what they were, and no search is made.
Stays ==
  /\ UNCHANGED <<scopes, current>>
  /\ Len(walk') = Len(walk) /\ \A k \in 1 .. Len(walk) : walk'[k].scope = walk[k].scope
  /\ search.saved = <<>> /\ search'.phase = "idle" /\ search'.saved = <<>>

\* A search starts.
Asks ==
  /\ UNCHANGED <<scopes, current, walk>>
  /\ search.saved = <<>>
  /\ search'.phase = "down" /\ search'.saved = <<>> /\ search'.symbol = NoSymbol

\* The scopes with a symbol more in the current one, or without.
Extended(scs) ==
  \/ scs = scopes
  \/ /\ search.phase = "up" /\ Missing
     /\ \E symbol \in Symbols : /\ symbol.name = search.name
                              /\ scs = WithSymbol(scopes, current, symbol)

\* A variable has been declared.
Adds ==
  /\ Extended(scopes') /\ ScopesType(scopes') /\ current' = current
  /\ Len(walk') = Len(walk) /\ \A k \in 1 .. Len(walk) : walk'[k].scope = walk[k].scope
  /\ search.saved = <<>> /\ search'.phase = "idle" /\ search'.saved = <<>>

\* A construct has been entered, after a declaration if it is a function.
Enters ==
  /\ \E scs : /\ Extended(scs) /\ ScopesType(scs) /\ Len(scs) = Len(scopes)
             /\ scopes' = WithScope(scs, current)
  /\ Len(scopes') = Len(scopes) + 1
  /\ current' = Len(scopes) + 1
  /\ Len(walk') = Len(walk) + 1 /\ \A k \in 1 .. Len(walk) : walk'[k].scope = walk[k].scope
  /\ walk'[Len(walk) + 1].scope = Len(scopes) + 1
  /\ search.saved = <<>> /\ search'.phase = "idle" /\ search'.saved = <<>>

\* The validator goes on with other nodes, or gives up.
LEMMA GoesOn ==
  ASSUME TypeOK, Top.rest # <<>>, NEW nodes \in Seq(Visited),
         UNCHANGED <<scopes, current>>,
         search' \in Searches, search.saved = <<>>, search'.phase = "idle", search'.saved = <<>>,
         (walk' = After(nodes) /\ UNCHANGED status) \/ Error
  PROVE  TypeOK' /\ Stays
<1>1. /\ walk' \in Seq(Frames) /\ walk' # <<>>
      /\ Len(walk') = Len(walk) /\ \A k \in 1 .. Len(walk) : walk'[k].scope = walk[k].scope
  BY AfterProperties, Types DEF Error
<1>2. status' \in {"running", "done", "exit"}
  BY DEF TypeOK, Error
<1>3. current' \in DOMAIN scopes /\ scopes' = scopes
  BY DEF TypeOK
<1>. QED
  BY <1>1, <1>2, <1>3, SameScopesType DEF Stays

\* No search is made.
LEMMA IdleType ==
  Idle \in Searches /\ Idle.phase = "idle" /\ Idle.saved = <<>> /\ Idle.symbol = NoSymbol
<1>1. PICK none : none = "" /\ none \in Names
  BY Zenon DEF Names
<1>2. Idle = [phase |-> "idle", name |-> none, symbol |-> NoSymbol, saved |-> <<>>]
  BY <1>1, Zenon DEF Idle
<1>3. none \in Names
  BY <1>1, Zenon
<1>4. <<>> \in Seq(DOMAIN scopes)
  OBVIOUS
<1>. QED
  BY <1>2, <1>3, <1>4 DEF Searches

\* The types of a search, and of the walk when an answer is there.
LEMMA SearchType ==
  ASSUME TypeOK
  PROVE  /\ search \in Searches
         /\ search.saved \in Seq(DOMAIN scopes)
         /\ ~Missing => search.symbol.type \in STRING
<1>1. search \in Searches
  BY DEF TypeOK, Searches
<1>2. search.saved \in Seq(DOMAIN scopes) /\ search.symbol \in Symbols \cup {NoSymbol}
  BY <1>1 DEF Searches
<1>. QED
  BY <1>1, <1>2 DEF Missing, Symbols

\* sem_validate_member_access goes on with nodes a walk may come to.
LEMMA AccessNodes ==
  ASSUME TypeOK, program \in Programs, Top.rest # <<>>,
         Here.type = "MEMBER" \/ IsExpression(Here, {"."}),
         NEW type \in STRING, AccessMember(type)
  PROVE  \E nodes \in Seq(Visited) : (walk' = After(nodes) /\ UNCHANGED status) \/ Error
<1>. DEFINE r == Here.operands[2]
<1>1. Here \in Visited /\ Here.operands \in Seq(Nodes)
  BY HereProperties
<1>2. Len(Here.operands) = 2
  BY <1>1 DEF Visited, IsExpression
<1>3. r \in Nodes /\ r \in Visited
  BY <1>1, <1>2, NodesVisited
<1>. HIDE DEF r
<1>4. IsExpression(r, {"."}) => Member(r, type) \in Visited
  BY <1>3 DEF Member, Visited, IsExpression
<1>5. CASE Error
  BY <1>5, EmptySeq
<1>6. CASE IsExpression(r, {"."}) /\ walk' = After(<<Member(r, type)>>) /\ UNCHANGED status
  <2>1. <<Member(r, type)>> \in Seq(Visited)
    BY <1>4, <1>6
  <2>. QED
    BY <1>6, <2>1
<1>7. CASE walk' = After(<<>>) /\ UNCHANGED status
  <2>1. <<>> \in Seq(Visited)
    OBVIOUS
  <2>. QED
    BY <1>7, <2>1
<1>. QED
  BY <1>5, <1>6, <1>7 DEF AccessMember, r

\* When no search is under way the current scope is that of the construct.
LEMMA Settled ==
  ASSUME TypeOK, Climbing, search.phase = "idle" \/ search.saved = <<>>
  PROVE  search.saved = <<>> /\ current = walk[Len(walk)].scope
BY Types DEF Climbing, Depth

\* The actions that only go on with other nodes, or give up.
GoOn ==
  \/ Return \/ Skip \/ VisitExpression \/ VisitIdentifier \/ VisitCall \/ VisitAccess
  \/ VisitMember

\* What those actions do.
LEMMA GoOnStep ==
  ASSUME program \in Programs, TypeOK, Pending, Climbing, GoOn
  PROVE  TypeOK' /\ Stays
<1>1. /\ search \in Searches /\ Idle \in Searches
      /\ Idle.phase = "idle" /\ Idle.saved = <<>>
      /\ search.phase = "idle" => search.saved = <<>>
  BY SearchType, IdleType DEF Climbing
<1>2. <<>> \in Seq(Visited)
  OBVIOUS
<1>3. Answered => Top.rest # <<>> /\ search.saved = <<>>
  BY DEF Answered, Pending
<1>4. CASE Return
  <2>1. search' = search /\ walk' = walk /\ search.phase = "idle"
        /\ UNCHANGED <<scopes, current>> /\ status' \in {"running", "done", "exit"}
    BY <1>4 DEF Return
  <2>2. current \in DOMAIN scopes /\ walk \in Seq(Frames) /\ walk # <<>>
    BY Types
  <2>3. TypeOK'
    BY <1>1, <2>1, <2>2, SameScopesType
  <2>. QED
    BY <1>1, <2>1, <2>3 DEF Stays
<1>5. CASE Skip
  BY <1>1, <1>2, <1>5, GoesOn DEF Skip, At
<1>6. CASE VisitExpression
  <2>1. Top.rest # <<>> /\ Here.type = "EXPRESSION" /\ search.phase = "idle"
    BY <1>6 DEF VisitExpression, At
  <2>2. Here \in Visited /\ Here.operands \in Seq(Visited)
    BY <2>1, HereProperties
  <2>3. Len(Here.operands) \in {1, 2}
    BY <2>1, <2>2 DEF Visited
  <2>4. <<Here.operands[1]>> \in Seq(Visited)
    BY <2>2, <2>3
  <2>5. PICK nodes \in Seq(Visited) : walk' = After(nodes)
    BY <1>6, <2>2, <2>4 DEF VisitExpression
  <2>6. UNCHANGED <<scopes, current, search, status>>
    BY <1>6 DEF VisitExpression
  <2>. QED
    BY <1>1, <2>1, <2>5, <2>6, GoesOn
<1>7. CASE VisitIdentifier
  <2>1. /\ Answered /\ search' = Idle /\ UNCHANGED <<scopes, current>>
        /\ (walk' = After(<<>>) /\ UNCHANGED status) \/ Error
    BY <1>7 DEF VisitIdentifier, AnsweredAt
  <2>. QED
    BY <1>1, <1>2, <1>3, <2>1, GoesOn
<1>8. CASE VisitCall
  <2>1. /\ Answered /\ search' = Idle /\ UNCHANGED <<scopes, current>>
        /\ (walk' = After(<<>>) /\ UNCHANGED status) \/ Error
    BY <1>8 DEF VisitCall, AnsweredAt
  <2>. QED
    BY <1>1, <1>2, <1>3, <2>1, GoesOn
<1>9. CASE VisitAccess
  <2>1. /\ Answered /\ search' = Idle /\ UNCHANGED <<scopes, current>>
        /\ Here.type = "EXPRESSION" /\ search.phase # "idle"
    BY <1>9 DEF VisitAccess, AnsweredAt, Answered
  <2>2. IsExpression(Here, {"."})
    BY <2>1 DEF Pending, IsExpression
  <2>3. \E nodes \in Seq(Visited) : (walk' = After(nodes) /\ UNCHANGED status) \/ Error
    <3>1. CASE Error
      BY <1>2, <3>1
    <3>2. CASE ~Missing /\ AccessMember(search.symbol.type)
      BY <1>3, <2>1, <2>2, <3>2, AccessNodes, SearchType
    <3>. QED
      BY <1>9, <3>1, <3>2 DEF VisitAccess
  <2>. QED
    BY <1>1, <1>3, <2>1, <2>3, GoesOn
<1>10. CASE VisitMember
  <2>. DEFINE x == IdOf(Here.operands[1])
              type == program.structs[Here.info][x]
  <2>1. /\ Top.rest # <<>> /\ Here.type = "MEMBER" /\ search.phase = "idle"
        /\ UNCHANGED <<scopes, current, search>>
    BY <1>10 DEF VisitMember, At
  <2>2. \E nodes \in Seq(Visited) : (walk' = After(nodes) /\ UNCHANGED status) \/ Error
    <3>1. CASE Error
      BY <1>2, <3>1
    <3>2. CASE HasField(Here.info, x) /\ AccessMember(type)
      <4>1. type \in STRING
        BY <3>2, ProgramsAssumption DEF HasField
      <4>. HIDE DEF type
      <4>. QED
        BY <2>1, <3>2, <4>1, AccessNodes
    <3>. QED
      BY <1>10, <3>1, <3>2 DEF VisitMember
  <2>. QED
    BY <1>1, <2>1, <2>2, GoesOn
<1>. QED
  BY <1>4, <1>5, <1>6, <1>7, <1>8, <1>9, <1>10 DEF GoOn

\* A search is made for the node the walk is at.
LEMMA AskStep ==
  ASSUME TypeOK, Climbing, Call_lang_find_symbol
  PROVE  TypeOK' /\ Asks /\ Pending'
<1>1. Top.rest # <<>> /\ status = "running" /\ UNCHANGED <<scopes, current, program, walk, status>>
  BY DEF Call_lang_find_symbol, At
<1>2. Here \in Visited /\ Here.name \in Names /\ IdOf(Here) \in Names /\ Here.operands \in Seq(Nodes)
  BY <1>1, HereProperties DEF Names
<1>3. \A n \in Nodes : IdOf(n) \in Names
  BY IdOfType, NodesAssumption DEF IsNodeOver
<1>4. PICK name \in Names :
        /\ Seek(name)
        /\ Here.type \in {"DECL_VARIABLE", "DECL_FUNCTION"} => name = Here.name
        /\ Here.type \in {"IDENTIFIER", "FUNCTION_CALL"} => name = IdOf(Here)
        /\ Here.type = "EXPRESSION" => Here.name = "." /\ name = IdOf(Here.operands[1])
  <2>1. CASE (At("IDENTIFIER") \/ At("FUNCTION_CALL")) /\ Seek(IdOf(Here))
    BY <1>2, <2>1 DEF At
  <2>2. CASE (At("DECL_VARIABLE") \/ At("DECL_FUNCTION")) /\ Seek(Here.name)
    BY <1>2, <2>2 DEF At
  <2>3. CASE At("EXPRESSION") /\ Here.name = "." /\ Seek(IdOf(Here.operands[1]))
    <3>1. Here.type = "EXPRESSION"
      BY <2>3 DEF At
    <3>2. Here.operands[1] \in Nodes
      BY <1>2, <3>1 DEF Visited
    <3>. QED
      BY <1>3, <2>3, <3>1, <3>2
  <2>. QED
    BY <2>1, <2>2, <2>3 DEF Call_lang_find_symbol
<1>5. /\ search' \in Searches /\ search'.phase = "down" /\ search'.saved = <<>>
      /\ search'.symbol = NoSymbol /\ search'.name = name
      /\ search.saved = <<>>
  BY <1>4, IdleType DEF Seek, Searches, Climbing
<1>6. TypeOK'
  <2>1. /\ current \in DOMAIN scopes /\ walk \in Seq(Frames) /\ walk # <<>>
        /\ status \in {"running", "done", "exit"}
    BY Types DEF TypeOK
  <2>. QED
    BY <1>1, <1>5, <2>1, SameScopesType
<1>7. Pending'
  BY <1>1, <1>4, <1>5 DEF Pending, Top, Here
<1>. QED
  BY <1>1, <1>5, <1>6, <1>7 DEF Asks

\* The symbols of a scope.
LEMMA SymbolsType ==
  ASSUME TypeOK, NEW s \in DOMAIN scopes
  PROVE  scopes[s].symbols \in Seq(Symbols)
<1>1. scopes[s] \in ScopeOver(DOMAIN scopes)
  BY Types DEF ScopesType
<1>. QED
  BY <1>1 DEF ScopeOver

\* The searches keep to the types, and to what they are made for.
LEMMA FindStep ==
  ASSUME TypeOK, Chain, Climbing, Pending, Find
  PROVE  TypeOK' /\ Pending'
<1>1. UNCHANGED <<scopes, program, walk, status>>
  BY DEF Find, Lookup, LookHere, LookOutside, NotThere, PutBack
<1>2. search \in Searches /\ search.saved \in Seq(DOMAIN scopes) /\ current \in DOMAIN scopes
  BY SearchType, Types
<1>3. /\ search' \in Searches /\ current' \in DOMAIN scopes
      /\ search.phase # "idle" /\ search'.name = search.name
  <2>1. CASE LookHere
    <3>1. PICK i \in Matches : search' = [search EXCEPT !.phase = "up",
                                            !.symbol = scopes[current].symbols[i]]
      BY <2>1 DEF LookHere
    <3>2. scopes[current].symbols[i] \in Symbols
      <4>1. scopes[current].symbols \in Seq(Symbols)
        BY <1>2, SymbolsType
      <4>. QED
        BY <4>1 DEF Matches
    <3>. QED
      BY <1>2, <2>1, <3>1, <3>2 DEF LookHere, Searches
  <2>2. CASE LookOutside
    <3>1. Append(search.saved, current) \in Seq(DOMAIN scopes)
      BY <1>2, AppendProperties
    <3>2. scopes[current].parent \in DOMAIN scopes
      BY <1>2, <2>2, Types DEF LookOutside, ScopesType
    <3>. QED
      BY <1>2, <2>2, <3>1, <3>2 DEF LookOutside, Searches
  <2>3. CASE NotThere
    BY <1>2, <2>3 DEF NotThere, Searches
  <2>4. CASE PutBack
    <3>1. Front(search.saved) \in Seq(DOMAIN scopes) /\ Last(search.saved) \in DOMAIN scopes
      BY <1>2, <2>4, FrontLast DEF PutBack
    <3>. QED
      BY <1>2, <2>4, <3>1 DEF PutBack, Searches
  <2>. QED
    BY <2>1, <2>2, <2>3, <2>4 DEF Find, Lookup
<1>4. TypeOK'
  <2>1. walk \in Seq(Frames) /\ walk # <<>> /\ status \in {"running", "done", "exit"}
    BY Types DEF TypeOK
  <2>. QED
    BY <1>1, <1>3, <2>1, SameScopesType
<1>5. Pending'
  BY <1>1, <1>3 DEF Pending, Top, Here
<1>. QED
  BY <1>4, <1>5

\* A variable is declared, or the validator gives up.
LEMMA DeclareVariableStep ==
  ASSUME TypeOK, Pending, Climbing, DeclareVariable
  PROVE  TypeOK' /\ (Stays \/ Adds)
<1>1. /\ Top.rest # <<>> /\ search' = Idle /\ UNCHANGED <<current, program>>
      /\ search.phase = "up" /\ search.saved = <<>>
      /\ Here.type = "DECL_VARIABLE" /\ search.name = Here.name
  BY DEF DeclareVariable, AnsweredAt, Answered, Pending
<1>2. Idle \in Searches /\ Idle.phase = "idle" /\ Idle.saved = <<>> /\ <<>> \in Seq(Visited)
  <2>1. <<>> \in Seq(Visited)
    OBVIOUS
  <2>. QED
    BY <2>1, IdleType
<1>3. CASE Error /\ UNCHANGED scopes
  BY <1>1, <1>2, <1>3, GoesOn
<1>4. CASE /\ Missing
           /\ scopes' = WithSymbol(scopes, current, Symbol(Here.name, "variable", Here.info))
           /\ walk' = After(<<>>) /\ UNCHANGED status
  <2>. DEFINE symbol == Symbol(Here.name, "variable", Here.info)
  <2>1. symbol \in Symbols /\ symbol.name = search.name
    BY <1>1, HereProperties DEF Symbol, Symbols
  <2>2. scopes' = WithSymbol(scopes, current, symbol)
    BY <1>4
  <2>. HIDE DEF symbol
  <2>3. /\ ScopesType(scopes') /\ Len(scopes') = Len(scopes)
    BY <2>1, <2>2, Types, WithSymbolProperties
  <2>4. DOMAIN scopes' = DOMAIN scopes
    BY <2>3, Types DEF ScopesType
  <2>5. /\ walk' \in Seq(Frames) /\ walk' # <<>>
        /\ Len(walk') = Len(walk) /\ \A k \in 1 .. Len(walk) : walk'[k].scope = walk[k].scope
    BY <1>1, <1>2, <1>4, AfterProperties
  <2>6. Adds
    BY <1>1, <1>2, <1>4, <2>1, <2>2, <2>3, <2>5 DEF Adds, Extended
  <2>7. TypeOK'
    <3>1. search' \in Searches' /\ walk' \in Seq(Frames)'
      BY <1>1, <1>2, <2>4, <2>5 DEF Searches, Frames
    <3>2. current' \in DOMAIN scopes' /\ status' \in {"running", "done", "exit"}
      BY <1>1, <1>4, <2>4, Types DEF TypeOK
    <3>. QED
      BY <2>3, <2>5, <3>1, <3>2 DEF TypeOK, ScopesType, ScopeOver, Searches, Frames
  <2>. QED
    BY <2>6, <2>7
<1>. QED
  BY <1>3, <1>4 DEF DeclareVariable

\* A construct is entered, in scopes with a symbol more or not.
LEMMA EnterStep ==
  ASSUME TypeOK, Climbing, Top.rest # <<>>, NEW scs, Extended(scs), ScopesType(scs),
         Len(scs) = Len(scopes), NEW nodes \in Seq(Visited), Enter(scs, nodes),
         search.saved = <<>>, search'.phase = "idle", search'.saved = <<>>, search'.name \in Names,
         search' = search \/ search' = Idle, UNCHANGED status
  PROVE  TypeOK' /\ Enters
<1>. DEFINE All == [scope : DOMAIN scopes', rest : Seq(Visited)]
            Seekings == [phase : {"idle", "down", "up"}, name : Names,
                         symbol : Symbols \cup {NoSymbol}, saved : Seq(DOMAIN scopes')]
<1>1. /\ ScopesType(scopes') /\ Len(scopes') = Len(scopes) + 1
      /\ scopes' = WithScope(scs, current) /\ current' = Len(scopes) + 1
      /\ walk' \in Seq(All) /\ walk' # <<>> /\ Len(walk') = Len(walk) + 1
      /\ \A k \in 1 .. Len(walk) : walk'[k].scope = walk[k].scope
      /\ walk'[Len(walk) + 1].scope = Len(scopes) + 1
  BY EnterProperties
<1>2. Enters
  BY <1>1 DEF Enters
<1>3. current' \in DOMAIN scopes' /\ status' \in {"running", "done", "exit"}
  <2>1. DOMAIN scopes' = 1 .. Len(scopes')
    BY <1>1 DEF ScopesType
  <2>2. current' \in DOMAIN scopes'
    BY <1>1, <2>1, Types
  <2>. QED
    BY <2>2 DEF TypeOK
<1>4. search' \in Seekings
  <2>1. search' \in Searches
    BY SearchType, IdleType, Zenon
  <2>2. <<>> \in Seq(DOMAIN scopes')
    OBVIOUS
  <2>. QED
    BY <2>1, <2>2 DEF Searches
<1>5. TypeOK'
  BY <1>1, <1>3, <1>4 DEF TypeOK, ScopesType, ScopeOver
<1>. QED
  BY <1>2, <1>5

\* The actions that enter a construct.
EnterOne == EnterRoot \/ EnterKeyword \/ DeclareFunction

\* What those actions do.
LEMMA EnterOneStep ==
  ASSUME TypeOK, Pending, Climbing, EnterOne
  PROVE  TypeOK' /\ (Stays \/ Enters)
<1>1. /\ Idle \in Searches /\ Idle.phase = "idle" /\ Idle.saved = <<>>
      /\ search \in Searches
      /\ search.phase = "idle" => search.saved = <<>>
      /\ search.name \in Names /\ Idle.name \in Names
  <2>1. search \in Searches /\ Idle \in Searches
    BY IdleType, SearchType
  <2>. QED
    BY <2>1, IdleType DEF Climbing, Searches
<1>2. ScopesType(scopes) /\ Extended(scopes)
  BY Types DEF Extended
<1>3. CASE EnterRoot
  <2>1. /\ Top.rest # <<>> /\ UNCHANGED status
        /\ search.saved = <<>> /\ search' = search
        /\ search'.phase = "idle" /\ search'.saved = <<>>
    BY <1>1, <1>3 DEF EnterRoot, At
  <2>2. Here.body \in Seq(Visited) /\ Enter(scopes, Here.body)
    BY <1>3, <2>1, HereProperties DEF EnterRoot
  <2>. QED
    BY <1>1, <1>2, <2>1, <2>2, EnterStep
<1>4. CASE EnterKeyword
  <2>1. /\ Top.rest # <<>> /\ UNCHANGED status
        /\ search.saved = <<>> /\ search' = search
        /\ search'.phase = "idle" /\ search'.saved = <<>>
    BY <1>1, <1>4 DEF EnterKeyword, At
  <2>2. Here.args \o Here.body \in Seq(Visited) /\ Enter(scopes, Here.args \o Here.body)
    BY <1>4, <2>1, HereProperties DEF EnterKeyword
  <2>. QED
    BY <1>1, <1>2, <2>1, <2>2, EnterStep
<1>5. CASE DeclareFunction
  <2>1. /\ Top.rest # <<>> /\ search' = Idle /\ search.phase = "up" /\ search.saved = <<>>
        /\ Here.type = "DECL_FUNCTION" /\ search.name = Here.name
    BY <1>5 DEF DeclareFunction, AnsweredAt, Answered, Pending
  <2>2. CASE Error /\ UNCHANGED <<scopes, current>>
    <3>1. <<>> \in Seq(Visited)
      OBVIOUS
    <3>. QED
      BY <1>1, <2>1, <2>2, <3>1, GoesOn
  <2>3. CASE /\ Missing /\ UNCHANGED status
             /\ Enter(WithSymbol(scopes, current, Symbol(Here.name, "function", Here.info)),
                      Here.args \o Here.body)
    <3>. DEFINE symbol == Symbol(Here.name, "function", Here.info)
                scs == WithSymbol(scopes, current, symbol)
                nodes == Here.args \o Here.body
    <3>1. symbol \in Symbols /\ symbol.name = search.name
      BY <2>1, HereProperties DEF Symbol, Symbols
    <3>2. nodes \in Seq(Visited)
      BY <2>1, HereProperties
    <3>. HIDE DEF symbol
    <3>3. ScopesType(scs) /\ Len(scs) = Len(scopes)
      BY <3>1, Types, WithSymbolProperties
    <3>4. Extended(scs)
      BY <2>1, <2>3, <3>1 DEF Extended
    <3>5. Enter(scs, nodes)
      BY <2>3 DEF symbol
    <3>. HIDE DEF scs, nodes
    <3>. QED
      BY <1>1, <2>1, <2>3, <3>2, <3>3, <3>4, <3>5, EnterStep
  <2>. QED
    BY <1>5, <2>2, <2>3 DEF DeclareFunction
<1>. QED
  BY <1>3, <1>4, <1>5 DEF EnterOne

\* A construct has been left.
Leaves ==
  /\ UNCHANGED scopes /\ Len(walk) > 1
  /\ current' = Outside(current) /\ walk' = Front(walk)
  /\ search.saved = <<>> /\ search'.phase = "idle" /\ search'.saved = <<>>

\* The innermost construct is left.
LEMMA LeaveStep ==
  ASSUME TypeOK, Climbing, Leave
  PROVE  TypeOK' /\ Leaves
<1>1. /\ search.phase = "idle" /\ Len(walk) > 1 /\ UNCHANGED <<scopes, search, status>>
      /\ current' = Outside(current) /\ walk' = Front(walk)
  BY DEF Leave
<1>2. walk' \in Seq(Frames) /\ Len(walk') = Len(walk) - 1 /\ Len(walk) \in Nat
  BY <1>1, Types, FrontLast
<1>3. walk' # <<>>
  BY <1>1, <1>2, EmptySeq
<1>4. current' \in DOMAIN scopes
  BY <1>1, Types DEF Outside, ScopesType
<1>5. TypeOK'
  <2>1. search \in Searches /\ status \in {"running", "done", "exit"}
    BY SearchType DEF TypeOK
  <2>. QED
    BY <1>1, <1>2, <1>3, <1>4, <2>1, SameScopesType
<1>. QED
  BY <1>1, <1>5 DEF Leaves, Climbing

\* Every step is of one of the kinds.
LEMMA Steps ==
  ASSUME program \in Programs, TypeOK, Pending, Chain, Climbing, [Next]_vars
  PROVE  /\ program' \in Programs /\ TypeOK' /\ Pending'
         /\ UNCHANGED vars \/ Stays \/ Asks \/ Find \/ Adds \/ Enters \/ Leaves
<1>1. program' \in Programs
  <2>1. UNCHANGED program
    BY DEF Next, vars, EnterRoot, EnterKeyword, Leave, Return, Skip, VisitExpression,
           Call_lang_find_symbol, Find, VisitIdentifier, VisitCall, DeclareVariable,
           DeclareFunction, VisitAccess, VisitMember, Over
  <2>. QED
    BY <2>1
<1>2. Stays \/ Adds \/ Enters \/ Leaves => Pending'
  BY DEF Stays, Adds, Enters, Leaves, Pending
<1>3. CASE UNCHANGED vars
  BY <1>1, <1>3 DEF vars, TypeOK, Pending, Top, Here
<1>4. CASE GoOn
  BY <1>1, <1>2, <1>4, GoOnStep
<1>5. CASE Call_lang_find_symbol
  BY <1>1, <1>5, AskStep
<1>6. CASE Find
  BY <1>1, <1>6, FindStep
<1>7. CASE DeclareVariable
  BY <1>1, <1>2, <1>7, DeclareVariableStep
<1>8. CASE EnterOne
  BY <1>1, <1>2, <1>8, EnterOneStep
<1>9. CASE Leave
  BY <1>1, <1>2, <1>9, LeaveStep
<1>10. Next => GoOn \/ Call_lang_find_symbol \/ Find \/ DeclareVariable \/ EnterOne \/ Leave
               \/ UNCHANGED vars
  BY DEF Next, GoOn, EnterOne, Over
<1>. QED
  BY <1>3, <1>4, <1>5, <1>6, <1>7, <1>8, <1>9, <1>10

-----------------------------------------------------------------------------
(* The scopes of the constructs.                                           *)

\* The scopes on the walk exist, and their parents do.
LEMMA OnTheWalk ==
  ASSUME TypeOK
  PROVE  /\ \A k \in 1 .. Len(walk) : walk[k].scope \in 1 .. Len(scopes)
         /\ DOMAIN walk = 1 .. Len(walk)
<1>1. walk \in Seq(Frames)
  BY Types
<1>2. \A k \in 1 .. Len(walk) : walk[k] \in Frames
  BY <1>1
<1>. QED
  BY <1>1, <1>2, Types DEF Frames

\* A sequence of scopes whose scope at has one symbol more than in another.
Pushes(new, scs, at, symbol) ==
  /\ ScopesType(new) /\ Len(new) = Len(scs)
  /\ \A s \in 1 .. Len(scs) : new[s].parent = scs[s].parent
  /\ \A s \in 1 .. Len(scs) : new[s].childs = scs[s].childs
  /\ \A s \in 1 .. Len(scs) :
       new[s].symbols = IF s = at THEN <<symbol>> \o scs[s].symbols ELSE scs[s].symbols

\* A symbol is added to any scope.
LEMMA WithSymbolAnywhere ==
  \A scs, at, symbol :
    ScopesType(scs) /\ at \in DOMAIN scs /\ symbol \in Symbols =>
      Pushes(WithSymbol(scs, at, symbol), scs, at, symbol)
BY WithSymbolProperties DEF Pushes

\* The scopes stay where they are, and so do their parents, or there is one more.
LEMMA Extension ==
  ASSUME TypeOK, NEW scs, Extended(scs)
  PROVE  /\ Len(scs) = Len(scopes) /\ DOMAIN scs = DOMAIN scopes
         /\ \A s \in 1 .. Len(scopes) :
              scs[s].parent = scopes[s].parent /\ scs[s].childs = scopes[s].childs
<1>1. ScopesType(scopes) /\ current \in DOMAIN scopes /\ DOMAIN scopes = 1 .. Len(scopes)
  BY Types
<1>2. CASE scs = scopes
  BY <1>2
<1>3. CASE \E symbol \in Symbols : scs = WithSymbol(scopes, current, symbol)
  <2>1. PICK symbol \in Symbols : scs = WithSymbol(scopes, current, symbol)
    BY <1>3
  <2>2. /\ ScopesType(scs) /\ Len(scs) = Len(scopes)
        /\ \A s \in 1 .. Len(scopes) :
             scs[s].parent = scopes[s].parent /\ scs[s].childs = scopes[s].childs
    <3>1. ScopesType(scopes) /\ current \in DOMAIN scopes
      BY <1>1
    <3>2. Pushes(scs, scopes, current, symbol)
      BY <2>1, <3>1, WithSymbolAnywhere, Zenon
    <3>. QED
      BY <3>2 DEF Pushes
  <2>3. DOMAIN scs = 1 .. Len(scs)
    BY <2>2 DEF ScopesType
  <2>. QED
    BY <1>1, <2>2, <2>3
<1>. QED
  BY <1>2, <1>3 DEF Extended

\* Parents and symbols after a construct has been entered.
LEMMA EnteredScopes ==
  ASSUME TypeOK, Enters
  PROVE  \E scs :
           /\ Extended(scs) /\ ScopesType(scs)
           /\ \A s \in 1 .. Len(scopes) :
                /\ scopes'[s].parent = scopes[s].parent
                /\ scopes'[s].symbols = scs[s].symbols
                /\ scopes'[s].childs =
                     IF s = current THEN <<Len(scopes) + 1>> \o scopes[s].childs ELSE scopes[s].childs
           /\ scopes'[Len(scopes) + 1] = NewScope(current)
<1>1. PICK scs : /\ Extended(scs) /\ ScopesType(scs) /\ Len(scs) = Len(scopes)
                 /\ scopes' = WithScope(scs, current)
  BY DEF Enters
<1>2. /\ DOMAIN scs = DOMAIN scopes /\ current \in DOMAIN scs
      /\ \A s \in 1 .. Len(scopes) :
           scs[s].parent = scopes[s].parent /\ scs[s].childs = scopes[s].childs
  BY <1>1, Extension, Types
<1>3. /\ \A s \in 1 .. Len(scopes) :
           /\ scopes'[s].parent = scs[s].parent
           /\ scopes'[s].symbols = scs[s].symbols
           /\ scopes'[s].childs =
                IF s = current THEN <<Len(scopes) + 1>> \o scs[s].childs ELSE scs[s].childs
      /\ scopes'[Len(scopes) + 1] = NewScope(current)
  BY <1>1, <1>2, WithScopeProperties
<1>. QED
  BY <1>1, <1>2, <1>3

\* The walk and the scopes after a step are lists.
LEMMA TypesAfter ==
  ASSUME TypeOK'
  PROVE  DOMAIN walk' = 1 .. Len(walk') /\ DOMAIN scopes' = 1 .. Len(scopes')
BY DEF TypeOK

\* Every step keeps the chain.
LEMMA ChainStep ==
  ASSUME TypeOK, TypeOK', Chain, Climbing,
         UNCHANGED vars \/ Stays \/ Asks \/ Find \/ Adds \/ Enters \/ Leaves
  PROVE  Chain'
<1>. DEFINE n == Len(walk)
<1>1. /\ n \in Nat \ {0} /\ DOMAIN walk = 1 .. n
      /\ \A k \in 1 .. n : walk[k].scope \in 1 .. Len(scopes)
  BY OnTheWalk, Types
<1>2. CASE UNCHANGED vars \/ Asks \/ Find
  BY <1>2 DEF vars, Asks, Find, Lookup, LookHere, LookOutside, NotThere, PutBack, Chain
<1>3. CASE Stays \/ Adds
  <2>1. /\ Len(walk') = n /\ \A k \in 1 .. n : walk'[k].scope = walk[k].scope
        /\ DOMAIN walk' = 1 .. n
    BY <1>3, TypesAfter DEF Stays, Adds
  <2>2. \A s \in 1 .. Len(scopes) : scopes'[s].parent = scopes[s].parent
    BY <1>3, Extension DEF Stays, Adds
  <2>3. walk'[1].scope = 1
    BY <1>1, <2>1 DEF Chain
  <2>4. ASSUME NEW k \in 2 .. n
        PROVE  scopes'[walk'[k].scope].parent = walk'[k - 1].scope
    <3>1. k \in 1 .. n /\ k - 1 \in 1 .. n
      BY <1>1
    <3>. QED
      BY <1>1, <2>1, <2>2, <3>1 DEF Chain
  <2>5. ASSUME NEW j \in 1 .. n, NEW k \in 1 .. n, j < k
        PROVE  walk'[j].scope < walk'[k].scope
    BY <1>1, <2>1, <2>5 DEF Chain
  <2>. QED
    BY <1>1, <2>1, <2>3, <2>4, <2>5 DEF Chain
<1>4. CASE Enters
  <2>1. /\ Len(walk') = n + 1 /\ \A k \in 1 .. n : walk'[k].scope = walk[k].scope
        /\ walk'[n + 1].scope = Len(scopes) + 1
        /\ DOMAIN walk' = 1 .. n + 1
    BY <1>4, TypesAfter DEF Enters
  <2>2. /\ \A s \in 1 .. Len(scopes) : scopes'[s].parent = scopes[s].parent
        /\ scopes'[Len(scopes) + 1].parent = current
    BY <1>4, EnteredScopes DEF NewScope
  <2>3. current = walk[n].scope
    BY <1>4, Settled DEF Enters
  <2>4. walk'[1].scope = 1
    BY <1>1, <2>1 DEF Chain
  <2>5. ASSUME NEW k \in 2 .. n + 1
        PROVE  scopes'[walk'[k].scope].parent = walk'[k - 1].scope
    <3>1. CASE k = n + 1
      BY <1>1, <2>1, <2>2, <2>3, <3>1
    <3>2. CASE k \in 2 .. n
      <4>1. k \in 1 .. n /\ k - 1 \in 1 .. n
        BY <1>1, <3>2
      <4>2. walk'[k].scope = walk[k].scope /\ walk'[k - 1].scope = walk[k - 1].scope
        BY <2>1, <4>1
      <4>3. scopes'[walk[k].scope].parent = scopes[walk[k].scope].parent
        BY <1>1, <2>2, <4>1
      <4>4. scopes[walk[k].scope].parent = walk[k - 1].scope
        BY <3>2 DEF Chain
      <4>. QED
        BY <4>2, <4>3, <4>4
    <3>3. k = n + 1 \/ k \in 2 .. n
      BY <1>1
    <3>. QED
      BY <3>1, <3>2, <3>3, Zenon
  <2>6. ASSUME NEW j \in 1 .. n + 1, NEW k \in 1 .. n + 1, j < k
        PROVE  walk'[j].scope < walk'[k].scope
    <3>1. j \in 1 .. n
      BY <1>1, <2>6
    <3>2. CASE k = n + 1
      <4>1. walk'[k].scope = Len(scopes) + 1 /\ walk'[j].scope = walk[j].scope
        BY <1>1, <2>1, <3>1, <3>2
      <4>2. walk[j].scope \in 1 .. Len(scopes) /\ Len(scopes) \in Nat
        BY <1>1, <3>1, Types
      <4>. QED
        BY <4>1, <4>2
    <3>3. CASE k \in 1 .. n
      BY <1>1, <2>1, <2>6, <3>1, <3>3 DEF Chain
    <3>. QED
      BY <1>1, <3>2, <3>3
  <2>. QED
    BY <2>1, <2>4, <2>5, <2>6 DEF Chain
<1>5. CASE Leaves
  <2>1. /\ Len(walk') = n - 1 /\ n > 1 /\ \A k \in 1 .. n - 1 : walk'[k] = walk[k]
        /\ DOMAIN walk' = 1 .. n - 1
    BY <1>5, Types, FrontLast, TypesAfter DEF Leaves
  <2>2. scopes' = scopes
    BY <1>5 DEF Leaves
  <2>3. ASSUME NEW k \in 2 .. n - 1
        PROVE  scopes'[walk'[k].scope].parent = walk'[k - 1].scope
    <3>1. walk'[k] = walk[k] /\ walk'[k - 1] = walk[k - 1] /\ k \in 2 .. n
      BY <1>1, <2>1
    <3>. QED
      BY <2>2, <3>1 DEF Chain
  <2>4. ASSUME NEW j \in 1 .. n - 1, NEW k \in 1 .. n - 1, j < k
        PROVE  walk'[j].scope < walk'[k].scope
    <3>1. walk'[k] = walk[k] /\ walk'[j] = walk[j] /\ j \in 1 .. n /\ k \in 1 .. n
      BY <1>1, <2>1
    <3>. QED
      BY <1>1, <2>4, <3>1 DEF Chain
  <2>5. walk'[1].scope = 1
    BY <1>1, <2>1 DEF Chain
  <2>. QED
    BY <2>1, <2>3, <2>4, <2>5 DEF Chain
<1>. QED
  BY <1>2, <1>3, <1>4, <1>5

\* Of two constructs on the walk the outer one has the older scope: they differ.
LEMMA ChainApart ==
  ASSUME TypeOK, Chain, NEW j \in 1 .. Len(walk), NEW k \in 1 .. Len(walk),
         walk[j].scope = walk[k].scope
  PROVE  j = k
<1>1. /\ walk[j].scope \in 1 .. Len(scopes) /\ DOMAIN walk = 1 .. Len(walk)
      /\ Len(walk) \in Nat /\ Len(scopes) \in Nat
  BY OnTheWalk, Types
<1>2. ~(j < k) /\ ~(k < j)
  BY <1>1 DEF Chain
<1>. QED
  BY <1>1, <1>2

\* The parent of a scope on the walk is that of the construct outside of it.
LEMMA ParentOnWalk ==
  ASSUME TypeOK, Chain, NEW k \in 1 .. Len(walk)
  PROVE  /\ scopes[walk[k].scope].parent = 0 => k = 1
         /\ scopes[walk[k].scope].parent # 0 =>
              k > 1 /\ scopes[walk[k].scope].parent = walk[k - 1].scope
<1>1. /\ Len(walk) \in Nat \ {0} /\ walk[k].scope \in DOMAIN scopes /\ walk[1].scope = 1
  BY OnTheWalk, Types DEF Chain
<1>2. scopes[walk[k].scope].parent = 0 <=> walk[k].scope = 1
  BY <1>1 DEF TypeOK
<1>3. walk[k].scope = 1 <=> k = 1
  BY <1>1, ChainApart
<1>. QED
  BY <1>1, <1>2, <1>3 DEF Chain

\* Every step keeps the search on the walk.
LEMMA ClimbingStep ==
  ASSUME TypeOK, TypeOK', Chain, Climbing, Pending,
         UNCHANGED vars \/ Stays \/ Asks \/ Find \/ Adds \/ Enters \/ Leaves
  PROVE  Climbing'
<1>. DEFINE n == Len(walk)
            m == Len(search.saved)
<1>1. n \in Nat \ {0} /\ m \in Nat /\ search.saved \in Seq(DOMAIN scopes) /\ search \in Searches
  BY SearchType, Types
<1>2. CASE UNCHANGED vars
  BY <1>2 DEF vars, Climbing, Depth
<1>3. CASE Stays \/ Adds \/ Enters \/ Leaves \/ Asks
  <2>1. /\ search.saved = <<>> /\ search'.saved = <<>> /\ current = walk[n].scope
        /\ search'.phase # "idle" \/ search'.saved = <<>>
    <3>1. search.saved = <<>> /\ search'.saved = <<>>
      BY <1>3 DEF Stays, Adds, Enters, Leaves, Asks
    <3>. QED
      BY <3>1, Settled
  <2>2. current' = walk'[Len(walk')].scope /\ Len(walk') \in Nat \ {0}
    <3>1. CASE Stays \/ Adds \/ Asks
      BY <1>1, <2>1, <3>1 DEF Stays, Adds, Asks
    <3>2. CASE Enters
      BY <1>1, <3>2 DEF Enters
    <3>3. CASE Leaves
      <4>1. /\ Len(walk') = n - 1 /\ n > 1 /\ \A k \in 1 .. n - 1 : walk'[k] = walk[k]
            /\ scopes' = scopes /\ current' = Outside(current)
        BY <3>3, Types, FrontLast DEF Leaves
      <4>2. current' = walk[n - 1].scope
        BY <1>1, <2>1, <4>1, ParentOnWalk DEF Outside
      <4>. QED
        BY <1>1, <4>1, <4>2
    <3>. QED
      BY <1>3, <3>1, <3>2, <3>3
  <2>3. Len(search'.saved) = 0
    BY <2>1
  <2>. QED
    BY <2>1, <2>2, <2>3 DEF Climbing, Depth
<1>4. CASE Find
  <2>1. /\ walk' = walk /\ search.phase # "idle" /\ m < n
        /\ \A i \in 1 .. m : search.saved[i] = walk[n + 1 - i].scope
        /\ current = walk[n - m].scope
    BY <1>4 DEF Climbing, Depth, Find, Lookup, LookHere, LookOutside, NotThere, PutBack
  <2>2. CASE LookHere \/ NotThere
    <3>1. search'.saved = search.saved /\ search'.phase # "idle" /\ current' = current
      BY <1>1, <2>2 DEF LookHere, NotThere, Searches
    <3>. QED
      BY <2>1, <3>1 DEF Climbing, Depth
  <2>3. CASE LookOutside
    <3>1. /\ search'.saved = Append(search.saved, current) /\ search'.phase # "idle"
          /\ current' = scopes[current].parent /\ scopes[current].parent # 0
      BY <1>1, <2>3 DEF LookOutside, Searches
    <3>2. /\ Len(search'.saved) = m + 1 /\ search'.saved[m + 1] = current
          /\ \A i \in 1 .. m : search'.saved[i] = search.saved[i]
      BY <1>1, <3>1, Types
    <3>3. n - m \in 1 .. n /\ n - m > 1 /\ current' = walk[n - m - 1].scope
      <4>1. PICK k : k = n - m /\ k \in 1 .. n /\ current = walk[k].scope
        BY <1>1, <2>1
      <4>2. k > 1 /\ scopes[walk[k].scope].parent = walk[k - 1].scope
        BY <3>1, <4>1, ParentOnWalk
      <4>. QED
        BY <3>1, <4>1, <4>2
    <3>4. ASSUME NEW i \in 1 .. m + 1
          PROVE  search'.saved[i] = walk[n + 1 - i].scope
      <4>. HIDE DEF m, n
      <4>1. i \in 1 .. m \/ (i = m + 1 /\ n + 1 - i = n - m)
        BY <1>1
      <4>. QED
        BY <2>1, <3>2, <4>1
    <3>5. m + 1 < n /\ n - (m + 1) = n - m - 1
      BY <1>1, <3>3
    <3>. QED
      BY <2>1, <3>1, <3>2, <3>3, <3>4, <3>5 DEF Climbing, Depth
  <2>4. CASE PutBack
    <3>1. /\ search'.saved = Front(search.saved) /\ search'.phase # "idle"
          /\ current' = Last(search.saved) /\ search.saved # <<>>
      BY <1>1, <2>1, <2>4 DEF PutBack, Searches
    <3>2. /\ Len(search'.saved) = m - 1 /\ m \in Nat \ {0} /\ current' = search.saved[m]
          /\ \A i \in 1 .. m - 1 : search'.saved[i] = search.saved[i]
      BY <1>1, <3>1, FrontLast
    <3>3. current' = walk[n + 1 - m].scope /\ n - (m - 1) = n + 1 - m /\ m - 1 < n
      <4>1. m \in 1 .. m /\ n - (m - 1) = n + 1 - m /\ m - 1 < n
        BY <1>1, <2>1, <3>2
      <4>. QED
        BY <2>1, <3>2, <4>1
    <3>4. ASSUME NEW i \in 1 .. m - 1
          PROVE  search'.saved[i] = walk[n + 1 - i].scope
      <4>1. i \in 1 .. m
        BY <1>1
      <4>. QED
        BY <2>1, <3>2, <4>1
    <3>. QED
      BY <2>1, <3>1, <3>2, <3>3, <3>4 DEF Climbing, Depth
  <2>. QED
    BY <1>4, <2>2, <2>3, <2>4 DEF Find, Lookup
<1>. QED
  BY <1>2, <1>3, <1>4

-----------------------------------------------------------------------------
(* The names declared in the constructs.                                   *)

Has(list, name) == \E i \in DOMAIN list : list[i].name = name

\* No name twice, in one list or in two.
Distinct(stack) ==
  \A k, l \in DOMAIN stack : \A i \in DOMAIN stack[k], j \in DOMAIN stack[l] :
    stack[k][i].name = stack[l][j].name => k = l /\ i = j

\* The symbols of the constructs on the walk.
Stack == [k \in 1 .. Len(walk) |-> scopes[walk[k].scope].symbols]

\* A symbol in front of the last list.
Pushed(stack, symbol) == [stack EXCEPT ![Len(stack)] = <<symbol>> \o @]

\* The lists of the stack, and what the constructs declare.
LEMMA StackType ==
  ASSUME TypeOK
  PROVE  /\ Stack \in Seq(Seq(Symbols)) /\ Len(Stack) = Len(walk) /\ DOMAIN Stack = DOMAIN walk
         /\ \A k \in 1 .. Len(walk) : Stack[k] = scopes[walk[k].scope].symbols
         /\ \A k \in 1 .. Len(walk) : \A name : Declares(k, name) <=> Has(Stack[k], name)
<1>1. Len(walk) \in Nat /\ DOMAIN walk = 1 .. Len(walk)
  BY OnTheWalk, Types
<1>2. \A k \in 1 .. Len(walk) : scopes[walk[k].scope].symbols \in Seq(Symbols)
  BY OnTheWalk, SymbolsType, Types
<1>3. Stack \in Seq(Seq(Symbols)) /\ Len(Stack) = Len(walk)
  BY <1>1, <1>2 DEF Stack
<1>4. \A k \in 1 .. Len(walk) : Stack[k] = scopes[walk[k].scope].symbols
  BY <1>1 DEF Stack
<1>5. ASSUME NEW k \in 1 .. Len(walk), NEW name
      PROVE  Declares(k, name) <=> Has(Stack[k], name)
  <2>1. Stack[k] = scopes[walk[k].scope].symbols
    BY <1>4
  <2>. QED
    BY <2>1, Zenon DEF Declares, Has
<1>6. DOMAIN Stack = DOMAIN walk
  BY <1>1 DEF Stack
<1>7. \A k \in 1 .. Len(walk) : \A name : Declares(k, name) <=> Has(Stack[k], name)
  BY <1>5, Zenon
<1>. QED
  BY <1>3, <1>4, <1>6, <1>7, Zenon

\* NoShadowing in these terms.
LEMMA Shadowing ==
  ASSUME DOMAIN walk = 1 .. Len(walk)
  PROVE  NoShadowing <=> Distinct(Stack)
<1>1. DOMAIN Stack = DOMAIN walk
  BY DEF Stack
<1>2. \A k \in DOMAIN walk : Stack[k] = scopes[walk[k].scope].symbols
  BY DEF Stack
<1>3. ASSUME NoShadowing
      PROVE  Distinct(Stack)
  <2>1. ASSUME NEW k \in DOMAIN walk, NEW l \in DOMAIN walk,
               NEW i \in DOMAIN Stack[k], NEW j \in DOMAIN Stack[l],
               Stack[k][i].name = Stack[l][j].name
        PROVE  k = l /\ i = j
    <3>1. i \in DOMAIN scopes[walk[k].scope].symbols /\ Declares(l, Stack[k][i].name)
      BY <1>2, <2>1 DEF Declares
    <3>2. l = k
      BY <1>2, <1>3, <3>1 DEF NoShadowing
    <3>. QED
      BY <1>2, <1>3, <2>1, <3>1, <3>2 DEF NoShadowing
  <2>. QED
    BY <1>1, <2>1 DEF Distinct
<1>4. Distinct(Stack) => NoShadowing
  BY <1>1, <1>2 DEF NoShadowing, Declares, Distinct
<1>. QED
  BY <1>3, <1>4

\* The same after a step.
LEMMA ShadowingAfter ==
  (DOMAIN walk = 1 .. Len(walk) => (NoShadowing <=> Distinct(Stack)))'
<1>1. DOMAIN walk = 1 .. Len(walk) => (NoShadowing <=> Distinct(Stack))
  BY Shadowing
<1>. QED
  BY <1>1, PTL

\* A name nobody has may be added, a list may be put behind, the last taken off.
LEMMA DistinctProperties ==
  ASSUME NEW stack \in Seq(Seq(Symbols)), Distinct(stack)
  PROVE  /\ \A symbol \in Symbols :
              stack # <<>> /\ (\A k \in 1 .. Len(stack) : ~Has(stack[k], symbol.name)) =>
                Pushed(stack, symbol) \in Seq(Seq(Symbols)) /\ Distinct(Pushed(stack, symbol))
         /\ Distinct(Append(stack, <<>>))
         /\ stack # <<>> => Distinct(Front(stack))
<1>. DEFINE n == Len(stack)
<1>1. n \in Nat /\ DOMAIN stack = 1 .. n /\ \A k \in 1 .. n : stack[k] \in Seq(Symbols)
  OBVIOUS
<1>2. ASSUME NEW symbol \in Symbols, stack # <<>>,
             \A k \in 1 .. n : ~Has(stack[k], symbol.name)
      PROVE  Pushed(stack, symbol) \in Seq(Seq(Symbols)) /\ Distinct(Pushed(stack, symbol))
  <2>. DEFINE list == <<symbol>> \o stack[n]
              new == Pushed(stack, symbol)
  <2>1. n \in 1 .. n
    BY <1>1, <1>2, EmptySeq
  <2>2. /\ list \in Seq(Symbols) /\ DOMAIN list = 1 .. Len(stack[n]) + 1 /\ list[1] = symbol
        /\ \A i \in 1 .. Len(stack[n]) : list[i + 1] = stack[n][i]
    BY <1>1, <2>1, ConcatProperties
  <2>. HIDE DEF list
  <2>3. /\ new \in Seq(Seq(Symbols)) /\ DOMAIN new = 1 .. n
        /\ \A k \in 1 .. n : new[k] = IF k = n THEN list ELSE stack[k]
    <3>1. new = [stack EXCEPT ![n] = list]
      BY DEF Pushed, list
    <3>. HIDE DEF new
    <3>. QED
      BY <1>1, <2>1, <2>2, <3>1, ExceptSeq
  <2>. HIDE DEF new
  <2>4. ASSUME NEW i \in DOMAIN list
        PROVE  (i = 1 /\ list[i] = symbol) \/ (i - 1 \in DOMAIN stack[n] /\ list[i] = stack[n][i - 1])
    <3>1. stack[n] \in Seq(Symbols) /\ DOMAIN stack[n] = 1 .. Len(stack[n]) /\ Len(stack[n]) \in Nat
      BY <1>1, <2>1
    <3>2. i = 1 \/ (i - 1 \in 1 .. Len(stack[n]) /\ (i - 1) + 1 = i)
      BY <2>2, <3>1
    <3>. QED
      BY <2>2, <3>1, <3>2
  <2>5. ASSUME NEW k \in 1 .. n, NEW l \in 1 .. n, NEW i \in DOMAIN new[k], NEW j \in DOMAIN new[l],
               new[k][i].name = new[l][j].name
        PROVE  k = l /\ i = j
    <3>1. ASSUME NEW q \in 1 .. n, NEW a \in DOMAIN new[q]
          PROVE  \/ q = n /\ a = 1 /\ new[q][a].name = symbol.name
                 \/ q = n /\ a - 1 \in DOMAIN stack[q] /\ new[q][a] = stack[q][a - 1]
                 \/ q # n /\ a \in DOMAIN stack[q] /\ new[q][a] = stack[q][a]
      <4>1. q # n => new[q] = stack[q]
        BY <2>3
      <4>2. q = n => \/ a = 1 /\ new[q][a].name = symbol.name
                     \/ a - 1 \in DOMAIN stack[q] /\ new[q][a] = stack[q][a - 1]
        BY <2>3, <2>4
      <4>. QED
        BY <3>1, <4>1, <4>2
    <3>2. \A q \in 1 .. n : \A a \in DOMAIN stack[q] : stack[q][a].name # symbol.name
      BY <1>2 DEF Has
    <3>3. i \in Nat /\ j \in Nat
      <4>1. \A q \in 1 .. n : new[q] \in Seq(Symbols)
        BY <2>3
      <4>2. new[k] \in Seq(Symbols) /\ new[l] \in Seq(Symbols)
        BY <4>1
      <4>3. \A some \in Seq(Symbols) : DOMAIN some \subseteq Nat
        OBVIOUS
      <4>4. DOMAIN new[k] \subseteq Nat /\ DOMAIN new[l] \subseteq Nat
        BY <4>2, <4>3, Zenon
      <4>. QED
        BY <4>4
    <3>4. \A q, r \in 1 .. n : \A a \in DOMAIN stack[q], b \in DOMAIN stack[r] :
            stack[q][a].name = stack[r][b].name => q = r /\ a = b
      BY <1>1 DEF Distinct
    <3>5. i - 1 = j - 1 => i = j
      BY <3>3
    <3>6. CASE k = n /\ i = 1 /\ new[k][i].name = symbol.name
      BY <2>5, <3>1, <3>2, <3>6
    <3>7. CASE k = n /\ i - 1 \in DOMAIN stack[k] /\ new[k][i] = stack[k][i - 1]
      <4>1. i - 1 \in DOMAIN stack[n] /\ new[k][i].name = stack[n][i - 1].name /\ n \in 1 .. n
        BY <3>7
      <4>2. new[l][j].name # symbol.name
        BY <2>5, <3>2, <4>1
      <4>3. CASE l = n /\ j - 1 \in DOMAIN stack[l] /\ new[l][j] = stack[l][j - 1]
        BY <2>5, <3>4, <3>5, <3>7, <4>1, <4>3
      <4>4. CASE l # n /\ j \in DOMAIN stack[l] /\ new[l][j] = stack[l][j]
        BY <2>5, <3>4, <3>7, <4>1, <4>4
      <4>. QED
        BY <3>1, <4>2, <4>3, <4>4
    <3>8. CASE k # n /\ i \in DOMAIN stack[k] /\ new[k][i] = stack[k][i]
      <4>1. new[l][j].name # symbol.name
        BY <2>5, <3>2, <3>8
      <4>2. CASE l = n /\ j - 1 \in DOMAIN stack[l] /\ new[l][j] = stack[l][j - 1]
        BY <2>5, <3>4, <3>8, <4>2
      <4>3. CASE l # n /\ j \in DOMAIN stack[l] /\ new[l][j] = stack[l][j]
        BY <2>5, <3>4, <3>8, <4>3
      <4>. QED
        BY <3>1, <4>1, <4>2, <4>3
    <3>. QED
      BY <3>1, <3>6, <3>7, <3>8
  <2>. QED
    BY <2>3, <2>5 DEF Distinct, new
<1>3. Distinct(Append(stack, <<>>))
  <2>. DEFINE new == Append(stack, <<>>)
  <2>1. DOMAIN new = 1 .. n + 1 /\ new[n + 1] = <<>> /\ \A k \in 1 .. n : new[k] = stack[k]
    BY <1>1
  <2>. HIDE DEF new
  <2>2. \A k \in 1 .. n + 1 : k \in 1 .. n \/ DOMAIN new[k] = {}
    BY <1>1, <2>1
  <2>. QED
    BY <1>1, <2>1, <2>2 DEF Distinct, new
<1>4. ASSUME stack # <<>>
      PROVE  Distinct(Front(stack))
  <2>. DEFINE new == Front(stack)
  <2>1. /\ new \in Seq(Seq(Symbols)) /\ Len(new) = n - 1
        /\ \A k \in 1 .. n - 1 : new[k] = stack[k]
    BY <1>4, FrontLast
  <2>. HIDE DEF new
  <2>2. DOMAIN new = 1 .. n - 1 /\ 1 .. n - 1 \subseteq DOMAIN stack
    BY <1>1, <2>1
  <2>3. Distinct(new)
    <3>1. ASSUME NEW k \in 1 .. n - 1, NEW l \in 1 .. n - 1,
                 NEW i \in DOMAIN new[k], NEW j \in DOMAIN new[l],
                 new[k][i].name = new[l][j].name
          PROVE  k = l /\ i = j
      <4>1. /\ k \in DOMAIN stack /\ l \in DOMAIN stack
            /\ new[k] = stack[k] /\ new[l] = stack[l]
        BY <2>1, <2>2
      <4>. QED
        BY <3>1, <4>1 DEF Distinct
    <3>. QED
      BY <2>2, <3>1 DEF Distinct
  <2>. QED
    BY <2>3 DEF new
<1>. QED
  BY <1>2, <1>3, <1>4

\* A symbol is added to the last list of the stack, or none is.
Grown(stack) ==
  \/ stack = Stack
  \/ /\ search.phase = "up" /\ Missing
     /\ \E symbol \in Symbols : symbol.name = search.name /\ stack = Pushed(Stack, symbol)

\* What is added to the scopes is added to the innermost construct.
LEMMA GrownStack ==
  ASSUME TypeOK, Chain, Climbing, search.saved = <<>>, NEW scs, Extended(scs)
  PROVE  \E stack : /\ Grown(stack)
                    /\ \A k \in 1 .. Len(walk) : stack[k] = scs[walk[k].scope].symbols
<1>. DEFINE n == Len(walk)
<1>1. /\ n \in Nat \ {0} /\ current = walk[n].scope /\ n \in 1 .. n
      /\ \A k \in 1 .. n : walk[k].scope \in 1 .. Len(scopes)
  BY Settled, OnTheWalk, Types
<1>2. /\ Stack \in Seq(Seq(Symbols)) /\ Len(Stack) = n
      /\ \A k \in 1 .. n : Stack[k] = scopes[walk[k].scope].symbols
  BY StackType
<1>3. CASE scs = scopes
  BY <1>2, <1>3 DEF Grown
<1>4. CASE /\ search.phase = "up" /\ Missing
           /\ \E symbol \in Symbols : /\ symbol.name = search.name
                                    /\ scs = WithSymbol(scopes, current, symbol)
  <2>1. PICK symbol \in Symbols : /\ symbol.name = search.name
                                  /\ scs = WithSymbol(scopes, current, symbol)
    BY <1>4
  <2>. DEFINE Push(list) == <<symbol>> \o list
  <2>2. \A s \in 1 .. Len(scopes) :
          scs[s].symbols = IF s = current THEN Push(scopes[s].symbols) ELSE scopes[s].symbols
    <3>1. ScopesType(scopes) /\ current \in DOMAIN scopes
      BY Types
    <3>2. Pushes(scs, scopes, current, symbol)
      BY <2>1, <3>1, WithSymbolAnywhere, Zenon
    <3>. QED
      BY <3>2 DEF Pushes
  <2>. HIDE DEF n
  <2>3. \A k \in 1 .. n : Pushed(Stack, symbol)[k] = IF k = n THEN Push(Stack[n]) ELSE Stack[k]
    <3>. HIDE DEF Push
    <3>1. Pushed(Stack, symbol) = [Stack EXCEPT ![n] = Push(Stack[n])]
      BY <1>2 DEF Pushed, Push
    <3>2. DOMAIN Stack = 1 .. n
      BY <1>2
    <3>. QED
      BY <3>1, <3>2
  <2>. HIDE DEF Push
  <2>4. \A k \in 1 .. n : walk[k].scope = current <=> k = n
    BY <1>1, ChainApart DEF n
  <2>5. ASSUME NEW k \in 1 .. n
        PROVE  Pushed(Stack, symbol)[k] = scs[walk[k].scope].symbols
    <3>1. /\ walk[k].scope \in 1 .. Len(scopes)
          /\ Stack[k] = scopes[walk[k].scope].symbols
      BY <1>1, <1>2
    <3>2. CASE k = n
      BY <1>1, <2>2, <2>3, <3>1, <3>2
    <3>3. CASE k # n
      <4>1. walk[k].scope # current
        BY <2>4, <3>3
      <4>. QED
        BY <2>2, <2>3, <3>1, <3>3, <4>1
    <3>. QED
      BY <3>2, <3>3
  <2>. QED
    BY <1>4, <2>1, <2>5 DEF Grown, n
<1>. QED
  BY <1>3, <1>4 DEF Extended

\* A symbol is only added when the search has found nobody who has the name.
LEMMA GrownDistinct ==
  ASSUME TypeOK, Searching, NoShadowing, NEW stack, Grown(stack)
  PROVE  stack \in Seq(Seq(Symbols)) /\ Len(stack) = Len(walk) /\ Distinct(stack)
<1>1. /\ Stack \in Seq(Seq(Symbols)) /\ Len(Stack) = Len(walk) /\ DOMAIN walk = 1 .. Len(walk)
      /\ \A k \in 1 .. Len(walk) : \A name : Declares(k, name) <=> Has(Stack[k], name)
      /\ Len(walk) \in Nat \ {0}
  BY StackType, OnTheWalk, Types
<1>2. Distinct(Stack)
  BY <1>1, Shadowing
<1>3. CASE stack = Stack
  BY <1>1, <1>2, <1>3
<1>4. ASSUME NEW symbol \in Symbols, search.phase = "up", Missing,
             symbol.name = search.name, stack = Pushed(Stack, symbol)
      PROVE  stack \in Seq(Seq(Symbols)) /\ Len(stack) = Len(walk) /\ Distinct(stack)
  <2>1. \A k \in 1 .. Len(Stack) : ~Has(Stack[k], symbol.name)
    BY <1>1, <1>4 DEF Searching, Nearest
  <2>2. Stack # <<>>
    BY <1>1, EmptySeq
  <2>3. Pushed(Stack, symbol) \in Seq(Seq(Symbols)) /\ Distinct(Pushed(Stack, symbol))
    BY <1>1, <1>2, <2>1, <2>2, DistinctProperties
  <2>4. Len(Pushed(Stack, symbol)) = Len(Stack)
    BY <1>1 DEF Pushed
  <2>. QED
    BY <1>1, <1>4, <2>3, <2>4
<1>. QED
  BY <1>3, <1>4 DEF Grown

\* Every step keeps the names apart.
LEMMA NoShadowingStep ==
  ASSUME TypeOK, TypeOK', Chain, Climbing, Searching, NoShadowing,
         UNCHANGED vars \/ Stays \/ Asks \/ Find \/ Adds \/ Enters \/ Leaves
  PROVE  NoShadowing'
<1>. DEFINE n == Len(walk)
<1>1. /\ n \in Nat \ {0} /\ DOMAIN walk = 1 .. n
      /\ \A k \in 1 .. n : walk[k].scope \in 1 .. Len(scopes)
  BY OnTheWalk, Types
<1>2. /\ Stack \in Seq(Seq(Symbols)) /\ Len(Stack) = n /\ Distinct(Stack)
      /\ \A k \in 1 .. n : Stack[k] = scopes[walk[k].scope].symbols
  BY <1>1, StackType, Shadowing
<1>3. SUFFICES Distinct(Stack')
  BY TypesAfter, ShadowingAfter
<1>4. Stack' = [k \in 1 .. Len(walk') |-> scopes'[walk'[k].scope].symbols]
  BY DEF Stack
<1>. HIDE DEF n
<1>5. CASE UNCHANGED vars \/ Stays \/ Asks \/ Find
  <2>1. scopes' = scopes /\ Len(walk') = n /\ \A k \in 1 .. n : walk'[k].scope = walk[k].scope
    BY <1>5 DEF vars, Stays, Asks, Find, Lookup, LookHere, LookOutside, NotThere, PutBack, n
  <2>2. Stack' = Stack
    BY <1>4, <2>1 DEF Stack, n
  <2>. QED
    BY <1>2, <2>2
<1>6. CASE Adds
  <2>1. /\ Extended(scopes') /\ Len(walk') = n /\ search.saved = <<>>
        /\ \A k \in 1 .. n : walk'[k].scope = walk[k].scope
    BY <1>6 DEF Adds, n
  <2>2. PICK stack : Grown(stack) /\ \A k \in 1 .. n : stack[k] = scopes'[walk[k].scope].symbols
    BY <2>1, GrownStack DEF n
  <2>3. stack \in Seq(Seq(Symbols)) /\ Len(stack) = n /\ Distinct(stack)
    BY <2>2, GrownDistinct DEF n
  <2>4. stack = [k \in 1 .. n |-> stack[k]]
    BY <2>3
  <2>5. Stack' = stack
    BY <1>4, <2>1, <2>2, <2>4
  <2>. QED
    BY <2>3, <2>5
<1>7. CASE Enters
  <2>1. /\ Len(walk') = n + 1 /\ search.saved = <<>>
        /\ walk'[n + 1].scope = Len(scopes) + 1
        /\ \A k \in 1 .. n : walk'[k].scope = walk[k].scope
    BY <1>7 DEF Enters, n
  <2>2. PICK scs : /\ Extended(scs)
                   /\ \A s \in 1 .. Len(scopes) : scopes'[s].symbols = scs[s].symbols
                   /\ scopes'[Len(scopes) + 1].symbols = <<>>
    BY <1>7, EnteredScopes DEF NewScope
  <2>3. PICK stack : Grown(stack) /\ \A k \in 1 .. n : stack[k] = scs[walk[k].scope].symbols
    BY <2>1, <2>2, GrownStack DEF n
  <2>4. stack \in Seq(Seq(Symbols)) /\ Len(stack) = n /\ Distinct(stack)
    BY <2>3, GrownDistinct DEF n
  <2>. DEFINE new == Append(stack, <<>>)
  <2>5. new = [k \in 1 .. n + 1 |-> IF k = n + 1 THEN <<>> ELSE stack[k]]
    <3>1. /\ new \in Seq(Seq(Symbols)) /\ Len(new) = n + 1 /\ new[n + 1] = <<>>
          /\ \A k \in 1 .. n : new[k] = stack[k]
      BY <2>4, AppendProperties
    <3>. HIDE DEF new
    <3>2. new = [k \in 1 .. n + 1 |-> new[k]]
      <4>1. new \in [1 .. Len(new) -> Seq(Symbols)]
        BY <3>1
      <4>. QED
        BY <3>1, <4>1, Zenon
    <3>3. \A k \in 1 .. n + 1 : new[k] = IF k = n + 1 THEN <<>> ELSE stack[k]
      BY <1>1, <3>1
    <3>. QED
      BY <3>2, <3>3
  <2>6. \A k \in 1 .. n + 1 :
          scopes'[walk'[k].scope].symbols = IF k = n + 1 THEN <<>> ELSE stack[k]
    BY <1>1, <2>1, <2>2, <2>3
  <2>7. Stack' = new
    BY <1>4, <2>1, <2>5, <2>6
  <2>. QED
    BY <2>4, <2>7, DistinctProperties
<1>8. CASE Leaves
  <2>1. /\ scopes' = scopes /\ Len(walk') = n - 1 /\ n > 1
        /\ \A k \in 1 .. n - 1 : walk'[k] = walk[k]
    BY <1>8, Types, FrontLast DEF Leaves, n
  <2>2. Stack # <<>>
    BY <1>1, <1>2, EmptySeq
  <2>3. /\ Front(Stack) \in Seq(Seq(Symbols)) /\ Len(Front(Stack)) = n - 1
        /\ \A k \in 1 .. n - 1 : Front(Stack)[k] = Stack[k]
    BY <1>2, <2>2, FrontLast
  <2>4. Front(Stack) = [k \in 1 .. n - 1 |-> Front(Stack)[k]]
    BY <2>3
  <2>5. \A k \in 1 .. n - 1 : scopes'[walk'[k].scope].symbols = Front(Stack)[k]
    BY <1>1, <1>2, <2>1, <2>3
  <2>6. Stack' = Front(Stack)
    BY <1>4, <2>1, <2>4, <2>5
  <2>. QED
    BY <1>2, <2>2, <2>6, DistinctProperties
<1>. QED
  BY <1>5, <1>6, <1>7, <1>8

\* A declaration is not the answer NULL.
LEMMA SymbolsExist == NoSymbol \notin Symbols
<1>1. PICK none : NoSymbol = [name |-> none, kind |-> "none", type |-> none]
  BY Zenon DEF NoSymbol, Symbol
<1>. QED
  BY <1>1 DEF Symbols

\* Every step keeps what the search knows.
LEMMA SearchingStep ==
  ASSUME TypeOK, Chain, Climbing, Searching,
         UNCHANGED vars \/ Stays \/ Asks \/ Find \/ Adds \/ Enters \/ Leaves
  PROVE  Searching'
<1>. DEFINE n == Len(walk)
            m == Len(search.saved)
<1>1. /\ n \in Nat \ {0} /\ m \in Nat /\ search \in Searches /\ DOMAIN walk = 1 .. n
      /\ search.saved \in Seq(DOMAIN scopes)
  BY SearchType, OnTheWalk, Types
<1>2. CASE UNCHANGED vars
  BY <1>2 DEF vars, Searching, Depth, Declares, Nearest, Missing
<1>3. CASE Stays \/ Adds \/ Enters \/ Leaves
  BY <1>3 DEF Stays, Adds, Enters, Leaves, Searching
<1>4. CASE Asks
  <2>1. /\ walk' = walk /\ search'.phase = "down" /\ search'.symbol = NoSymbol
        /\ Len(search'.saved) = 0
    BY <1>4 DEF Asks
  <2>2. Depth' + 1 .. Len(walk') = {}
    BY <1>1, <2>1 DEF Depth
  <2>. QED
    BY <2>1, <2>2 DEF Searching
<1>5. CASE Find
  <2>. DEFINE d == n - m
  <2>1. /\ walk' = walk /\ scopes' = scopes /\ search'.name = search.name
        /\ current = walk[d].scope /\ d \in 1 .. n
    <3>1. walk' = walk /\ scopes' = scopes /\ search'.name = search.name
      BY <1>1, <1>5 DEF Find, Lookup, LookHere, LookOutside, NotThere, PutBack, Searches
    <3>2. m < n /\ current = walk[n - m].scope
      BY DEF Climbing, Depth
    <3>. QED
      BY <1>1, <3>1, <3>2
  <2>2. \A k, name : Declares(k, name)' <=> Declares(k, name)
    BY <2>1 DEF Declares
  <2>3. search.phase = "down" =>
          /\ search.symbol = NoSymbol
          /\ \A k \in d + 1 .. n : ~Declares(k, search.name)
    BY DEF Searching, Depth
  <2>4. Matches = {} <=> ~Declares(d, search.name)
    BY <2>1 DEF Matches, Declares
  <2>. HIDE DEF d
  <2>5. CASE LookHere
    <3>1. PICK i \in Matches : search' = [search EXCEPT !.phase = "up",
                                            !.symbol = scopes[current].symbols[i]]
      BY <2>5 DEF LookHere
    <3>2. /\ search'.phase = "up" /\ search'.symbol = scopes[current].symbols[i]
          /\ i \in DOMAIN scopes[current].symbols
          /\ scopes[current].symbols[i].name = search.name
      BY <1>1, <3>1 DEF Searches, Matches
    <3>3. search'.symbol \in Symbols
      <4>1. scopes[current].symbols \in Seq(Symbols)
        BY SymbolsType, Types
      <4>. QED
        BY <3>2, <4>1
    <3>4. ~Missing'
      BY <3>3, SymbolsExist DEF Missing
    <3>5. search'.symbol \in ToSet(scopes'[walk'[d].scope].symbols)
      BY <2>1, <3>2 DEF ToSet
    <3>6. \A k \in d + 1 .. Len(walk') : ~Declares(k, search.name)'
      BY <2>1, <2>2, <2>3, <2>5 DEF LookHere
    <3>7. Nearest'
      BY <1>1, <2>1, <3>2, <3>4, <3>5, <3>6 DEF Nearest
    <3>. QED
      BY <3>2, <3>7 DEF Searching
  <2>6. CASE LookOutside
    <3>1. /\ search.phase = "down" /\ search'.phase = "down" /\ search'.symbol = search.symbol
          /\ search'.saved = Append(search.saved, current) /\ Matches = {}
      BY <1>1, <2>6 DEF LookOutside, Searches
    <3>2. Depth' + 1 = d
      <4>1. Len(search'.saved) = m + 1
        BY <1>1, <3>1, Types
      <4>. QED
        BY <1>1, <2>1, <4>1 DEF Depth, d
    <3>3. \A k \in d .. n : ~Declares(k, search.name)
      <4>1. \A k \in d .. n : k = d \/ k \in d + 1 .. n
        BY <1>1, <2>1
      <4>. QED
        BY <2>3, <2>4, <3>1, <4>1
    <3>4. \A k \in Depth' + 1 .. Len(walk') : ~Declares(k, search.name)'
      BY <2>1, <2>2, <3>2, <3>3
    <3>. QED
      BY <2>1, <2>3, <3>1, <3>4 DEF Searching
  <2>7. CASE NotThere
    <3>1. /\ search.phase = "down" /\ search'.phase = "up" /\ search'.symbol = search.symbol
          /\ Matches = {} /\ scopes[current].parent = 0
      BY <1>1, <2>7 DEF NotThere, Searches
    <3>2. d = 1
      BY <2>1, <3>1, ParentOnWalk
    <3>3. \A k \in 1 .. n : k = 1 \/ k \in d + 1 .. n
      BY <1>1, <3>2
    <3>4. \A k \in 1 .. n : ~Declares(k, search.name)
      BY <2>3, <2>4, <3>1, <3>2, <3>3
    <3>5. \A k \in DOMAIN walk' : ~Declares(k, search.name)'
      BY <1>1, <2>1, <2>2, <3>4
    <3>6. Missing'
      BY <2>3, <3>1 DEF Missing
    <3>7. Nearest'
      BY <2>1, <3>5, <3>6 DEF Nearest
    <3>. QED
      BY <3>1, <3>7 DEF Searching
  <2>8. CASE PutBack
    <3>1. /\ search.phase = "up" /\ search'.phase = "up" /\ search'.symbol = search.symbol
      BY <1>1, <2>8 DEF PutBack, Searches
    <3>2. Nearest
      BY <3>1 DEF Searching
    <3>3. Missing' <=> Missing
      BY <3>1 DEF Missing
    <3>4. Nearest'
      BY <2>1, <2>2, <3>1, <3>2, <3>3 DEF Nearest
    <3>. QED
      BY <3>1, <3>4 DEF Searching
  <2>. QED
    BY <1>5, <2>5, <2>6, <2>7, <2>8 DEF Find, Lookup
<1>. QED
  BY <1>2, <1>3, <1>4, <1>5

-----------------------------------------------------------------------------
(* The tree of the scopes.                                                 *)

\* The links of the scopes lead to scopes.
LEMMA ChildsType ==
  ASSUME TypeOK
  PROVE  /\ \A s \in 1 .. Len(scopes) : scopes[s].childs \in Seq(1 .. Len(scopes))
         /\ \A s \in 2 .. Len(scopes) : scopes[s].parent \in 1 .. Len(scopes)
<1>1. /\ DOMAIN scopes = 1 .. Len(scopes) /\ Len(scopes) \in Nat
      /\ \A s \in DOMAIN scopes : scopes[s] \in ScopeOver(DOMAIN scopes)
      /\ \A s \in DOMAIN scopes : scopes[s].parent \in 0 .. s - 1 /\ (scopes[s].parent = 0 <=> s = 1)
  BY Types DEF ScopesType
<1>. QED
  BY <1>1 DEF ScopeOver

\* Owned, of the parents up and the lists down of n scopes.
OwnedBy(n, up, down) ==
  /\ \A s \in 2 .. n : \E i \in DOMAIN down[up[s]] : down[up[s]][i] = s
  /\ \A p, q \in 1 .. n : \A i \in DOMAIN down[p], j \in DOMAIN down[q] :
       down[p][i] = down[q][j] => p = q /\ i = j
  /\ \A p \in 1 .. n : Len(down[p]) < n

\* Their types.
LinksType(n, up, down) ==
  \A s \in 1 .. n : down[s] \in Seq(1 .. n) /\ (s # 1 => up[s] \in 1 .. n)

\* One more scope, in front of the list of the scope at.
GrownBy(n, at, up, down, newUp, newDown) ==
  /\ \A s \in 1 .. n : newUp[s] = up[s] /\ (s # at => newDown[s] = down[s])
  /\ newUp[n + 1] = at /\ newDown[n + 1] = <<>>
  /\ newDown[at] = <<n + 1>> \o down[at]

\* The children after that: the new scope, or an older one in the list where it was.
LEMMA ChildsGrow ==
  ASSUME NEW n \in Nat \ {0}, NEW at \in 1 .. n, NEW up, NEW down, NEW newUp, NEW newDown,
         LinksType(n, up, down), GrownBy(n, at, up, down, newUp, newDown),
         NEW p \in 1 .. n + 1, NEW i \in DOMAIN newDown[p]
  PROVE  /\ p \in 1 .. n /\ i \in Nat
         /\ \/ p = at /\ i = 1 /\ newDown[p][i] = n + 1
            \/ /\ p = at /\ i - 1 \in DOMAIN down[p]
               /\ newDown[p][i] = down[p][i - 1] /\ newDown[p][i] # n + 1
            \/ /\ p # at /\ i \in DOMAIN down[p]
               /\ newDown[p][i] = down[p][i] /\ newDown[p][i] # n + 1
<1>1. p \in 1 .. n
  <2>1. p # n + 1
    BY DEF GrownBy
  <2>. QED
    BY <2>1
<1>2. PICK old \in Seq(1 .. n) : old = down[p]
  BY <1>1 DEF LinksType
<1>3. /\ Len(old) \in Nat /\ DOMAIN old = 1 .. Len(old)
      /\ \A k \in 1 .. Len(old) : old[k] \in 1 .. n
      /\ n + 1 \notin 1 .. n
  BY <1>2
<1>4. CASE p # at
  <2>1. newDown[p] = old
    BY <1>1, <1>2, <1>4 DEF GrownBy
  <2>. QED
    BY <1>1, <1>2, <1>3, <1>4, <2>1
<1>5. CASE p = at
  <2>. DEFINE new == <<n + 1>> \o old
  <2>1. newDown[p] = new
    BY <1>2, <1>5 DEF GrownBy
  <2>2. /\ DOMAIN new = 1 .. Len(old) + 1 /\ new[1] = n + 1
        /\ \A k \in 2 .. Len(old) + 1 : new[k] = old[k - 1] /\ k - 1 \in 1 .. Len(old)
    <3>1. old \in Seq(Nat)
      <4>1. 1 .. n \subseteq Nat
        OBVIOUS
      <4>. QED
        BY <1>2, <4>1, SeqMonotonic
    <3>. QED
      BY <3>1, InFront
  <2>. HIDE DEF new
  <2>3. i = 1 \/ i \in 2 .. Len(old) + 1
    BY <1>3, <2>1, <2>2
  <2>4. CASE i = 1
    BY <1>5, <2>1, <2>2, <2>4
  <2>5. CASE i \in 2 .. Len(old) + 1
    <3>1. new[i] = old[i - 1] /\ i - 1 \in 1 .. Len(old)
      BY <2>2, <2>5
    <3>2. new[i] \in 1 .. n /\ i - 1 \in DOMAIN old /\ new[i] # n + 1
      BY <1>3, <3>1
    <3>. QED
      BY <1>1, <1>2, <1>5, <2>1, <2>5, <3>1, <3>2
  <2>. QED
    BY <2>3, <2>4, <2>5
<1>. QED
  BY <1>4, <1>5

\* Such a scope has one place, and the others keep theirs.
LEMMA OwnedGrows ==
  ASSUME NEW n \in Nat \ {0}, NEW at \in 1 .. n, NEW up, NEW down, NEW newUp, NEW newDown,
         LinksType(n, up, down), GrownBy(n, at, up, down, newUp, newDown), OwnedBy(n, up, down)
  PROVE  OwnedBy(n + 1, newUp, newDown)
<1>1. /\ \A s \in 2 .. n : \E i \in DOMAIN down[up[s]] : down[up[s]][i] = s
      /\ \A p, q \in 1 .. n : \A i \in DOMAIN down[p], j \in DOMAIN down[q] :
           down[p][i] = down[q][j] => p = q /\ i = j
      /\ \A p \in 1 .. n : Len(down[p]) < n
  BY DEF OwnedBy
<1>2. /\ \A s \in 1 .. n : newUp[s] = up[s] /\ (s # at => newDown[s] = down[s])
      /\ newUp[n + 1] = at /\ newDown[n + 1] = <<>>
  BY DEF GrownBy
<1>. DEFINE list == down[at]
            new == newDown[at]
<1>3. /\ Len(list) \in Nat /\ DOMAIN list = 1 .. Len(list)
      /\ Len(new) = Len(list) + 1 /\ DOMAIN new = 1 .. Len(list) + 1
      /\ new[1] = n + 1 /\ \A i \in 1 .. Len(list) : new[i + 1] = list[i]
  <2>1. list \in Seq(1 .. n) /\ new = <<n + 1>> \o list
    BY DEF LinksType, GrownBy
  <2>. HIDE DEF list, new
  <2>2. list \in Seq(Nat)
    <3>1. 1 .. n \subseteq Nat
      OBVIOUS
    <3>. QED
      BY <2>1, <3>1, SeqMonotonic
  <2>. QED
    BY <2>1, <2>2, InFront
<1>. HIDE DEF list, new
<1>4. ASSUME NEW s \in 2 .. n + 1
      PROVE  \E i \in DOMAIN newDown[newUp[s]] : newDown[newUp[s]][i] = s
  <2>1. CASE s = n + 1
    <3>1. newUp[s] = at /\ 1 \in DOMAIN new /\ new[1] = s
      BY <1>2, <1>3, <2>1
    <3>. QED
      BY <3>1 DEF new
  <2>2. CASE s \in 2 .. n
    <3>1. up[s] \in 1 .. n /\ newUp[s] = up[s]
      BY <1>2, <2>2 DEF LinksType
    <3>2. PICK p \in 1 .. n : p = up[s]
      BY <3>1
    <3>3. PICK i \in DOMAIN down[p] : down[p][i] = s
      BY <1>1, <2>2, <3>2
    <3>4. CASE p = at
      <4>1. i \in DOMAIN list /\ list[i] = s
        BY <3>3, <3>4 DEF list
      <4>2. i + 1 \in DOMAIN new /\ new[i + 1] = s
        BY <1>3, <4>1
      <4>. QED
        BY <3>1, <3>2, <3>4, <4>2 DEF new
    <3>5. CASE p # at
      BY <1>2, <3>1, <3>2, <3>3, <3>5
    <3>. QED
      BY <3>4, <3>5
  <2>. QED
    BY <2>1, <2>2
<1>5. ASSUME NEW p \in 1 .. n + 1, NEW q \in 1 .. n + 1,
             NEW i \in DOMAIN newDown[p], NEW j \in DOMAIN newDown[q],
             newDown[p][i] = newDown[q][j]
      PROVE  p = q /\ i = j
  <2>1. /\ p \in 1 .. n /\ i \in Nat
        /\ \/ p = at /\ i = 1 /\ newDown[p][i] = n + 1
           \/ /\ p = at /\ i - 1 \in DOMAIN down[p]
              /\ newDown[p][i] = down[p][i - 1] /\ newDown[p][i] # n + 1
           \/ /\ p # at /\ i \in DOMAIN down[p]
              /\ newDown[p][i] = down[p][i] /\ newDown[p][i] # n + 1
    BY ChildsGrow
  <2>2. /\ q \in 1 .. n /\ j \in Nat
        /\ \/ q = at /\ j = 1 /\ newDown[q][j] = n + 1
           \/ /\ q = at /\ j - 1 \in DOMAIN down[q]
              /\ newDown[q][j] = down[q][j - 1] /\ newDown[q][j] # n + 1
           \/ /\ q # at /\ j \in DOMAIN down[q]
              /\ newDown[q][j] = down[q][j] /\ newDown[q][j] # n + 1
    BY ChildsGrow
  <2>3. CASE newDown[p][i] = n + 1
    BY <1>5, <2>1, <2>2, <2>3
  <2>4. CASE p = at /\ q = at /\ newDown[p][i] # n + 1
    <3>1. /\ i - 1 \in DOMAIN down[p] /\ j - 1 \in DOMAIN down[q]
          /\ down[p][i - 1] = down[q][j - 1]
      BY <1>5, <2>1, <2>2, <2>4
    <3>2. i - 1 = j - 1
      BY <1>1, <2>1, <2>2, <3>1
    <3>. QED
      BY <2>1, <2>2, <2>4, <3>2
  <2>5. CASE p # at /\ newDown[p][i] # n + 1
    BY <1>1, <1>5, <2>1, <2>2, <2>5
  <2>6. CASE q # at /\ newDown[p][i] # n + 1
    BY <1>1, <1>5, <2>1, <2>2, <2>6
  <2>. QED
    BY <2>3, <2>4, <2>5, <2>6
<1>6. ASSUME NEW p \in 1 .. n + 1
      PROVE  Len(newDown[p]) < n + 1
  <2>1. CASE p = n + 1
    BY <1>2, <2>1
  <2>2. CASE p = at
    BY <1>1, <1>3, <2>2 DEF list, new
  <2>3. CASE p \in 1 .. n /\ p # at
    <3>1. newDown[p] = down[p] /\ down[p] \in Seq(1 .. n) /\ Len(down[p]) < n
      BY <1>1, <1>2, <2>3 DEF LinksType
    <3>. QED
      BY <3>1
  <2>. QED
    BY <2>1, <2>2, <2>3
<1>. QED
  BY <1>4, <1>5, <1>6 DEF OwnedBy

\* The links of the scopes.
Up(scs) == [s \in 1 .. Len(scs) |-> scs[s].parent]
Down(scs) == [s \in 1 .. Len(scs) |-> scs[s].childs]

\* Owned in these terms.
LEMMA OwnedLinks ==
  ASSUME DOMAIN scopes = 1 .. Len(scopes), \A s \in 2 .. Len(scopes) : scopes[s].parent \in 1 .. Len(scopes)
  PROVE  Owned <=> OwnedBy(Len(scopes), Up(scopes), Down(scopes))
<1>. DEFINE n == Len(scopes)
            up == Up(scopes)
            down == Down(scopes)
<1>1. \A s \in 1 .. n : up[s] = scopes[s].parent /\ down[s] = scopes[s].childs
  BY DEF Up, Down
<1>2. \A s \in 2 .. n : /\ up[s] = scopes[s].parent /\ down[up[s]] = scopes[scopes[s].parent].childs
  BY <1>1
<1>. HIDE DEF up, down
<1>3. (\A s \in 2 .. n : \E i \in DOMAIN down[up[s]] : down[up[s]][i] = s)
      <=> \A s \in 2 .. n : \E i \in DOMAIN scopes[scopes[s].parent].childs :
            scopes[scopes[s].parent].childs[i] = s
  BY <1>2
<1>4. (\A p, q \in 1 .. n : \A i \in DOMAIN down[p], j \in DOMAIN down[q] :
         down[p][i] = down[q][j] => p = q /\ i = j)
      <=> \A p, q \in 1 .. n :
            \A i \in DOMAIN scopes[p].childs, j \in DOMAIN scopes[q].childs :
              scopes[p].childs[i] = scopes[q].childs[j] => p = q /\ i = j
  <2>1. \A p \in 1 .. n : down[p] = scopes[p].childs
    BY <1>1
  <2>2. \A p, q \in 1 .. n :
          (\A i \in DOMAIN down[p], j \in DOMAIN down[q] : down[p][i] = down[q][j] => p = q /\ i = j)
          <=> \A i \in DOMAIN scopes[p].childs, j \in DOMAIN scopes[q].childs :
                scopes[p].childs[i] = scopes[q].childs[j] => p = q /\ i = j
    BY <2>1
  <2>. QED
    BY <2>2, Zenon
<1>5. (\A p \in 1 .. n : Len(down[p]) < n)
      <=> \A p \in 1 .. n : Len(scopes[p].childs) < n
  BY <1>1
<1>6. PICK all : all = DOMAIN scopes /\ all = 1 .. n
  OBVIOUS
<1>7. OwnedBy(n, up, down) <=> Owned
  BY <1>3, <1>4, <1>5, <1>6, Zenon DEF Owned, OwnedBy
<1>. QED
  BY <1>7 DEF up, down

\* The same after a step.
LEMMA OwnedLinksAfter ==
  (DOMAIN scopes = 1 .. Len(scopes) /\ (\A s \in 2 .. Len(scopes) : scopes[s].parent \in 1 .. Len(scopes))
   => (Owned <=> OwnedBy(Len(scopes), Up(scopes), Down(scopes))))'
<1>1. DOMAIN scopes = 1 .. Len(scopes) /\ (\A s \in 2 .. Len(scopes) : scopes[s].parent \in 1 .. Len(scopes))
      => (Owned <=> OwnedBy(Len(scopes), Up(scopes), Down(scopes)))
  BY OwnedLinks
<1>. QED
  BY <1>1, PTL

\* Every step keeps one place for each scope.
LEMMA OwnedStep ==
  ASSUME TypeOK, TypeOK', Owned,
         UNCHANGED vars \/ Stays \/ Asks \/ Find \/ Adds \/ Enters \/ Leaves
  PROVE  Owned'
<1>. DEFINE n == Len(scopes)
<1>1. /\ n \in Nat \ {0} /\ DOMAIN scopes = 1 .. n /\ current \in 1 .. n
      /\ \A s \in 1 .. n : scopes[s].childs \in Seq(1 .. n)
      /\ \A s \in 2 .. n : scopes[s].parent \in 1 .. n
  BY ChildsType, Types
<1>2. OwnedBy(n, Up(scopes), Down(scopes))
  BY <1>1, OwnedLinks
<1>3. CASE UNCHANGED vars \/ Stays \/ Asks \/ Find \/ Leaves
  <2>1. scopes' = scopes
    BY <1>3 DEF vars, Stays, Asks, Leaves, Find, Lookup, LookHere, LookOutside, NotThere, PutBack
  <2>. QED
    BY <2>1 DEF Owned
<1>4. CASE Adds
  <2>1. /\ Len(scopes') = n /\ DOMAIN scopes' = 1 .. n
        /\ \A s \in 1 .. n :
             scopes'[s].parent = scopes[s].parent /\ scopes'[s].childs = scopes[s].childs
    BY <1>1, <1>4, Extension DEF Adds
  <2>2. Up(scopes') = Up(scopes) /\ Down(scopes') = Down(scopes)
    BY <2>1 DEF Up, Down
  <2>3. ASSUME NEW s \in 2 .. n
        PROVE  scopes'[s].parent \in 1 .. n
    <3>1. s \in 1 .. n
      BY <1>1
    <3>. QED
      BY <1>1, <2>1, <3>1
  <2>. QED
    BY <1>2, <2>1, <2>2, <2>3, OwnedLinksAfter
<1>5. CASE Enters
  <2>1. /\ Len(scopes') = n + 1 /\ DOMAIN scopes' = 1 .. n + 1
        /\ \A s \in 1 .. n :
             /\ scopes'[s].parent = scopes[s].parent
             /\ scopes'[s].childs = IF s = current THEN <<n + 1>> \o scopes[s].childs ELSE scopes[s].childs
        /\ scopes'[n + 1].parent = current /\ scopes'[n + 1].childs = <<>>
    BY <1>5, EnteredScopes, TypesAfter DEF Enters, NewScope
  <2>2. GrownBy(n, current, Up(scopes), Down(scopes), Up(scopes'), Down(scopes'))
    <3>1. \A s \in 1 .. n : Up(scopes)[s] = scopes[s].parent /\ Down(scopes)[s] = scopes[s].childs
      BY DEF Up, Down
    <3>2. \A s \in 1 .. n + 1 : Up(scopes')[s] = scopes'[s].parent /\ Down(scopes')[s] = scopes'[s].childs
      BY <2>1 DEF Up, Down
    <3>3. n + 1 \in 1 .. n + 1 /\ \A s \in 1 .. n : s \in 1 .. n + 1
      BY <1>1
    <3>4. Down(scopes')[current] = <<n + 1>> \o Down(scopes)[current]
      BY <1>1, <2>1, <3>1, <3>2, <3>3
    <3>5. \A s \in 1 .. n : /\ Up(scopes')[s] = Up(scopes)[s]
                            /\ s # current => Down(scopes')[s] = Down(scopes)[s]
      BY <2>1, <3>1, <3>2, <3>3
    <3>6. Up(scopes')[n + 1] = current /\ Down(scopes')[n + 1] = <<>>
      BY <2>1, <3>2, <3>3
    <3>. QED
      BY <3>4, <3>5, <3>6 DEF GrownBy
  <2>3. LinksType(n, Up(scopes), Down(scopes))
    BY <1>1 DEF LinksType, Up, Down
  <2>4. OwnedBy(n + 1, Up(scopes'), Down(scopes'))
    BY <1>1, <1>2, <2>2, <2>3, OwnedGrows
  <2>5. ASSUME NEW s \in 2 .. n + 1
        PROVE  scopes'[s].parent \in 1 .. n + 1
    <3>1. s = n + 1 \/ (s \in 2 .. n /\ s \in 1 .. n)
      <4>1. n \in Nat
        BY <1>1
      <4>. HIDE DEF n
      <4>. QED
        BY <4>1
    <3>2. \A p \in 1 .. n : p \in 1 .. n + 1
      BY <1>1
    <3>. QED
      BY <1>1, <2>1, <3>1, <3>2
  <2>. QED
    BY <2>1, <2>4, <2>5, OwnedLinksAfter
<1>. QED
  BY <1>3, <1>4, <1>5

-----------------------------------------------------------------------------
(* The invariant and what follows from it.                                 *)

\* The invariant holds at the start.
LEMMA InitInv == Init => SemInv
<1>. SUFFICES ASSUME Init
              PROVE  SemInv
  OBVIOUS
<1>1. /\ scopes = <<NewScope(0)>> /\ current = 1 /\ search = Idle /\ program \in Programs
      /\ walk = <<Frame(1, <<program.root>>)>> /\ status = "running"
  BY DEF Init, ScopesInit
<1>2. /\ Len(scopes) = 1 /\ DOMAIN scopes = 1 .. 1
      /\ scopes[1].parent = 0 /\ scopes[1].symbols = <<>> /\ scopes[1].childs = <<>>
  BY <1>1 DEF NewScope
<1>3. scopes \in Seq(ScopeOver(DOMAIN scopes))
  <2>1. NewScope(0) \in ScopeOver(DOMAIN scopes)
    BY DEF NewScope, ScopeOver
  <2>. QED
    BY <1>1, <2>1
<1>4. search \in Searches /\ search.phase = "idle" /\ search.saved = <<>>
  BY <1>1, IdleType
<1>5. /\ Len(walk) = 1 /\ DOMAIN walk = 1 .. 1 /\ walk[1].scope = 1
      /\ walk \in Seq(Frames) /\ walk # <<>>
  <2>1. <<program.root>> \in Seq(Visited)
    BY <1>1, NodesVisited
  <2>2. PICK frame : frame = Frame(1, <<program.root>>)
    OBVIOUS
  <2>3. frame \in Frames /\ frame.scope = 1
    BY <1>2, <2>1, <2>2 DEF Frame, Frames
  <2>. QED
    BY <1>1, <2>2, <2>3
<1>6. TypeOK
  BY <1>1, <1>2, <1>3, <1>4, <1>5 DEF TypeOK, ScopeOver, Searches, Frames
<1>7. Chain
  BY <1>2, <1>5 DEF Chain
<1>8. Climbing
  BY <1>1, <1>4, <1>5 DEF Climbing, Depth
<1>9. NoShadowing
  BY <1>2, <1>5 DEF NoShadowing
<1>10. Owned
  BY <1>2 DEF Owned
<1>. QED
  BY <1>1, <1>4, <1>6, <1>7, <1>8, <1>9, <1>10 DEF SemInv, Pending, Searching

\* Every step keeps the invariant.
LEMMA NextInv == SemInv /\ [Next]_vars => SemInv'
<1>. SUFFICES ASSUME SemInv, [Next]_vars
              PROVE  SemInv'
  OBVIOUS
<1>1. program \in Programs /\ TypeOK /\ Pending /\ Chain /\ Climbing /\ Searching /\ NoShadowing /\ Owned
  BY DEF SemInv
<1>2. /\ program' \in Programs /\ TypeOK' /\ Pending'
      /\ UNCHANGED vars \/ Stays \/ Asks \/ Find \/ Adds \/ Enters \/ Leaves
  BY <1>1, Steps
<1>3. Chain' /\ Climbing' /\ Searching' /\ NoShadowing' /\ Owned'
  BY <1>1, <1>2, ChainStep, ClimbingStep, SearchingStep, NoShadowingStep, OwnedStep
<1>. QED
  BY <1>2, <1>3 DEF SemInv

\* The invariant always holds.
LEMMA InvHolds == Spec => []SemInv
BY InitInv, NextInv, PTL DEF Spec

\* TypeOK: the scopes refer to scopes there are and a scope is younger than its
\* parent, whatever the program; the nodes still to visit are such as the
\* validator has cases for.
THEOREM TypeCorrect == Spec => []TypeOK
<1>1. SemInv => TypeOK
  BY DEF SemInv
<1>. QED
  BY <1>1, InvHolds, PTL

\* ScopesNest: the constructs the validator is in have the scopes that
\* lang_scope_enter made for them, each inside the one before, and the searches of
\* lang_find_symbol put back the current one.
THEOREM Nesting == Spec => []ScopesNest
<1>1. ASSUME SemInv
      PROVE  ScopesNest
  <2>1. TypeOK /\ Chain /\ Climbing
    BY <1>1 DEF SemInv
  <2>2. /\ Len(walk) \in Nat \ {0} /\ Top = walk[Len(walk)]
        /\ search.saved \in Seq(DOMAIN scopes)
    BY <2>1, Types, SearchType
  <2>3. Home = Top.scope
    <3>1. CASE search.saved = <<>>
      BY <2>1, <2>2, <3>1, Settled DEF Home
    <3>2. CASE search.saved # <<>>
      <4>1. Len(search.saved) \in Nat \ {0} /\ Head(search.saved) = search.saved[1]
        BY <2>2, <3>2, EmptySeq
      <4>2. search.saved[1] = walk[Len(walk) + 1 - 1].scope
        BY <2>1, <4>1 DEF Climbing
      <4>. QED
        BY <2>2, <3>2, <4>1, <4>2 DEF Home
    <3>. QED
      BY <3>1, <3>2
  <2>. QED
    BY <2>1, <2>3 DEF Chain, ScopesNest
<1>. QED
  BY <1>1, InvHolds, PTL

\* NoShadowing: lang_add_symbol lets no name be declared twice in the scopes that
\* are open together.
THEOREM NamesUnique == Spec => []NoShadowing
<1>1. SemInv => NoShadowing
  BY DEF SemInv
<1>. QED
  BY <1>1, InvHolds, PTL

\* FindsNearest: lang_find_symbol, which moves the current scope up and puts it
\* back, answers with the innermost declaration there is.
THEOREM NearestFound == Spec => []FindsNearest
<1>1. SemInv => FindsNearest
  BY DEF SemInv, Searching, Nearest, Answered, FindsNearest
<1>. QED
  BY <1>1, InvHolds, PTL

\* EveryScopeOwned: lang_free comes to every scope once, by the lists of children.
THEOREM ScopesOwned == Spec => []EveryScopeOwned
<1>1. ASSUME SemInv
      PROVE  EveryScopeOwned
  <2>. DEFINE n == Len(scopes)
              at(s) == {a \in (DOMAIN scopes) \X (1 .. n) :
                          /\ a[2] \in DOMAIN scopes[a[1]].childs
                          /\ scopes[a[1]].childs[a[2]] = s}
  <2>1. /\ TypeOK /\ Owned /\ DOMAIN scopes = 1 .. n /\ n \in Nat
        /\ \A s \in 1 .. n : scopes[s].childs \in Seq(1 .. n)
        /\ \A s \in 2 .. n : scopes[s].parent \in 1 .. n
    BY <1>1, Types, ChildsType DEF SemInv
  <2>2. ASSUME NEW s \in 2 .. n
        PROVE  Cardinality(at(s)) = 1 /\ s \in ToSet(scopes[scopes[s].parent].childs)
    <3>1. PICK p \in 1 .. n : p = scopes[s].parent
      BY <2>1
    <3>2. PICK i \in DOMAIN scopes[p].childs : scopes[p].childs[i] = s
      BY <2>1, <3>1 DEF Owned
    <3>3. i \in 1 .. n
      <4>1. scopes[p].childs \in Seq(1 .. n) /\ Len(scopes[p].childs) < n
        BY <2>1 DEF Owned
      <4>. QED
        BY <2>1, <4>1
    <3>4. <<p, i>> \in at(s)
      BY <2>1, <3>2, <3>3
    <3>5. ASSUME NEW a \in at(s)
          PROVE  a = <<p, i>>
      <4>1. a \in (1 .. n) \X (1 .. n) /\ a[1] \in 1 .. n
        BY <2>1
      <4>2. a[2] \in DOMAIN scopes[a[1]].childs /\ scopes[a[1]].childs[a[2]] = s
        OBVIOUS
      <4>3. PICK q, j : a = <<q, j>> /\ q = a[1] /\ j = a[2]
        BY <4>1
      <4>4. q \in DOMAIN scopes /\ j \in DOMAIN scopes[q].childs /\ scopes[q].childs[j] = s
        BY <2>1, <4>1, <4>2, <4>3
      <4>5. \A r, t \in DOMAIN scopes : \A k \in DOMAIN scopes[r].childs, l \in DOMAIN scopes[t].childs :
              scopes[r].childs[k] = scopes[t].childs[l] => r = t /\ k = l
        BY <2>1 DEF Owned
      <4>6. p \in DOMAIN scopes
        BY <2>1
      <4>7. q = p /\ j = i
        BY <3>2, <4>4, <4>5, <4>6
      <4>. QED
        BY <4>3, <4>7
    <3>. HIDE DEF at
    <3>6. at(s) = {<<p, i>>}
      BY <3>4, <3>5
    <3>7. s \in ToSet(scopes[p].childs)
      BY <3>2 DEF ToSet
    <3>. QED
      BY <3>1, <3>6, <3>7, FS_Singleton
  <2>. QED
    BY <2>2 DEF EveryScopeOwned
<1>. QED
  BY <1>1, InvHolds, PTL

-----------------------------------------------------------------------------
(* The rules of names.                                                     *)

\* The nodes of the trees and those below them.
LEMMA WalkedNodes ==
  ASSUME NEW node \in Walked
  PROVE  /\ node.name \in STRING /\ node.info \in STRING /\ node.type # "MEMBER"
         /\ node.operands \in Seq(Nodes) /\ node.args \in Seq(Nodes) /\ node.body \in Seq(Nodes)
         /\ node.type = "EXPRESSION" => Len(node.operands) \in {1, 2}
         /\ node.type = "EXPRESSION" /\ node.name = "." => Len(node.operands) = 2
         /\ DeclarationOf(node) \in Declaration
<1>1. IsNodeOver(Nodes, node) /\ node.type # "MEMBER"
  <2>1. CASE node \in Nodes
    BY <2>1, NodesAssumption
  <2>2. CASE \E p \in Programs : node = p.root
    BY <2>2, ProgramsAssumption
  <2>. QED
    BY <2>1, <2>2 DEF Walked
<1>2. /\ node.name \in STRING /\ node.info \in STRING
      /\ node.operands \in Seq(Nodes) /\ node.args \in Seq(Nodes) /\ node.body \in Seq(Nodes)
  BY <1>1 DEF IsNodeOver
<1>3. /\ node.type = "EXPRESSION" => Len(node.operands) \in {1, 2}
      /\ node.type = "EXPRESSION" /\ node.name = "." => Len(node.operands) = 2
  BY <1>1 DEF IsNodeOver, IsExpression
<1>4. DeclarationOf(node) \in Declaration
  BY <1>2 DEF DeclarationOf, Declaration
<1>. QED
  BY <1>1, <1>2, <1>3, <1>4

\* A list is below the node it belongs to.
LEMMA BelowNode ==
  ASSUME NEW node \in Walked
  PROVE  /\ \A i \in DOMAIN node.body : node.body[i] \in Children(node) \cap Walked
         /\ \A i \in DOMAIN (node.args \o node.body) : (node.args \o node.body)[i] \in Children(node) \cap Walked
         /\ node.type = "EXPRESSION" =>
              /\ OperandsOf(node) \in Seq(Nodes)
              /\ \A i \in DOMAIN OperandsOf(node) : OperandsOf(node)[i] \in Children(node) \cap Walked
         /\ node.type = "EXPRESSION" /\ node.name = "." =>
              /\ node.operands[1] \in Nodes
              /\ node.operands[2] \in Children(node) \cap Walked /\ node.operands[2] \in Nodes
<1>1. /\ node.operands \in Seq(Nodes) /\ node.args \in Seq(Nodes) /\ node.body \in Seq(Nodes)
      /\ node.type = "EXPRESSION" => Len(node.operands) \in {1, 2}
      /\ node.type = "EXPRESSION" /\ node.name = "." => Len(node.operands) = 2
  BY WalkedNodes
<1>2. /\ \A i \in DOMAIN node.operands : node.operands[i] \in Children(node) \cap Walked /\ node.operands[i] \in Nodes
      /\ \A i \in DOMAIN node.args : node.args[i] \in Children(node) \cap Walked /\ node.args[i] \in Nodes
      /\ \A i \in DOMAIN node.body : node.body[i] \in Children(node) \cap Walked /\ node.body[i] \in Nodes
  BY <1>1 DEF Children, ToSet, Walked
<1>3. \A i \in DOMAIN (node.args \o node.body) : (node.args \o node.body)[i] \in Children(node) \cap Walked
  <2>1. ASSUME NEW i \in DOMAIN (node.args \o node.body)
        PROVE  (node.args \o node.body)[i] \in Children(node) \cap Walked
    <3>. DEFINE C == Children(node) \cap Walked
    <3>1. node.args \in Seq(C) /\ node.body \in Seq(C)
      <4>1. \A j \in 1 .. Len(node.args) : node.args[j] \in C
        BY <1>1, <1>2
      <4>2. \A j \in 1 .. Len(node.body) : node.body[j] \in C
        BY <1>1, <1>2
      <4>. HIDE DEF C
      <4>3. \A s \in Seq(Nodes) : (\A j \in 1 .. Len(s) : s[j] \in C) => s \in Seq(C)
        OBVIOUS
      <4>. QED
        BY <1>1, <4>1, <4>2, <4>3
    <3>. HIDE DEF C
    <3>. DEFINE both == node.args \o node.body
    <3>2. both \in Seq(C)
      BY <3>1
    <3>3. i \in DOMAIN both
      OBVIOUS
    <3>. HIDE DEF both
    <3>4. both[i] \in C
      BY <3>2, <3>3
    <3>5. (node.args \o node.body)[i] \in C
      BY <3>4 DEF both
    <3>. QED
      BY <3>5 DEF C
  <2>. QED
    BY <2>1
<1>4. ASSUME node.type = "EXPRESSION"
      PROVE  /\ OperandsOf(node) \in Seq(Nodes)
             /\ \A i \in DOMAIN OperandsOf(node) : OperandsOf(node)[i] \in Children(node) \cap Walked
  <2>1. 1 \in DOMAIN node.operands
    BY <1>1, <1>4
  <2>2. CASE OperandsOf(node) = node.operands
    BY <1>1, <1>2, <2>2
  <2>3. CASE OperandsOf(node) = <<node.operands[1]>>
    BY <1>2, <2>1, <2>3
  <2>. QED
    BY <2>2, <2>3 DEF OperandsOf
<1>5. ASSUME node.type = "EXPRESSION", node.name = "."
      PROVE  /\ node.operands[1] \in Nodes
             /\ node.operands[2] \in Children(node) \cap Walked /\ node.operands[2] \in Nodes
  <2>1. 1 \in DOMAIN node.operands /\ 2 \in DOMAIN node.operands
    BY <1>1, <1>5
  <2>. QED
    BY <1>2, <2>1
<1>. QED
  BY <1>2, <1>3, <1>4, <1>5

\* What the trees declare.
DeclaredSettled ==
  /\ Declared(Walked) \in [Walked -> SUBSET Declaration]
  /\ \A n \in Walked : Declared(Walked)[n] = DeclaredAt(Declared(Walked), n)

\* What a node declares depends on the nodes below it only.
LEMMA DeclaredFromBelow ==
  ASSUME NEW n \in Walked, NEW f, NEW g, \A m \in Children(n) \cap Walked : f[m] = g[m]
  PROVE  DeclaredAt(f, n) = DeclaredAt(g, n)
<1>1. CASE n.type \in {"DECL_VARIABLE", "DECL_FUNCTION"}
  BY <1>1 DEF DeclaredAt
<1>2. CASE n.type = "EXPRESSION" /\ n.name # "."
  <2>1. \A m \in ToSet(OperandsOf(n)) : f[m] = g[m]
    BY <1>2, BelowNode DEF ToSet
  <2>2. {f[m] : m \in ToSet(OperandsOf(n))} = {g[m] : m \in ToSet(OperandsOf(n))}
    BY <2>1
  <2>3. /\ DeclaredAt(f, n) = UNION {f[m] : m \in ToSet(OperandsOf(n))}
        /\ DeclaredAt(g, n) = UNION {g[m] : m \in ToSet(OperandsOf(n))}
    BY <1>2 DEF DeclaredAt
  <2>. QED
    BY <2>2, <2>3
<1>3. CASE /\ n.type \notin {"DECL_VARIABLE", "DECL_FUNCTION"}
           /\ ~(n.type = "EXPRESSION" /\ n.name # ".")
  BY <1>3 DEF DeclaredAt
<1>. QED
  BY <1>1, <1>2, <1>3

\* What a node declares are declarations.
LEMMA DeclaredType ==
  ASSUME NEW f \in [Walked -> SUBSET Declaration], NEW n \in Walked
  PROVE  DeclaredAt(f, n) \in SUBSET Declaration
<1>1. CASE n.type \in {"DECL_VARIABLE", "DECL_FUNCTION"}
  BY <1>1, WalkedNodes DEF DeclaredAt
<1>2. CASE n.type = "EXPRESSION" /\ n.name # "."
  <2>1. \A m \in ToSet(OperandsOf(n)) : f[m] \in SUBSET Declaration
    BY <1>2, BelowNode DEF ToSet
  <2>2. DeclaredAt(f, n) = UNION {f[m] : m \in ToSet(OperandsOf(n))}
    BY <1>2 DEF DeclaredAt
  <2>. QED
    BY <2>1, <2>2
<1>3. CASE /\ n.type \notin {"DECL_VARIABLE", "DECL_FUNCTION"}
           /\ ~(n.type = "EXPRESSION" /\ n.name # ".")
  BY <1>3 DEF DeclaredAt
<1>. QED
  BY <1>1, <1>2, <1>3

\* In finite trees the declarations are what their definition says.
LEMMA DeclaredDefined ==
  ASSUME FiniteTrees(Walked)
  PROVE  DeclaredSettled
<1>. DEFINE V == SUBSET Declaration
            Step == [p \in Walked \X [Walked -> V] |-> DeclaredAt(p[2], p[1])]
            Is(t) == t = [n \in Walked |-> DeclaredAt(t, n)]
<1>1. PICK height \in [Walked -> Nat] :
        \A n \in Walked : \A child \in Children(n) : height[child] < height[n]
  BY DEF FiniteTrees, IsHeight
<1>2. Step \in [Walked \X [Walked -> V] -> V] /\ V # {}
  <2>1. \A p \in Walked \X [Walked -> V] : DeclaredAt(p[2], p[1]) \in V
    BY DeclaredType
  <2>. HIDE DEF V
  <2>2. Step \in [Walked \X [Walked -> V] -> V]
    BY <2>1
  <2>. QED
    BY <2>2 DEF V
<1>3. \A n \in Walked, f \in [Walked -> V] : Step[<<n, f>>] = DeclaredAt(f, n)
  <2>. HIDE DEF V
  <2>. QED
    OBVIOUS
<1>4. ASSUME NEW n \in Walked, NEW f, NEW g,
             \A m \in Walked : height[m] < height[n] => f[m] = g[m]
      PROVE  DeclaredAt(f, n) = DeclaredAt(g, n)
  <2>1. \A m \in Children(n) \cap Walked : f[m] = g[m]
    BY <1>1, <1>4
  <2>. QED
    BY <2>1, DeclaredFromBelow
<1>5. PICK f \in [Walked -> V] : \A n \in Walked : f[n] = DeclaredAt(f, n)
  <2>. HIDE DEF Step, V
  <2>1. \A n \in Walked : \A f, g \in [Walked -> V] :
          (\A m \in Walked : height[m] < height[n] => f[m] = g[m]) => Step[<<n, f>>] = Step[<<n, g>>]
    BY <1>3, <1>4
  <2>2. Descends(Walked, V, height, Step)
    BY <2>1, Zenon DEF Descends
  <2>3. \E f \in [Walked -> V] : Solves(f, Walked, Step)
    BY <1>1, <1>2, <2>2, RecursionExists
  <2>. QED
    BY <1>3, <2>3 DEF Solves
<1>6. Is(f)
  <2>1. f = [n \in Walked |-> f[n]]
    OBVIOUS
  <2>. QED
    BY <1>5, <2>1
<1>7. Declared(Walked) = CHOOSE t : Is(t)
  BY DEF Declared
<1>8. Is(Declared(Walked))
  <2>. HIDE DEF Is
  <2>. QED
    BY <1>6, <1>7
<1>9. \A n \in Walked : Declared(Walked)[n] = DeclaredAt(Declared(Walked), n)
  BY <1>8
<1>10. \A n \in Walked : Declared(Walked)[n] = f[n]
  <2>. DEFINE g == Declared(Walked)
  <2>1. \A n \in Walked : g[n] = DeclaredAt(g, n)
    BY <1>9
  <2>. HIDE DEF g
  <2>2. \A n \in Walked : (\A m \in Walked : height[m] < height[n] => g[m] = f[m]) => g[n] = f[n]
    BY <1>4, <1>5, <2>1
  <2>3. \A n \in Walked : g[n] = f[n]
    BY ONLY <1>1, <2>2, SameFromBelow
  <2>. QED
    BY <2>3 DEF g
<1>11. Declared(Walked) \in [Walked -> V]
  <2>. DEFINE g == Declared(Walked)
  <2>1. g = [n \in Walked |-> g[n]]
    BY <1>8
  <2>2. \A n \in Walked : g[n] \in V
    BY <1>10
  <2>. HIDE DEF g, V
  <2>3. g \in [Walked -> V]
    BY <2>1, <2>2
  <2>. QED
    BY <2>3 DEF g
<1>. QED
  BY <1>9, <1>11 DEF DeclaredSettled

\* Whether an access fits the fields depends on the nodes below it only.
LEMMA FieldsFromBelow ==
  ASSUME NEW n \in MemberAccesses(Walked), NEW structs, NEW type, NEW f, NEW g,
         \A m \in Children(n) \cap MemberAccesses(Walked) : f[m] = g[m]
  PROVE  FieldsFitAt(f, structs, n, type) = FieldsFitAt(g, structs, n, type)
<1>. DEFINE r == n.operands[2]
<1>1. n \in Walked /\ n.type = "EXPRESSION" /\ n.name = "."
  BY DEF MemberAccesses, IsExpression
<1>2. r \in Children(n) \cap Walked
  BY <1>1, BelowNode
<1>3. IsExpression(r, {"."}) => f[r] = g[r]
  BY <1>2 DEF MemberAccesses
<1>. QED
  BY <1>3 DEF FieldsFitAt

\* The accesses fit the fields of these structs as the definition says.
FieldsSettled(structs) ==
  \A n \in MemberAccesses(Walked), type \in STRING :
    FieldsFit(Walked, structs)[n][type] = FieldsFitAt(FieldsFit(Walked, structs), structs, n, type)

\* So it is in finite trees.
LEMMA FieldsDefined ==
  ASSUME FiniteTrees(Walked), NEW structs
  PROVE  FieldsSettled(structs)
<1>. DEFINE N == MemberAccesses(Walked)
            V == [STRING -> BOOLEAN]
            Row(t, n) == [type \in STRING |-> FieldsFitAt(t, structs, n, type)]
            Step == [p \in N \X [N -> V] |-> Row(p[2], p[1])]
            Is(t) == t = [n \in N |-> Row(t, n)]
<1>1. PICK height \in [N -> Nat] :
        \A n \in N : \A child \in Children(n) \cap N : height[child] < height[n]
  <2>1. PICK all \in [Walked -> Nat] : \A n \in Walked : \A child \in Children(n) : all[child] < all[n]
    BY DEF FiniteTrees, IsHeight
  <2>2. N \subseteq Walked
    BY DEF MemberAccesses
  <2>. HIDE DEF N
  <2>3. [n \in N |-> all[n]] \in [N -> Nat]
    BY <2>1, <2>2
  <2>. QED
    BY <2>1, <2>2, <2>3
<1>2. \A t, n : Row(t, n) \in V
  BY DEF FieldsFitAt
<1>3. Step \in [N \X [N -> V] -> V] /\ V # {}
  <2>1. V # {}
    BY <1>2
  <2>. HIDE DEF V, Row, N
  <2>. QED
    BY <1>2, <2>1
<1>4. \A n \in N, f \in [N -> V] : Step[<<n, f>>] = Row(f, n)
  <2>. HIDE DEF V, Row, N
  <2>. QED
    OBVIOUS
<1>5. ASSUME NEW n \in N, NEW f, NEW g,
             \A m \in N : height[m] < height[n] => f[m] = g[m]
      PROVE  Row(f, n) = Row(g, n)
  <2>1. \A m \in Children(n) \cap N : f[m] = g[m]
    BY <1>1, <1>5
  <2>2. ASSUME NEW type
        PROVE  FieldsFitAt(f, structs, n, type) = FieldsFitAt(g, structs, n, type)
    BY ONLY <1>5, <2>1, FieldsFromBelow
  <2>. QED
    BY <2>2
<1>6. PICK f \in [N -> V] : \A n \in N : f[n] = Row(f, n)
  <2>. HIDE DEF Step, V, Row, N
  <2>1. \A n \in N : \A f, g \in [N -> V] :
          (\A m \in N : height[m] < height[n] => f[m] = g[m]) => Step[<<n, f>>] = Step[<<n, g>>]
    BY <1>4, <1>5
  <2>2. Descends(N, V, height, Step)
    BY <2>1, Zenon DEF Descends
  <2>3. \E f \in [N -> V] : Solves(f, N, Step)
    BY <1>1, <1>3, <2>2, RecursionExists
  <2>. QED
    BY <1>4, <2>3 DEF Solves
<1>7. Is(f)
  <2>. HIDE DEF Row, N, V
  <2>1. f = [n \in N |-> f[n]]
    OBVIOUS
  <2>. QED
    BY <1>6, <2>1
<1>8. FieldsFit(Walked, structs) = CHOOSE t : Is(t)
  BY DEF FieldsFit
<1>9. Is(FieldsFit(Walked, structs))
  <2>. HIDE DEF Is
  <2>. QED
    BY <1>7, <1>8
<1>. QED
  BY <1>9 DEF FieldsSettled

\* A list follows the rules or not, and so does a node.
LEMMA FollowsType ==
  ASSUME NEW follows, NEW declared, NEW fields, NEW node, NEW decls
  PROVE  FollowsAt(follows, declared, fields, node, decls) \in BOOLEAN
<1>1. \A nodes, before : Together(follows, declared, before, nodes) \in BOOLEAN
  BY DEF Together
<1>. DEFINE x == FollowsAt(follows, declared, fields, node, decls)
            L(before, nodes) == Together(follows, declared, before, nodes)
            E == \E d \in decls : d.name = IdOf(node.operands[1]) /\ fields[node][d.type]
            F == \E d \in decls : d.name = node.name /\ d.isFunction
            I == node.name \in NamesOf(decls)
<1>2. \/ x = L(decls, node.body) \/ x = L(decls, node.args \o node.body) \/ x = (~I)
      \/ x = (~I /\ L(decls \cup {DeclarationOf(node)}, node.args \o node.body))
      \/ x = I \/ x = F \/ x = E \/ x = L(decls, OperandsOf(node)) \/ x = TRUE
  <2>1. node.type = "ROOT" => x = L(decls, node.body)
    BY Zenon DEF FollowsAt
  <2>2. node.type = "KEYWORD" => x = L(decls, node.args \o node.body)
    BY Zenon DEF FollowsAt
  <2>3. node.type = "DECL_VARIABLE" => x = (~I)
    BY Zenon DEF FollowsAt
  <2>4. node.type = "DECL_FUNCTION" =>
          x = (~I /\ L(decls \cup {DeclarationOf(node)}, node.args \o node.body))
    BY Zenon DEF FollowsAt
  <2>5. node.type = "IDENTIFIER" => x = I
    BY Zenon DEF FollowsAt
  <2>6. node.type = "FUNCTION_CALL" => x = F
    BY Zenon DEF FollowsAt
  <2>7. node.type = "EXPRESSION" /\ node.name = "." => x = E
    BY Zenon DEF FollowsAt
  <2>8. node.type = "EXPRESSION" /\ node.name # "." => x = L(decls, OperandsOf(node))
    BY Zenon DEF FollowsAt
  <2>9. node.type \notin {"ROOT", "KEYWORD", "DECL_VARIABLE", "DECL_FUNCTION", "IDENTIFIER",
                          "FUNCTION_CALL", "EXPRESSION"} => x = TRUE
    BY Zenon DEF FollowsAt
  <2>. HIDE DEF x, L, E, F, I
  <2>. QED
    BY <2>1, <2>2, <2>3, <2>4, <2>5, <2>6, <2>7, <2>8, <2>9
<1>3. E \in BOOLEAN /\ F \in BOOLEAN /\ I \in BOOLEAN
  OBVIOUS
<1>. HIDE DEF x, L, E, F, I
<1>4. \A nodes, before : L(before, nodes) \in BOOLEAN
  BY <1>1 DEF L
<1>5. x \in BOOLEAN
  BY <1>2, <1>3, <1>4
<1>. QED
  BY <1>5 DEF x

\* What a node has to follow depends on the nodes below it only.
LEMMA FollowsFromBelow ==
  ASSUME NEW n \in Walked, NEW declared, NEW fields, NEW decls, NEW f, NEW g,
         \A m \in Children(n) \cap Walked : f[m] = g[m]
  PROVE  FollowsAt(f, declared, fields, n, decls) = FollowsAt(g, declared, fields, n, decls)
<1>1. ASSUME NEW nodes, NEW before, \A i \in DOMAIN nodes : nodes[i] \in Children(n) \cap Walked
      PROVE  Together(f, declared, before, nodes) = Together(g, declared, before, nodes)
  BY <1>1 DEF Together
<1>. DEFINE F(t) == FollowsAt(t, declared, fields, n, decls)
            L(t, before, nodes) == Together(t, declared, before, nodes)
<1>2. /\ \A before : L(f, before, n.body) = L(g, before, n.body)
      /\ \A before : L(f, before, n.args \o n.body) = L(g, before, n.args \o n.body)
      /\ n.type = "EXPRESSION" => \A before : L(f, before, OperandsOf(n)) = L(g, before, OperandsOf(n))
  BY <1>1, BelowNode
<1>3. CASE n.type = "ROOT"
  <2>1. \A t : F(t) = L(t, decls, n.body)
    BY <1>3, Zenon DEF FollowsAt
  <2>. HIDE DEF F, L
  <2>2. F(f) = F(g)
    BY <1>2, <1>3, <2>1
  <2>. QED
    BY <2>2 DEF F
<1>4. CASE n.type = "KEYWORD"
  <2>1. \A t : F(t) = L(t, decls, n.args \o n.body)
    BY <1>4, Zenon DEF FollowsAt
  <2>. HIDE DEF F, L
  <2>2. F(f) = F(g)
    BY <1>2, <1>4, <2>1
  <2>. QED
    BY <2>2 DEF F
<1>5. CASE n.type = "DECL_FUNCTION"
  <2>1. \A t : F(t) = (n.name \notin NamesOf(decls) /\ L(t, decls \cup {DeclarationOf(n)}, n.args \o n.body))
    BY <1>5, Zenon DEF FollowsAt
  <2>. HIDE DEF F, L
  <2>2. F(f) = F(g)
    BY <1>2, <1>5, <2>1
  <2>. QED
    BY <2>2 DEF F
<1>6. CASE n.type = "EXPRESSION" /\ n.name # "."
  <2>1. \A t : F(t) = L(t, decls, OperandsOf(n))
    BY <1>6, Zenon DEF FollowsAt
  <2>. HIDE DEF F, L
  <2>2. F(f) = F(g)
    BY <1>2, <1>6, <2>1
  <2>. QED
    BY <2>2 DEF F
<1>7. CASE n.type \in {"DECL_VARIABLE", "IDENTIFIER", "FUNCTION_CALL"} \/ (n.type = "EXPRESSION" /\ n.name = ".")
  <2>1. n.type = "DECL_VARIABLE" => \A t : F(t) = (n.name \notin NamesOf(decls))
    BY Zenon DEF FollowsAt
  <2>2. n.type = "IDENTIFIER" => \A t : F(t) = (n.name \in NamesOf(decls))
    BY Zenon DEF FollowsAt
  <2>3. n.type = "FUNCTION_CALL" => \A t : F(t) = (\E d \in decls : d.name = n.name /\ d.isFunction)
    BY Zenon DEF FollowsAt
  <2>4. n.type = "EXPRESSION" /\ n.name = "." =>
          \A t : F(t) = (\E d \in decls : d.name = IdOf(n.operands[1]) /\ fields[n][d.type])
    BY Zenon DEF FollowsAt
  <2>. HIDE DEF F
  <2>5. F(f) = F(g)
    BY <1>7, <2>1, <2>2, <2>3, <2>4
  <2>. QED
    BY <2>5 DEF F
<1>8. CASE n.type \notin {"ROOT", "KEYWORD", "DECL_VARIABLE", "DECL_FUNCTION", "IDENTIFIER",
                          "FUNCTION_CALL", "EXPRESSION"}
  BY <1>8, Zenon DEF FollowsAt
<1>. QED
  BY <1>3, <1>4, <1>5, <1>6, <1>7, <1>8

\* The nodes follow the rules if their definition says so.
FollowsSettled(structs) ==
  \A n \in Walked, decls \in SUBSET Declaration :
    Follows(Walked, structs)[n][decls] =
      FollowsAt(Follows(Walked, structs), Declared(Walked), FieldsFit(Walked, structs), n, decls)

\* So it is in finite trees.
LEMMA FollowsDefined ==
  ASSUME FiniteTrees(Walked), NEW structs
  PROVE  FollowsSettled(structs)
<1>. DEFINE N == Walked
            V == [SUBSET Declaration -> BOOLEAN]
            Row(t, n) == [decls \in SUBSET Declaration |->
                            FollowsAt(t, Declared(Walked), FieldsFit(Walked, structs), n, decls)]
            Step == [p \in N \X [N -> V] |-> Row(p[2], p[1])]
            Is(t) == t = [n \in N |-> Row(t, n)]
<1>1. PICK height \in [N -> Nat] : \A n \in N : \A child \in Children(n) : height[child] < height[n]
  BY DEF FiniteTrees, IsHeight
<1>2. \A t, n : Row(t, n) \in V
  BY FollowsType
<1>3. Step \in [N \X [N -> V] -> V] /\ V # {}
  <2>1. V # {}
    BY <1>2
  <2>. HIDE DEF V, Row, N
  <2>. QED
    BY <1>2, <2>1
<1>4. \A n \in N, f \in [N -> V] : Step[<<n, f>>] = Row(f, n)
  <2>. HIDE DEF V, Row, N
  <2>. QED
    OBVIOUS
<1>5. ASSUME NEW n \in N, NEW f, NEW g,
             \A m \in N : height[m] < height[n] => f[m] = g[m]
      PROVE  Row(f, n) = Row(g, n)
  <2>1. \A m \in Children(n) \cap Walked : f[m] = g[m]
    BY <1>1, <1>5
  <2>2. ASSUME NEW decls, NEW declared, NEW fields
        PROVE  FollowsAt(f, declared, fields, n, decls) = FollowsAt(g, declared, fields, n, decls)
    BY ONLY <1>5, <2>1, FollowsFromBelow
  <2>. QED
    BY <2>2
<1>6. PICK f \in [N -> V] : \A n \in N : f[n] = Row(f, n)
  <2>. HIDE DEF Step, V, Row, N
  <2>1. \A n \in N : \A f, g \in [N -> V] :
          (\A m \in N : height[m] < height[n] => f[m] = g[m]) => Step[<<n, f>>] = Step[<<n, g>>]
    BY <1>4, <1>5
  <2>2. Descends(N, V, height, Step)
    BY <2>1, Zenon DEF Descends
  <2>3. \E f \in [N -> V] : Solves(f, N, Step)
    BY <1>1, <1>3, <2>2, RecursionExists
  <2>. QED
    BY <1>4, <2>3 DEF Solves
<1>7. Is(f)
  <2>. HIDE DEF Row, N, V
  <2>1. f = [n \in N |-> f[n]]
    OBVIOUS
  <2>. QED
    BY <1>6, <2>1
<1>8. Follows(Walked, structs) = CHOOSE t : Is(t)
  BY DEF Follows
<1>9. Is(Follows(Walked, structs))
  <2>. HIDE DEF Is
  <2>. QED
    BY <1>7, <1>8
<1>10. ASSUME NEW n \in N, NEW decls \in SUBSET Declaration
       PROVE  Follows(Walked, structs)[n][decls] =
                FollowsAt(Follows(Walked, structs), Declared(Walked), FieldsFit(Walked, structs), n, decls)
  <2>. DEFINE t == Follows(Walked, structs)
  <2>1. t[n] = Row(t, n)
    <3>1. t = [m \in N |-> Row(t, m)]
      BY <1>9
    <3>. HIDE DEF t, Row
    <3>. QED
      BY <3>1
  <2>2. Row(t, n)[decls] = FollowsAt(t, Declared(Walked), FieldsFit(Walked, structs), n, decls)
    <3>. HIDE DEF t
    <3>. QED
      OBVIOUS
  <2>. QED
    BY <2>1, <2>2, Zenon
<1>. QED
  BY <1>10, Zenon DEF FollowsSettled

-----------------------------------------------------------------------------
(* The nodes a walk has still to visit, and the rules.                     *)

\* What is left of a member access follows the rules.
MemberFits(structs, node) ==
  LET x == IdOf(node.operands[1]) IN
  /\ node.info \in DOMAIN structs /\ x \in DOMAIN structs[node.info]
  /\ FieldsFitAt(FieldsFit(Walked, structs), structs, node, structs[node.info][x])

\* A node follows the rules where some declarations are visible.
Judge(structs, node, decls) ==
  IF node.type = "MEMBER" THEN MemberFits(structs, node) ELSE Follows(Walked, structs)[node][decls]

\* What a node and what the nodes of a list declare.
Behind(node) == IF node.type = "MEMBER" THEN {} ELSE Declared(Walked)[node]
BehindAll(nodes) == UNION {Behind(nodes[j]) : j \in DOMAIN nodes}
Before(nodes, i) == UNION {Behind(nodes[j]) : j \in 1 .. i - 1}

\* The nodes of a list follow the rules, one behind the other.
Fit(structs, nodes, decls) ==
  \A i \in DOMAIN nodes : Judge(structs, nodes[i], decls \cup Before(nodes, i))

\* Nothing left to visit breaks no rule.
LEMMA FitNothing ==
  ASSUME NEW structs, NEW decls
  PROVE  Fit(structs, <<>>, decls) /\ BehindAll(<<>>) = {}
BY DEF Fit, BehindAll

\* The head of a list and what is left behind it.
LEMMA FitHead ==
  ASSUME NEW V, NEW nodes \in Seq(V), nodes # <<>>, NEW structs, NEW decls
  PROVE  Fit(structs, nodes, decls) <=>
           /\ Judge(structs, Head(nodes), decls)
           /\ Fit(structs, Tail(nodes), decls \cup Behind(Head(nodes)))
<1>. DEFINE n == Len(nodes) - 1
            head == Head(nodes)
            tail == Tail(nodes)
<1>1. /\ n \in Nat /\ DOMAIN nodes = 1 .. n + 1 /\ DOMAIN tail = 1 .. n
      /\ head = nodes[1] /\ \A i \in 1 .. n : tail[i] = nodes[i + 1]
  <2>1. Len(nodes) \in Nat \ {0}
    BY EmptySeq
  <2>2. tail \in Seq(V) /\ Len(tail) = n
    BY HeadTailProperties
  <2>3. \A i \in 1 .. n : tail[i] = nodes[i + 1]
    BY HeadTailProperties
  <2>. QED
    BY <2>1, <2>2, <2>3
<1>. HIDE DEF n, head, tail
<1>2. Before(nodes, 1) = {}
  BY DEF Before
<1>3. ASSUME NEW i \in 1 .. n
      PROVE  Before(nodes, i + 1) = Behind(head) \cup Before(tail, i)
  <2>1. 1 .. (i + 1) - 1 = {1} \cup {j + 1 : j \in 1 .. i - 1}
    <3>1. ASSUME NEW k \in 1 .. (i + 1) - 1, k # 1
          PROVE  k \in {j + 1 : j \in 1 .. i - 1}
      <4>1. k - 1 \in 1 .. i - 1 /\ k = (k - 1) + 1
        BY <1>1, <3>1
      <4>. QED
        BY <4>1
    <3>2. i \in Nat /\ i >= 1 /\ (i + 1) - 1 = i
      BY <1>1
    <3>3. 1 \in 1 .. i /\ \A j \in 1 .. i - 1 : j + 1 \in 1 .. i
      BY <3>2
    <3>. QED
      BY <3>1, <3>2, <3>3
  <2>2. \A j \in 1 .. i - 1 : nodes[j + 1] = tail[j]
    BY <1>1
  <2>3. Before(nodes, i + 1) = UNION {Behind(nodes[k]) : k \in {1} \cup {j + 1 : j \in 1 .. i - 1}}
    BY <2>1 DEF Before
  <2>4. {Behind(nodes[k]) : k \in {1} \cup {j + 1 : j \in 1 .. i - 1}} = {Behind(nodes[1])} \cup {Behind(tail[j]) : j \in 1 .. i - 1}
    BY <2>2
  <2>. QED
    BY <1>1, <2>3, <2>4 DEF Before
<1>4. ASSUME Fit(structs, nodes, decls)
      PROVE  Judge(structs, head, decls) /\ Fit(structs, tail, decls \cup Behind(head))
  <2>1. Judge(structs, head, decls)
    <3>1. Judge(structs, nodes[1], decls \cup Before(nodes, 1))
      BY <1>1, <1>4 DEF Fit
    <3>2. decls \cup Before(nodes, 1) = decls
      BY <1>2
    <3>. QED
      BY <1>1, <3>1, <3>2
  <2>2. ASSUME NEW i \in 1 .. n
        PROVE  Judge(structs, tail[i], (decls \cup Behind(head)) \cup Before(tail, i))
    <3>1. Judge(structs, nodes[i + 1], decls \cup Before(nodes, i + 1))
      BY <1>1, <1>4 DEF Fit
    <3>2. decls \cup Before(nodes, i + 1) = (decls \cup Behind(head)) \cup Before(tail, i)
      BY <1>3
    <3>. QED
      BY <1>1, <3>1, <3>2
  <2>. QED
    BY <1>1, <2>1, <2>2 DEF Fit
<1>5. ASSUME Judge(structs, head, decls), Fit(structs, tail, decls \cup Behind(head))
      PROVE  Fit(structs, nodes, decls)
  <2>1. ASSUME NEW k \in 1 .. n + 1
        PROVE  Judge(structs, nodes[k], decls \cup Before(nodes, k))
    <3>1. CASE k = 1
      <4>1. decls \cup Before(nodes, k) = decls
        BY <1>2, <3>1
      <4>. QED
        BY <1>1, <1>5, <3>1, <4>1
    <3>2. CASE k # 1
      <4>1. PICK i \in 1 .. n : k = i + 1
        <5>1. k - 1 \in 1 .. n /\ k = (k - 1) + 1
          BY <1>1, <3>2
        <5>. QED
          BY <5>1
      <4>2. Judge(structs, tail[i], (decls \cup Behind(head)) \cup Before(tail, i))
        BY <1>1, <1>5 DEF Fit
      <4>3. decls \cup Before(nodes, i + 1) = (decls \cup Behind(head)) \cup Before(tail, i)
        BY <1>3
      <4>. QED
        BY <1>1, <4>1, <4>2, <4>3
    <3>. QED
      BY <3>1, <3>2
  <2>. QED
    BY <1>1, <2>1 DEF Fit
<1>. QED
  BY <1>4, <1>5 DEF head, tail

\* One list in front of another.
LEMMA FitConcat ==
  ASSUME NEW V, NEW s \in Seq(V), NEW t \in Seq(V), NEW structs, NEW decls
  PROVE  Fit(structs, s \o t, decls) <=> Fit(structs, s, decls) /\ Fit(structs, t, decls \cup BehindAll(s))
<1>. DEFINE m == Len(s)
            n == Len(t)
            both == s \o t
<1>1. /\ m \in Nat /\ n \in Nat /\ DOMAIN s = 1 .. m /\ DOMAIN t = 1 .. n /\ DOMAIN both = 1 .. m + n
      /\ \A i \in 1 .. m : both[i] = s[i]
      /\ \A i \in 1 .. n : both[m + i] = t[i]
  OBVIOUS
<1>. HIDE DEF m, n, both
<1>2. ASSUME NEW i \in 1 .. m
      PROVE  Before(both, i) = Before(s, i)
  <2>1. \A j \in 1 .. i - 1 : both[j] = s[j]
    BY <1>1
  <2>. QED
    BY <2>1 DEF Before
<1>3. ASSUME NEW i \in 1 .. n
      PROVE  Before(both, m + i) = BehindAll(s) \cup Before(t, i)
  <2>1. 1 .. (m + i) - 1 = (1 .. m) \cup {m + j : j \in 1 .. i - 1}
    <3>1. ASSUME NEW k \in 1 .. (m + i) - 1, k \notin 1 .. m
          PROVE  k \in {m + j : j \in 1 .. i - 1}
      <4>1. k - m \in 1 .. i - 1 /\ k = m + (k - m)
        BY <1>1, <3>1
      <4>. QED
        BY <4>1
    <3>. QED
      BY <1>1, <3>1
  <2>2. (\A j \in 1 .. i - 1 : both[m + j] = t[j]) /\ \A j \in 1 .. m : both[j] = s[j]
    BY <1>1
  <2>3. Before(both, m + i) = UNION {Behind(both[k]) : k \in (1 .. m) \cup {m + j : j \in 1 .. i - 1}}
    BY <2>1 DEF Before
  <2>4. {Behind(both[k]) : k \in (1 .. m) \cup {m + j : j \in 1 .. i - 1}}
          = {Behind(s[j]) : j \in 1 .. m} \cup {Behind(t[j]) : j \in 1 .. i - 1}
    BY <2>2
  <2>. QED
    BY <1>1, <2>3, <2>4 DEF Before, BehindAll
<1>4. ASSUME Fit(structs, both, decls)
      PROVE  Fit(structs, s, decls) /\ Fit(structs, t, decls \cup BehindAll(s))
  <2>1. ASSUME NEW i \in 1 .. m
        PROVE  Judge(structs, s[i], decls \cup Before(s, i))
    <3>1. i \in 1 .. m + n
      BY <1>1
    <3>2. Judge(structs, both[i], decls \cup Before(both, i))
      BY <1>1, <1>4, <3>1 DEF Fit
    <3>. QED
      BY <1>1, <1>2, <3>2
  <2>2. ASSUME NEW i \in 1 .. n
        PROVE  Judge(structs, t[i], (decls \cup BehindAll(s)) \cup Before(t, i))
    <3>1. m + i \in 1 .. m + n
      BY <1>1
    <3>2. Judge(structs, both[m + i], decls \cup Before(both, m + i))
      BY <1>1, <1>4, <3>1 DEF Fit
    <3>3. decls \cup Before(both, m + i) = (decls \cup BehindAll(s)) \cup Before(t, i)
      BY <1>3
    <3>. QED
      BY <1>1, <3>2, <3>3
  <2>. QED
    BY <1>1, <2>1, <2>2 DEF Fit
<1>5. ASSUME Fit(structs, s, decls), Fit(structs, t, decls \cup BehindAll(s))
      PROVE  Fit(structs, both, decls)
  <2>1. ASSUME NEW k \in 1 .. m + n
        PROVE  Judge(structs, both[k], decls \cup Before(both, k))
    <3>1. CASE k \in 1 .. m
      <4>1. Judge(structs, s[k], decls \cup Before(s, k))
        BY <1>1, <1>5, <3>1 DEF Fit
      <4>. QED
        BY <1>1, <1>2, <3>1, <4>1
    <3>2. CASE k \notin 1 .. m
      <4>1. PICK i \in 1 .. n : k = m + i
        <5>1. k - m \in 1 .. n /\ k = m + (k - m)
          BY <1>1, <3>2
        <5>. QED
          BY <5>1
      <4>2. Judge(structs, t[i], (decls \cup BehindAll(s)) \cup Before(t, i))
        BY <1>1, <1>5 DEF Fit
      <4>3. decls \cup Before(both, m + i) = (decls \cup BehindAll(s)) \cup Before(t, i)
        BY <1>3
      <4>. QED
        BY <1>1, <4>1, <4>2, <4>3
    <3>. QED
      BY <3>1, <3>2
  <2>. QED
    BY <1>1, <2>1 DEF Fit
<1>. QED
  BY <1>4, <1>5 DEF both

\* The rules on lists of nodes of the trees.
LEMMA TogetherFits ==
  ASSUME NEW nodes, \A i \in DOMAIN nodes : nodes[i] \in Walked, NEW n, DOMAIN nodes = 1 .. n, n \in Nat,
         NEW structs, NEW decls
  PROVE  Together(Follows(Walked, structs), Declared(Walked), decls, nodes) <=> Fit(structs, nodes, decls)
<1>1. ASSUME NEW i \in 1 .. n
      PROVE  /\ Before(nodes, i) = UNION {Declared(Walked)[nodes[j]] : j \in 1 .. i - 1}
             /\ \A visible : Judge(structs, nodes[i], visible) <=> Follows(Walked, structs)[nodes[i]][visible]
  <2>1. \A j \in 1 .. n : nodes[j].type # "MEMBER"
    BY WalkedNodes
  <2>2. \A j \in 1 .. i - 1 : j \in 1 .. n
    OBVIOUS
  <2>3. \A j \in 1 .. i - 1 : Behind(nodes[j]) = Declared(Walked)[nodes[j]]
    BY <2>1, <2>2 DEF Behind
  <2>4. Before(nodes, i) = UNION {Declared(Walked)[nodes[j]] : j \in 1 .. i - 1}
    BY <2>3 DEF Before
  <2>5. \A visible : Judge(structs, nodes[i], visible) <=> Follows(Walked, structs)[nodes[i]][visible]
    BY <2>1 DEF Judge
  <2>. QED
    BY <2>4, <2>5
<1>2. \A i \in 1 .. n :
        Judge(structs, nodes[i], decls \cup Before(nodes, i)) <=>
          Follows(Walked, structs)[nodes[i]][decls \cup UNION {Declared(Walked)[nodes[j]] : j \in 1 .. i - 1}]
  BY <1>1
<1>. QED
  BY <1>2 DEF Fit, Together

\* The rules are what their definitions say.
RulesHold(structs) == DeclaredSettled /\ FieldsSettled(structs) /\ FollowsSettled(structs)

\* A node that enters a scope follows the rules if what is in it does.
LEMMA JudgeConstruct ==
  ASSUME NEW structs, RulesHold(structs), NEW node \in Walked, NEW decls \in SUBSET Declaration
  PROVE  /\ node.type = "ROOT" =>
              (Judge(structs, node, decls) <=> Fit(structs, node.body, decls)) /\ Behind(node) = {}
         /\ node.type = "KEYWORD" =>
              (Judge(structs, node, decls) <=> Fit(structs, node.args \o node.body, decls)) /\ Behind(node) = {}
         /\ node.type = "DECL_FUNCTION" =>
              /\ Judge(structs, node, decls) <=>
                   /\ node.name \notin NamesOf(decls)
                   /\ Fit(structs, node.args \o node.body, decls \cup {DeclarationOf(node)})
              /\ Behind(node) = {DeclarationOf(node)}
<1>. DEFINE Together1(before, nodes) == Together(Follows(Walked, structs), Declared(Walked), before, nodes)
            J == FollowsAt(Follows(Walked, structs), Declared(Walked), FieldsFit(Walked, structs), node, decls)
<1>1. node.type # "MEMBER"
  BY WalkedNodes
<1>2. /\ Judge(structs, node, decls) <=> J
      /\ Behind(node) = DeclaredAt(Declared(Walked), node)
  BY <1>1 DEF RulesHold, DeclaredSettled, FollowsSettled, Judge, Behind
<1>3. \A before : Together1(before, node.body) <=> Fit(structs, node.body, before)
  <2>1. node.body \in Seq(Nodes)
    BY WalkedNodes
  <2>2. DOMAIN node.body = 1 .. Len(node.body) /\ Len(node.body) \in Nat
    BY <2>1
  <2>3. \A i \in DOMAIN node.body : node.body[i] \in Walked
    BY BelowNode
  <2>. QED
    BY <2>2, <2>3, TogetherFits
<1>4. \A before : Together1(before, node.args \o node.body) <=> Fit(structs, node.args \o node.body, before)
  <2>1. node.args \in Seq(Nodes) /\ node.body \in Seq(Nodes)
    BY WalkedNodes
  <2>. DEFINE both == node.args \o node.body
  <2>2. both \in Seq(Nodes)
    BY <2>1
  <2>3. \A i \in DOMAIN both : both[i] \in Walked
    BY BelowNode
  <2>. HIDE DEF both
  <2>4. DOMAIN both = 1 .. Len(both) /\ Len(both) \in Nat
    BY <2>2
  <2>5. \A before : Together1(before, both) <=> Fit(structs, both, before)
    BY <2>3, <2>4, TogetherFits
  <2>. QED
    BY <2>5 DEF both
<1>5. /\ node.type = "ROOT" => J = Together1(decls, node.body)
      /\ node.type = "KEYWORD" => J = Together1(decls, node.args \o node.body)
      /\ node.type = "DECL_FUNCTION" =>
           J = (/\ node.name \notin NamesOf(decls)
                /\ Together1(decls \cup {DeclarationOf(node)}, node.args \o node.body))
  BY Zenon DEF FollowsAt
<1>6. /\ node.type \in {"ROOT", "KEYWORD"} => DeclaredAt(Declared(Walked), node) = {}
      /\ node.type = "DECL_FUNCTION" => DeclaredAt(Declared(Walked), node) = {DeclarationOf(node)}
  BY DEF DeclaredAt
<1>. HIDE DEF J, Together1
<1>7. CASE node.type = "ROOT"
  BY <1>2, <1>3, <1>5, <1>6, <1>7
<1>8. CASE node.type = "KEYWORD"
  BY <1>2, <1>4, <1>5, <1>6, <1>8
<1>9. CASE node.type = "DECL_FUNCTION"
  BY <1>2, <1>4, <1>5, <1>6, <1>9
<1>. QED
  BY <1>7, <1>8, <1>9

\* A node that needs a symbol, and one that needs nothing.
LEMMA JudgeName ==
  ASSUME NEW structs, RulesHold(structs), NEW node \in Walked, NEW decls \in SUBSET Declaration
  PROVE  /\ node.type = "DECL_VARIABLE" =>
              /\ Judge(structs, node, decls) <=> node.name \notin NamesOf(decls)
              /\ Behind(node) = {DeclarationOf(node)}
         /\ node.type = "IDENTIFIER" =>
              (Judge(structs, node, decls) <=> node.name \in NamesOf(decls)) /\ Behind(node) = {}
         /\ node.type = "FUNCTION_CALL" =>
              /\ Judge(structs, node, decls) <=> \E d \in decls : d.name = node.name /\ d.isFunction
              /\ Behind(node) = {}
         /\ node.type \in {"CONSTANT", "ARRAY", "ARRAY_ACCESS"} =>
              Judge(structs, node, decls) /\ Behind(node) = {}
<1>. DEFINE J == FollowsAt(Follows(Walked, structs), Declared(Walked), FieldsFit(Walked, structs), node, decls)
            F == \E d \in decls : d.name = node.name /\ d.isFunction
<1>1. node.type # "MEMBER"
  BY WalkedNodes
<1>2. /\ Judge(structs, node, decls) <=> J
      /\ Behind(node) = DeclaredAt(Declared(Walked), node)
  BY <1>1 DEF RulesHold, DeclaredSettled, FollowsSettled, Judge, Behind
<1>3. node.type = "DECL_VARIABLE" => J = (node.name \notin NamesOf(decls))
  BY Zenon DEF FollowsAt
<1>4. node.type = "IDENTIFIER" => J = (node.name \in NamesOf(decls))
  BY Zenon DEF FollowsAt
<1>5. node.type = "FUNCTION_CALL" => J = F
  BY Zenon DEF FollowsAt
<1>6. node.type \in {"CONSTANT", "ARRAY", "ARRAY_ACCESS"} => J = TRUE
  BY Zenon DEF FollowsAt
<1>7. /\ node.type = "DECL_VARIABLE" => DeclaredAt(Declared(Walked), node) = {DeclarationOf(node)}
      /\ node.type \in {"IDENTIFIER", "FUNCTION_CALL", "CONSTANT", "ARRAY", "ARRAY_ACCESS"} =>
           DeclaredAt(Declared(Walked), node) = {}
  BY DEF DeclaredAt
<1>. HIDE DEF J
<1>. QED
  BY <1>2, <1>3, <1>4, <1>5, <1>6, <1>7

\* An expression, and a member access.
LEMMA JudgeExpression ==
  ASSUME NEW structs, RulesHold(structs), NEW node \in Walked, node.type = "EXPRESSION",
         NEW decls \in SUBSET Declaration
  PROVE  /\ node.name # "." =>
              /\ Judge(structs, node, decls) <=> Fit(structs, OperandsOf(node), decls)
              /\ Behind(node) = BehindAll(OperandsOf(node))
         /\ node.name = "." =>
              /\ Judge(structs, node, decls) <=>
                   \E d \in decls : /\ d.name = IdOf(node.operands[1])
                                    /\ FieldsFitAt(FieldsFit(Walked, structs), structs, node, d.type)
              /\ Behind(node) = {}
<1>. DEFINE fields == FieldsFit(Walked, structs)
            J == FollowsAt(Follows(Walked, structs), Declared(Walked), fields, node, decls)
            E == \E d \in decls : d.name = IdOf(node.operands[1]) /\ fields[node][d.type]
            L == Together(Follows(Walked, structs), Declared(Walked), decls, OperandsOf(node))
<1>1. node.type # "MEMBER"
  BY WalkedNodes
<1>2. /\ Judge(structs, node, decls) <=> J
      /\ Behind(node) = DeclaredAt(Declared(Walked), node)
  BY <1>1 DEF RulesHold, DeclaredSettled, FollowsSettled, Judge, Behind
<1>3. CASE node.name # "."
  <2>1. J = L
    BY <1>3, Zenon DEF FollowsAt
  <2>2. OperandsOf(node) \in Seq(Nodes) /\ \A i \in DOMAIN OperandsOf(node) : OperandsOf(node)[i] \in Walked
    BY BelowNode
  <2>3. DOMAIN OperandsOf(node) = 1 .. Len(OperandsOf(node)) /\ Len(OperandsOf(node)) \in Nat
    BY <2>2
  <2>4. L <=> Fit(structs, OperandsOf(node), decls)
    BY <2>2, <2>3, TogetherFits
  <2>5. Behind(node) = UNION {Declared(Walked)[n] : n \in ToSet(OperandsOf(node))}
    BY <1>2, <1>3 DEF DeclaredAt
  <2>6. \A i \in DOMAIN OperandsOf(node) :
          Behind(OperandsOf(node)[i]) = Declared(Walked)[OperandsOf(node)[i]]
    BY <2>2, WalkedNodes DEF Behind
  <2>7. Behind(node) = BehindAll(OperandsOf(node))
    BY <2>5, <2>6 DEF BehindAll, ToSet
  <2>. HIDE DEF J, L
  <2>. QED
    BY <1>2, <1>3, <2>1, <2>4, <2>7
<1>4. CASE node.name = "."
  <2>1. J = E
    BY <1>4, Zenon DEF FollowsAt
  <2>2. node \in MemberAccesses(Walked)
    BY <1>4 DEF MemberAccesses, IsExpression
  <2>3. ASSUME NEW d \in decls
        PROVE  fields[node][d.type] = FieldsFitAt(fields, structs, node, d.type)
    <3>1. d.type \in STRING
      BY DEF Declaration
    <3>. QED
      BY <2>2, <3>1 DEF RulesHold, FieldsSettled
  <2>4. Behind(node) = {}
    BY <1>2, <1>4 DEF DeclaredAt
  <2>. HIDE DEF J, fields
  <2>. QED
    BY <1>2, <1>4, <2>1, <2>3, <2>4 DEF fields
<1>. QED
  BY <1>3, <1>4

\* What is left of member accesses.
Members == {Member(n, struct) : n \in MemberAccesses(Nodes), struct \in STRING}

\* What is left of a member access, and what an access to a member needs.
LEMMA JudgeMember ==
  ASSUME NEW structs, RulesHold(structs), NEW node \in Members, NEW decls
  PROVE  /\ node.type = "MEMBER"
         /\ Judge(structs, node, decls) <=> MemberFits(structs, node)
         /\ Behind(node) = {}
         /\ Len(node.operands) = 2 /\ node.operands \in Seq(Nodes)
<1>1. PICK n \in MemberAccesses(Nodes), struct \in STRING : node = Member(n, struct)
  BY DEF Members
<1>2. n \in Walked /\ n.type = "EXPRESSION" /\ n.name = "."
  BY DEF MemberAccesses, IsExpression, Walked
<1>3. n.operands \in Seq(Nodes) /\ Len(n.operands) = 2
  BY <1>2, WalkedNodes
<1>4. IsNodeOver(Nodes, n)
  BY NodesAssumption DEF MemberAccesses
<1>5. node.type = "MEMBER" /\ node.operands = n.operands
  BY <1>1, <1>4 DEF Member, IsNodeOver
<1>. QED
  BY <1>3, <1>5 DEF Judge, Behind

\* An access goes on with what is left of it.
LEMMA FieldsFitStep ==
  ASSUME NEW p \in Programs, RulesHold(p.structs), NEW node, node.operands[2] \in Nodes,
         NEW type \in STRING, NEW decls
  PROVE  FieldsFitAt(FieldsFit(Walked, p.structs), p.structs, node, type) <=>
           /\ type \in DOMAIN p.structs
           /\ IF IsExpression(node.operands[2], {"."})
              THEN Judge(p.structs, Member(node.operands[2], type), decls)
              ELSE IdOf(node.operands[2]) \in DOMAIN p.structs[type]
<1>. DEFINE r == node.operands[2]
            structs == p.structs
            fields == FieldsFit(Walked, structs)
            x == IdOf(r.operands[1])
<1>1. CASE IsExpression(r, {"."})
  <2>1. r \in MemberAccesses(Nodes) /\ r \in MemberAccesses(Walked)
    BY <1>1 DEF MemberAccesses, Walked
  <2>2. Member(r, type) \in Members
    BY <2>1 DEF Members
  <2>3. Judge(structs, Member(r, type), decls) <=> MemberFits(structs, Member(r, type))
    BY <2>2, JudgeMember
  <2>4. /\ Member(r, type).operands = r.operands /\ Member(r, type).info = type
    <3>1. IsNodeOver(Nodes, r)
      BY NodesAssumption
    <3>. QED
      BY <3>1 DEF Member, IsNodeOver
  <2>5. \A t : FieldsFitAt(fields, structs, Member(r, type), t) = FieldsFitAt(fields, structs, r, t)
    BY <2>4, Zenon DEF FieldsFitAt
  <2>6. type \in DOMAIN structs /\ x \in DOMAIN structs[type] =>
          fields[r][structs[type][x]] = FieldsFitAt(fields, structs, r, structs[type][x])
    <3>1. type \in DOMAIN structs /\ x \in DOMAIN structs[type] => structs[type][x] \in STRING
      BY ProgramsAssumption
    <3>. QED
      BY <2>1, <3>1 DEF RulesHold, FieldsSettled
  <2>7. FieldsFitAt(fields, structs, node, type) <=>
          type \in DOMAIN structs /\ x \in DOMAIN structs[type] /\ fields[r][structs[type][x]]
    BY <1>1, Zenon DEF FieldsFitAt
  <2>8. MemberFits(structs, Member(r, type)) <=>
          /\ type \in DOMAIN structs /\ x \in DOMAIN structs[type]
          /\ FieldsFitAt(fields, structs, Member(r, type), structs[type][x])
    BY <2>4 DEF MemberFits
  <2>. HIDE DEF r, structs, fields, x
  <2>9. FieldsFitAt(fields, structs, node, type) <=>
          type \in DOMAIN structs /\ Judge(structs, Member(r, type), decls)
    BY <2>3, <2>5, <2>6, <2>7, <2>8
  <2>. QED
    BY <1>1, <2>9 DEF r, structs, fields
<1>2. CASE ~IsExpression(r, {"."})
  BY <1>2 DEF FieldsFitAt
<1>. QED
  BY <1>1, <1>2

-----------------------------------------------------------------------------
(* The rules, and what the walk has still to visit.                        *)

\* The nodes of the trees and what is left of member accesses.
Walkable == Walked \cup Members

\* The declarations in a list of symbols.
Shown(symbol) == [name |-> symbol.name, type |-> symbol.type, isFunction |-> symbol.kind = "function"]
DeclsIn(list) == {Shown(list[i]) : i \in DOMAIN list}

\* What is visible in the constructs on a walk.
SeenIn(scs, w, k) == UNION {DeclsIn(scs[w[j].scope].symbols) : j \in 1 .. k}
Seen == [k \in 1 .. Len(walk) |-> SeenIn(scopes, walk, k)]

\* All that is left to visit follows the rules.
AllFit(structs, w, seen) == \A k \in 1 .. Len(w) : Fit(structs, w[k].rest, seen[k])

Rests == \A k \in 1 .. Len(walk) : walk[k].rest \in Seq(Walkable)
Fitting == AllFit(program.structs, walk, Seen)

\* As long as the validator runs, the program follows the rules if what is left does.
RuleInv ==
  /\ Rests
  /\ status = "running" => (Accepts(Walked, program) <=> Fitting)
  /\ DecidesByRules

\* These are nodes a walk may come to, and a rest is told by its type.
LEMMA WalkableNodes ==
  ASSUME NEW node \in Walkable
  PROVE  /\ node \in Visited
         /\ node.type = "MEMBER" => node \in Members
         /\ node.type # "MEMBER" => node \in Walked
<1>1. CASE node \in Walked
  <2>1. node \in Visited
    BY <1>1, NodesVisited DEF Walked
  <2>. QED
    BY <1>1, <2>1, WalkedNodes
<1>2. CASE node \in Members
  <2>1. PICK n \in MemberAccesses(Nodes), struct \in STRING : node = Member(n, struct)
    BY <1>2 DEF Members
  <2>2. n \in Nodes /\ n.type = "EXPRESSION" /\ n.name = "." /\ IsNodeOver(Nodes, n)
    BY NodesAssumption DEF MemberAccesses, IsExpression
  <2>3. /\ n \in [type : STRING, name : STRING, info : STRING,
                  operands : Seq(Nodes), args : Seq(Nodes), body : Seq(Nodes)]
        /\ Len(n.operands) = 2
    BY <2>2 DEF IsNodeOver, IsExpression
  <2>4. node.type = "MEMBER" /\ node \in Visited
    BY <2>1, <2>3 DEF Member, Visited, IsExpression
  <2>. QED
    BY <1>2, <2>4
<1>. QED
  BY <1>1, <1>2 DEF Walkable

\* Lists of them.
LEMMA WalkableLists ==
  Seq(Walkable) \subseteq Seq(Visited) /\ Seq(Nodes) \subseteq Seq(Walkable)
<1>1. Walkable \subseteq Visited /\ Nodes \subseteq Walkable
  BY WalkableNodes DEF Walkable, Walked
<1>. QED
  BY <1>1, SeqMonotonic

\* What follows the rules, seen from the node the walk is at.
LEMMA FitsHere ==
  ASSUME TypeOK, Top.rest # <<>>, NEW structs, NEW seen
  PROVE  AllFit(structs, walk, seen) <=>
           /\ \A k \in 1 .. Len(walk) - 1 : Fit(structs, walk[k].rest, seen[k])
           /\ Judge(structs, Here, seen[Len(walk)])
           /\ Fit(structs, Tail(Top.rest), seen[Len(walk)] \cup Behind(Here))
<1>. DEFINE n == Len(walk)
<1>1. n \in Nat \ {0} /\ Top = walk[n] /\ Top.rest \in Seq(Visited)
  BY Types
<1>2. Fit(structs, Top.rest, seen[n]) <=>
        /\ Judge(structs, Here, seen[n])
        /\ Fit(structs, Tail(Top.rest), seen[n] \cup Behind(Here))
  BY <1>1, FitHead DEF Here
<1>. HIDE DEF n
<1>3. \A k \in 1 .. n : k = n \/ k \in 1 .. n - 1
  BY <1>1
<1>4. n \in 1 .. n /\ 1 .. n - 1 \subseteq 1 .. n
  BY <1>1
<1>5. AllFit(structs, walk, seen) <=>
        (\A k \in 1 .. n - 1 : Fit(structs, walk[k].rest, seen[k])) /\ Fit(structs, Top.rest, seen[n])
  BY <1>1, <1>3, <1>4 DEF AllFit, n
<1>. QED
  BY <1>2, <1>5 DEF n

\* The walk goes on with nodes that need what the node it was at needed.
LEMMA AfterFits ==
  ASSUME TypeOK, Top.rest # <<>>, NEW structs, NEW nodes \in Seq(Visited),
         NEW seen, NEW grown, NEW new,
         \A k \in 1 .. Len(walk) - 1 : grown[k] = seen[k],
         grown[Len(walk)] = seen[Len(walk)] \cup new,
         Judge(structs, Here, seen[Len(walk)]) <=> Fit(structs, nodes, seen[Len(walk)] \cup new),
         Behind(Here) = new \cup BehindAll(nodes)
  PROVE  AllFit(structs, After(nodes), grown) <=> AllFit(structs, walk, seen)
<1>. DEFINE n == Len(walk)
            w == After(nodes)
            rest == Tail(Top.rest)
<1>1. /\ n \in Nat \ {0} /\ Len(w) = n /\ w[n].rest = nodes \o rest
      /\ \A k \in 1 .. n - 1 : w[k] = walk[k]
  BY AfterProperties, Types
<1>2. rest \in Seq(Visited)
  BY Types, HeadTailProperties
<1>. HIDE DEF rest
<1>3. Fit(structs, nodes \o rest, grown[n]) <=>
        /\ Fit(structs, nodes, grown[n])
        /\ Fit(structs, rest, grown[n] \cup BehindAll(nodes))
  BY <1>2, FitConcat
<1>4. grown[n] \cup BehindAll(nodes) = seen[n] \cup Behind(Here)
  OBVIOUS
<1>5. AllFit(structs, walk, seen) <=>
        /\ \A k \in 1 .. n - 1 : Fit(structs, walk[k].rest, seen[k])
        /\ Judge(structs, Here, seen[n])
        /\ Fit(structs, rest, seen[n] \cup Behind(Here))
  BY FitsHere DEF rest
<1>. HIDE DEF w, n
<1>6. \A k \in 1 .. n : k = n \/ k \in 1 .. n - 1
  BY <1>1
<1>7. n \in 1 .. n /\ 1 .. n - 1 \subseteq 1 .. n
  BY <1>1
<1>8. AllFit(structs, w, grown) <=>
        /\ \A k \in 1 .. n - 1 : Fit(structs, walk[k].rest, seen[k])
        /\ Fit(structs, nodes \o rest, grown[n])
  BY <1>1, <1>6, <1>7 DEF AllFit, n
<1>. QED
  BY <1>3, <1>4, <1>5, <1>8 DEF w, n

\* The walk enters a construct that needs what its node needed.
LEMMA EnteredFits ==
  ASSUME TypeOK, Top.rest # <<>>, NEW structs, NEW nodes, NEW w, Len(w) = Len(walk) + 1,
         \A k \in 1 .. Len(walk) : w[k] = After(<<>>)[k], w[Len(walk) + 1].rest = nodes,
         NEW seen, NEW grown, NEW new,
         \A k \in 1 .. Len(walk) - 1 : grown[k] = seen[k],
         grown[Len(walk)] = seen[Len(walk)] \cup new,
         grown[Len(walk) + 1] = seen[Len(walk)] \cup new,
         Judge(structs, Here, seen[Len(walk)]) <=> Fit(structs, nodes, seen[Len(walk)] \cup new),
         Behind(Here) = new
  PROVE  AllFit(structs, w, grown) <=> AllFit(structs, walk, seen)
<1>. DEFINE n == Len(walk)
            rest == Tail(Top.rest)
<1>1. <<>> \in Seq(Visited) /\ rest \in Seq(Visited) /\ n \in Nat \ {0}
  BY Types, HeadTailProperties
<1>2. <<>> \o rest = rest
  BY <1>1
<1>3. /\ After(<<>>)[n].rest = <<>> \o rest
      /\ \A k \in 1 .. n - 1 : After(<<>>)[k] = walk[k]
  BY <1>1, AfterProperties
<1>4. AllFit(structs, walk, seen) <=>
        /\ \A k \in 1 .. n - 1 : Fit(structs, walk[k].rest, seen[k])
        /\ Judge(structs, Here, seen[n])
        /\ Fit(structs, rest, seen[n] \cup Behind(Here))
  BY FitsHere
<1>. HIDE DEF n, rest
<1>5. \A k \in 1 .. n + 1 : k = n + 1 \/ k = n \/ k \in 1 .. n - 1
  BY <1>1
<1>6. n \in 1 .. n /\ n \in 1 .. n + 1 /\ n + 1 \in 1 .. n + 1 /\ \A k \in 1 .. n - 1 : k \in 1 .. n /\ k \in 1 .. n + 1
  BY <1>1
<1>7. AllFit(structs, w, grown) <=>
        /\ \A k \in 1 .. n - 1 : Fit(structs, walk[k].rest, seen[k])
        /\ Fit(structs, rest, grown[n])
        /\ Fit(structs, nodes, grown[n + 1])
  <2>1. Len(w) = n + 1 /\ w[n].rest = rest /\ w[n + 1].rest = nodes
    BY <1>2, <1>3, <1>6 DEF n
  <2>2. \A k \in 1 .. n - 1 : w[k] = walk[k] /\ grown[k] = seen[k]
    BY <1>3, <1>6 DEF n
  <2>. QED
    BY <1>5, <1>6, <2>1, <2>2 DEF AllFit
<1>. QED
  BY <1>4, <1>7 DEF n

\* A symbol in front of a list.
LEMMA DeclsInPushed ==
  ASSUME NEW list \in Seq(Symbols), NEW symbol \in Symbols
  PROVE  DeclsIn(<<symbol>> \o list) = DeclsIn(list) \cup {Shown(symbol)}
<1>. DEFINE n == Len(list)
            new == <<symbol>> \o list
<1>1. n \in Nat /\ DOMAIN list = 1 .. n
  OBVIOUS
<1>2. new \in Seq(Symbols) /\ DOMAIN new = 1 .. n + 1 /\ new[1] = symbol
  BY ConcatProperties
<1>3. \A i \in 1 .. n : new[i + 1] = list[i]
  BY ConcatProperties
<1>. HIDE DEF new, n
<1>4. ASSUME NEW i \in 1 .. n + 1
      PROVE  new[i] = symbol \/ \E j \in 1 .. n : new[i] = list[j]
  <2>1. i = 1 \/ (i - 1 \in 1 .. n /\ (i - 1) + 1 = i)
    BY <1>1
  <2>. QED
    BY <1>2, <1>3, <2>1
<1>5. \A i \in 1 .. n : i + 1 \in 1 .. n + 1 /\ 1 \in 1 .. n + 1
  BY <1>1
<1>6. 1 \in 1 .. n + 1
  BY <1>1
<1>7. DeclsIn(new) \subseteq DeclsIn(list) \cup {Shown(symbol)}
  BY <1>1, <1>2, <1>4 DEF DeclsIn
<1>8. DeclsIn(list) \subseteq DeclsIn(new)
  BY <1>1, <1>2, <1>3, <1>5 DEF DeclsIn
<1>9. Shown(symbol) \in DeclsIn(new)
  BY <1>2, <1>6 DEF DeclsIn
<1>. QED
  BY <1>7, <1>8, <1>9 DEF new

\* What is visible in the constructs are declarations.
LEMMA SeenType ==
  ASSUME TypeOK
  PROVE  /\ \A k \in 1 .. Len(walk) : Seen[k] = SeenIn(scopes, walk, k) /\ Seen[k] \in SUBSET Declaration
         /\ Len(walk) \in 1 .. Len(walk)
<1>1. \A symbol \in Symbols : Shown(symbol) \in Declaration
  BY DEF Shown, Symbols, Declaration
<1>2. \A j \in 1 .. Len(walk) : scopes[walk[j].scope].symbols \in Seq(Symbols)
  BY OnTheWalk, SymbolsType, Types
<1>3. \A j \in 1 .. Len(walk) : DeclsIn(scopes[walk[j].scope].symbols) \in SUBSET Declaration
  BY <1>1, <1>2 DEF DeclsIn
<1>4. \A k \in 1 .. Len(walk) : 1 .. k \subseteq 1 .. Len(walk)
  BY Types
<1>5. \A k \in 1 .. Len(walk) : SeenIn(scopes, walk, k) \in SUBSET Declaration
  BY <1>3, <1>4 DEF SeenIn
<1>6. Len(walk) \in 1 .. Len(walk)
  BY Types
<1>. QED
  BY <1>5, <1>6 DEF Seen

\* A symbol in the scope of the innermost construct is visible there only.
LEMMA SeenGrows ==
  ASSUME TypeOK, Chain, Climbing, search.saved = <<>>, NEW symbol \in Symbols, NEW scs,
         scs = WithSymbol(scopes, current, symbol)
  PROVE  /\ \A k \in 1 .. Len(walk) - 1 : SeenIn(scs, walk, k) = Seen[k]
         /\ SeenIn(scs, walk, Len(walk)) = Seen[Len(walk)] \cup {Shown(symbol)}
<1>. DEFINE n == Len(walk)
            old(j) == DeclsIn(scopes[walk[j].scope].symbols)
            new(j) == DeclsIn(scs[walk[j].scope].symbols)
<1>1. /\ n \in Nat \ {0} /\ current = walk[n].scope /\ n \in 1 .. n
      /\ \A k \in 1 .. n : walk[k].scope \in 1 .. Len(scopes)
  BY Settled, OnTheWalk, Types
<1>2. /\ \A s \in 1 .. Len(scopes) : s # current => scs[s].symbols = scopes[s].symbols
      /\ scs[current].symbols = <<symbol>> \o scopes[current].symbols
  <2>1. ScopesType(scopes) /\ current \in DOMAIN scopes /\ current \in 1 .. Len(scopes)
    BY Types
  <2>2. Pushes(scs, scopes, current, symbol)
    BY <2>1, WithSymbolAnywhere, Zenon
  <2>. QED
    BY <2>1, <2>2 DEF Pushes
<1>3. \A k \in 1 .. n : walk[k].scope = current <=> k = n
  BY <1>1, ChainApart
<1>4. new(n) = old(n) \cup {Shown(symbol)}
  <2>1. scopes[current].symbols \in Seq(Symbols)
    BY SymbolsType, Types
  <2>. QED
    BY <1>1, <1>2, <2>1, DeclsInPushed
<1>. HIDE DEF n
<1>5. \A j \in 1 .. n - 1 : j \in 1 .. n /\ new(j) = old(j)
  <2>1. \A j \in 1 .. n - 1 : j \in 1 .. n /\ j # n
    BY <1>1
  <2>. QED
    BY <1>1, <1>2, <1>3, <2>1
<1>6. \A k \in 1 .. n - 1 : SeenIn(scs, walk, k) = Seen[k]
  <2>1. \A k \in 1 .. n - 1 : k \in 1 .. n /\ 1 .. k \subseteq 1 .. n - 1
    BY <1>1
  <2>2. ASSUME NEW k \in 1 .. n - 1
        PROVE  SeenIn(scs, walk, k) = SeenIn(scopes, walk, k)
    <3>1. \A j \in 1 .. k : new(j) = old(j)
      BY <1>5, <2>1
    <3>. QED
      BY <3>1 DEF SeenIn
  <2>. QED
    BY <2>1, <2>2, SeenType DEF n
<1>7. SeenIn(scs, walk, n) = Seen[n] \cup {Shown(symbol)}
  <2>1. \A j \in 1 .. n : j = n \/ j \in 1 .. n - 1
    BY <1>1
  <2>2. \A j \in 1 .. n : j # n => new(j) = old(j)
    BY <1>5, <2>1
  <2>3. Seen[n] = UNION {old(j) : j \in 1 .. n}
    BY <1>1, SeenType DEF SeenIn, n
  <2>4. SeenIn(scs, walk, n) = UNION {new(j) : j \in 1 .. n}
    BY DEF SeenIn
  <2>. HIDE DEF new, old
  <2>. QED
    BY <1>1, <1>4, <2>2, <2>3, <2>4
<1>. QED
  BY <1>6, <1>7 DEF n

\* A name is visible if a construct declares it.
LEMMA SeenNames ==
  ASSUME TypeOK, NEW name
  PROVE  name \in NamesOf(Seen[Len(walk)]) <=> \E k \in DOMAIN walk : Declares(k, name)
<1>1. /\ DOMAIN walk = 1 .. Len(walk)
      /\ Seen[Len(walk)] = UNION {DeclsIn(scopes[walk[j].scope].symbols) : j \in 1 .. Len(walk)}
  BY OnTheWalk, SeenType DEF SeenIn
<1>2. ASSUME NEW k
      PROVE  Declares(k, name) <=> \E d \in DeclsIn(scopes[walk[k].scope].symbols) : d.name = name
  <2>. DEFINE list == scopes[walk[k].scope].symbols
  <2>1. Declares(k, name) <=> \E i \in DOMAIN list : list[i].name = name
    BY Zenon DEF Declares
  <2>2. \A i : Shown(list[i]).name = list[i].name
    BY DEF Shown
  <2>. HIDE DEF list
  <2>3. (\E i \in DOMAIN list : list[i].name = name) <=> \E d \in DeclsIn(list) : d.name = name
    BY <2>2 DEF DeclsIn
  <2>. QED
    BY <2>1, <2>3 DEF list
<1>. QED
  BY <1>1, <1>2 DEF NamesOf

\* The answer of a search is the one declaration of the name that is visible.
LEMMA Found ==
  ASSUME TypeOK, Searching, NoShadowing, Answered
  PROVE  /\ Missing <=> search.name \notin NamesOf(Seen[Len(walk)])
         /\ ~Missing =>
              \A d \in Seen[Len(walk)] : d.name = search.name <=> d = Shown(search.symbol)
         /\ ~Missing => Shown(search.symbol) \in Seen[Len(walk)]
<1>1. Nearest /\ DOMAIN walk = 1 .. Len(walk)
  BY OnTheWalk DEF Searching, Answered
<1>2. Seen[Len(walk)] = UNION {DeclsIn(scopes[walk[j].scope].symbols) : j \in 1 .. Len(walk)}
  BY SeenType DEF SeenIn
<1>3. CASE Missing
  BY <1>1, <1>3, SeenNames DEF Nearest
<1>4. CASE ~Missing
  <2>1. PICK k \in DOMAIN walk : /\ search.symbol \in ToSet(scopes[walk[k].scope].symbols)
                                 /\ search.symbol.name = search.name
    BY <1>1, <1>4 DEF Nearest
  <2>2. PICK i \in DOMAIN scopes[walk[k].scope].symbols : scopes[walk[k].scope].symbols[i] = search.symbol
    BY <2>1 DEF ToSet
  <2>3. Shown(search.symbol) \in Seen[Len(walk)] /\ Shown(search.symbol).name = search.name
    <3>1. Shown(search.symbol) \in DeclsIn(scopes[walk[k].scope].symbols)
      BY <2>2, Zenon DEF DeclsIn
    <3>2. Shown(search.symbol) \in Seen[Len(walk)]
      BY ONLY <1>1, <1>2, <3>1
    <3>3. Shown(search.symbol).name = search.name
      BY <2>1 DEF Shown
    <3>. QED
      BY <3>2, <3>3
  <2>4. ASSUME NEW d \in Seen[Len(walk)], d.name = search.name
        PROVE  d = Shown(search.symbol)
    <3>1. PICK j \in DOMAIN walk : d \in DeclsIn(scopes[walk[j].scope].symbols)
      BY <1>1, <1>2
    <3>2. PICK l \in DOMAIN scopes[walk[j].scope].symbols : d = Shown(scopes[walk[j].scope].symbols[l])
      BY <3>1 DEF DeclsIn
    <3>3. scopes[walk[j].scope].symbols[l].name = search.name
      BY <2>4, <3>2 DEF Shown
    <3>4. j = k
      <4>1. Declares(j, search.name)
        BY <3>3 DEF Declares
      <4>2. scopes[walk[k].scope].symbols[i].name = search.name
        BY <2>1, <2>2
      <4>. QED
        BY <4>1, <4>2, Zenon DEF NoShadowing
    <3>5. l = i
      BY <2>1, <2>2, <3>3, <3>4 DEF NoShadowing
    <3>. QED
      BY <2>2, <3>2, <3>4, <3>5
  <2>5. search.name \in NamesOf(Seen[Len(walk)])
    BY <2>3 DEF NamesOf
  <2>. QED
    BY <1>4, <2>3, <2>4, <2>5
<1>. QED
  BY <1>3, <1>4

\* What is known of a validator that runs.
Ready ==
  /\ program \in Programs /\ RulesHold(program.structs)
  /\ TypeOK /\ Pending /\ Chain /\ Climbing /\ Searching /\ NoShadowing /\ Rests
  /\ status = "running"

\* A step that decides nothing, or decides by what is left to visit.
Kept ==
  /\ UNCHANGED program /\ Rests'
  /\ \/ UNCHANGED status /\ (Fitting' <=> Fitting)
     \/ status' = "done" /\ Fitting
     \/ status' = "exit" /\ ~Fitting

\* What is visible depends on the scopes on the walk only.
LEMMA SeenAlong ==
  ASSUME NEW n \in Nat, NEW w, NEW scs, \A j \in 1 .. n : w[j].scope = walk[j].scope
  PROVE  \A k \in 1 .. n : SeenIn(scs, w, k) = SeenIn(scs, walk, k)
<1>1. \A k \in 1 .. n : \A j \in 1 .. k : j \in 1 .. n
  OBVIOUS
<1>2. ASSUME NEW k \in 1 .. n
      PROVE  SeenIn(scs, w, k) = SeenIn(scs, walk, k)
  <2>1. \A j \in 1 .. k : w[j].scope = walk[j].scope
    BY <1>1
  <2>. QED
    BY <2>1 DEF SeenIn
<1>. QED
  BY <1>2

\* The nodes a walk has still to visit, after it goes on with others.
LEMMA RestsAfter ==
  ASSUME TypeOK, Rests, Top.rest # <<>>, NEW nodes \in Seq(Walkable)
  PROVE  /\ nodes \in Seq(Visited) /\ Here \in Walkable
         /\ \A k \in 1 .. Len(walk) : After(nodes)[k].rest \in Seq(Walkable)
<1>. DEFINE n == Len(walk)
<1>1. n \in Nat \ {0} /\ n \in 1 .. n /\ Top = walk[n]
  BY Types
<1>2. Top.rest \in Seq(Walkable)
  BY <1>1 DEF Rests
<1>3. Tail(Top.rest) \in Seq(Walkable) /\ Here \in Walkable
  BY <1>2, HeadTailProperties DEF Here
<1>4. nodes \o Tail(Top.rest) \in Seq(Walkable)
  BY <1>3, ConcatProperties
<1>5. nodes \in Seq(Visited)
  BY WalkableLists
<1>6. /\ After(nodes)[n].rest = nodes \o Tail(Top.rest)
      /\ \A k \in 1 .. n - 1 : After(nodes)[k] = walk[k]
  BY <1>5, AfterProperties
<1>. HIDE DEF n
<1>7. \A k \in 1 .. n : k = n \/ k \in 1 .. n - 1
  BY <1>1
<1>8. \A k \in 1 .. n - 1 : After(nodes)[k].rest \in Seq(Walkable)
  BY <1>6 DEF Rests, n
<1>. QED
  BY <1>3, <1>4, <1>5, <1>6, <1>7, <1>8 DEF n

\* The validator gives up at a node that breaks a rule.
LEMMA RefusedKept ==
  ASSUME Ready, Top.rest # <<>>, Error, UNCHANGED program,
         ~Judge(program.structs, Here, Seen[Len(walk)])
  PROVE  Kept
<1>1. ~Fitting
  BY FitsHere DEF Fitting, Ready
<1>2. Rests' /\ status' = "exit"
  BY DEF Ready, Rests, Error
<1>. QED
  BY <1>1, <1>2 DEF Kept

\* It goes on with nodes that need what the node needed.
LEMMA PassedKept ==
  ASSUME Ready, Top.rest # <<>>, NEW nodes \in Seq(Walkable), walk' = After(nodes),
         UNCHANGED <<scopes, program, status>>,
         Judge(program.structs, Here, Seen[Len(walk)]) <=> Fit(program.structs, nodes, Seen[Len(walk)]),
         Behind(Here) = BehindAll(nodes)
  PROVE  Kept
<1>. DEFINE n == Len(walk)
<1>1. TypeOK /\ Rests /\ n \in Nat \ {0}
  BY Types DEF Ready
<1>2. nodes \in Seq(Visited) /\ \A k \in 1 .. n : After(nodes)[k].rest \in Seq(Walkable)
  BY <1>1, RestsAfter
<1>3. Len(After(nodes)) = n /\ \A k \in 1 .. n : After(nodes)[k].scope = walk[k].scope
  BY <1>1, <1>2, AfterProperties
<1>4. Rests'
  BY <1>2, <1>3 DEF Rests
<1>5. \A k \in 1 .. n : Seen'[k] = Seen[k]
  <2>1. \A k \in 1 .. n : SeenIn(scopes, walk', k) = SeenIn(scopes, walk, k)
    BY <1>1, <1>3, SeenAlong
  <2>. QED
    BY <1>3, <2>1 DEF Seen
<1>6. AllFit(program.structs, After(nodes), Seen') <=> AllFit(program.structs, walk, Seen)
  <2>1. /\ \A k \in 1 .. n - 1 : Seen'[k] = Seen[k]
        /\ Seen'[n] = Seen[n] \cup {} /\ Seen[n] = Seen[n] \cup {}
        /\ Behind(Here) = {} \cup BehindAll(nodes)
    BY <1>1, <1>5
  <2>2. Judge(program.structs, Here, Seen[n]) <=> Fit(program.structs, nodes, Seen[n] \cup {})
    BY <2>1
  <2>. QED
    BY <1>1, <1>2, <2>1, <2>2, AfterFits
<1>7. Fitting' <=> Fitting
  BY <1>6 DEF Fitting
<1>. QED
  BY <1>4, <1>7 DEF Kept

\* It declares a variable.
LEMMA AddedKept ==
  ASSUME Ready, search.saved = <<>>, Top.rest # <<>>, NEW symbol \in Symbols,
         scopes' = WithSymbol(scopes, current, symbol), walk' = After(<<>>),
         UNCHANGED <<program, status>>,
         Judge(program.structs, Here, Seen[Len(walk)]), Behind(Here) = {Shown(symbol)}
  PROVE  Kept
<1>. DEFINE n == Len(walk)
<1>1. TypeOK /\ Rests /\ Chain /\ Climbing /\ n \in Nat \ {0} /\ <<>> \in Seq(Walkable)
  BY Types DEF Ready
<1>2. <<>> \in Seq(Visited) /\ \A k \in 1 .. n : After(<<>>)[k].rest \in Seq(Walkable)
  BY <1>1, RestsAfter
<1>3. Len(After(<<>>)) = n /\ \A k \in 1 .. n : After(<<>>)[k].scope = walk[k].scope
  BY <1>1, <1>2, AfterProperties
<1>4. Rests'
  BY <1>2, <1>3 DEF Rests
<1>5. \A k \in 1 .. n : Seen'[k] = SeenIn(scopes', walk, k)
  <2>1. \A k \in 1 .. n : SeenIn(scopes', walk', k) = SeenIn(scopes', walk, k)
    BY <1>1, <1>3, SeenAlong
  <2>. QED
    BY <1>3, <2>1 DEF Seen
<1>6. (\A k \in 1 .. n - 1 : Seen'[k] = Seen[k]) /\ Seen'[n] = Seen[n] \cup {Shown(symbol)}
  <2>1. /\ \A k \in 1 .. n - 1 : SeenIn(scopes', walk, k) = Seen[k]
        /\ SeenIn(scopes', walk, n) = Seen[n] \cup {Shown(symbol)}
    BY <1>1, SeenGrows
  <2>2. n \in 1 .. n /\ \A k \in 1 .. n - 1 : k \in 1 .. n
    BY <1>1
  <2>. QED
    BY <1>5, <2>1, <2>2
<1>7. AllFit(program.structs, After(<<>>), Seen') <=> AllFit(program.structs, walk, Seen)
  <2>1. Fit(program.structs, <<>>, Seen[n] \cup {Shown(symbol)}) /\ BehindAll(<<>>) = {}
    BY FitNothing
  <2>2. Judge(program.structs, Here, Seen[n]) <=> Fit(program.structs, <<>>, Seen[n] \cup {Shown(symbol)})
    BY <2>1
  <2>3. Behind(Here) = {Shown(symbol)} \cup BehindAll(<<>>)
    BY <2>1
  <2>. QED
    BY <1>1, <1>2, <1>6, <2>2, <2>3, AfterFits
<1>8. Fitting' <=> Fitting
  BY <1>7 DEF Fitting
<1>. QED
  BY <1>4, <1>8 DEF Kept

\* It enters a construct, in scopes with these declarations more.
LEMMA EnteredKept ==
  ASSUME Ready, Top.rest # <<>>, NEW scs, ScopesType(scs), Len(scs) = Len(scopes), NEW new,
         \A k \in 1 .. Len(walk) - 1 : SeenIn(scs, walk, k) = Seen[k],
         SeenIn(scs, walk, Len(walk)) = Seen[Len(walk)] \cup new,
         NEW nodes \in Seq(Walkable), Enter(scs, nodes), UNCHANGED <<program, status>>,
         Judge(program.structs, Here, Seen[Len(walk)]) <=>
           Fit(program.structs, nodes, Seen[Len(walk)] \cup new),
         Behind(Here) = new
  PROVE  Kept
<1>. DEFINE n == Len(walk)
            m == Len(scopes)
<1>1. /\ TypeOK /\ Rests /\ n \in Nat \ {0} /\ <<>> \in Seq(Walkable)
      /\ m \in Nat /\ current \in 1 .. m
      /\ \A k \in 1 .. n : walk[k].scope \in 1 .. m
  BY OnTheWalk, Types DEF Ready
<1>2. /\ nodes \in Seq(Visited) /\ <<>> \in Seq(Visited)
      /\ \A k \in 1 .. n : After(<<>>)[k].rest \in Seq(Walkable)
  BY <1>1, RestsAfter
<1>3. /\ scopes' = WithScope(scs, current) /\ Len(walk') = n + 1
      /\ \A k \in 1 .. n : walk'[k].scope = walk[k].scope
      /\ walk'[n + 1].scope = m + 1
  BY <1>1, <1>2, EnterProperties
<1>4. /\ \A k \in 1 .. n : walk'[k] = After(<<>>)[k]
      /\ walk'[n + 1].rest = nodes
  <2>1. After(<<>>) \in Seq(Frames) /\ Len(After(<<>>)) = n
    BY <1>1, <1>2, AfterProperties
  <2>2. walk' = Append(After(<<>>), Frame(Len(scs) + 1, nodes))
    BY DEF Enter
  <2>3. Frame(Len(scs) + 1, nodes).rest = nodes
    BY DEF Frame
  <2>4. \A frame : /\ \A k \in 1 .. n : Append(After(<<>>), frame)[k] = After(<<>>)[k]
                   /\ Append(After(<<>>), frame)[n + 1] = frame
    BY <1>1, <2>1
  <2>. QED
    BY <2>2, <2>3, <2>4
<1>5. Rests'
  <2>1. \A k \in 1 .. n + 1 : k \in 1 .. n \/ k = n + 1
    BY <1>1
  <2>. QED
    BY <1>2, <1>3, <1>4, <2>1 DEF Rests
<1>6. /\ \A s \in 1 .. m : scopes'[s].symbols = scs[s].symbols
      /\ scopes'[m + 1].symbols = <<>>
  <2>1. current \in DOMAIN scs
    BY <1>1 DEF ScopesType
  <2>2. /\ \A s \in 1 .. Len(scs) : WithScope(scs, current)[s].symbols = scs[s].symbols
        /\ WithScope(scs, current)[Len(scs) + 1] = NewScope(current)
    BY <2>1, WithScopeProperties
  <2>. QED
    BY <1>3, <2>2 DEF NewScope
<1>. DEFINE now(j) == DeclsIn(scopes'[walk'[j].scope].symbols)
            then(j) == DeclsIn(scs[walk[j].scope].symbols)
<1>7. (\A j \in 1 .. n : now(j) = then(j)) /\ now(n + 1) = {}
  <2>1. \A j \in 1 .. n : scopes'[walk'[j].scope].symbols = scs[walk[j].scope].symbols
    BY <1>1, <1>3, <1>6
  <2>2. DeclsIn(<<>>) = {}
    BY DEF DeclsIn
  <2>. QED
    BY <1>3, <1>6, <2>1, <2>2
<1>8. /\ \A k \in 1 .. n + 1 : Seen'[k] = UNION {now(j) : j \in 1 .. k}
      /\ \A k \in 1 .. n : SeenIn(scs, walk, k) = UNION {then(j) : j \in 1 .. k}
  BY <1>3 DEF Seen, SeenIn
<1>. HIDE DEF now, then
<1>9. ASSUME NEW k \in 1 .. n
      PROVE  Seen'[k] = SeenIn(scs, walk, k)
  <2>1. k \in 1 .. n + 1 /\ \A j \in 1 .. k : j \in 1 .. n
    BY <1>1
  <2>2. \A j \in 1 .. k : now(j) = then(j)
    BY <1>7, <2>1
  <2>3. {now(j) : j \in 1 .. k} = {then(j) : j \in 1 .. k}
    BY <2>2
  <2>4. Seen'[k] = UNION {now(j) : j \in 1 .. k} /\ SeenIn(scs, walk, k) = UNION {then(j) : j \in 1 .. k}
    BY <1>8, <2>1
  <2>. QED
    BY <2>3, <2>4, Zenon
<1>10. Seen'[n + 1] = SeenIn(scs, walk, n)
  <2>. HIDE DEF n
  <2>1. n \in 1 .. n /\ n + 1 \in 1 .. n + 1 /\ 1 .. n + 1 = (1 .. n) \cup {n + 1}
    BY <1>1
  <2>2. UNION {now(j) : j \in (1 .. n) \cup {n + 1}} = UNION {now(j) : j \in 1 .. n}
    BY <1>7
  <2>3. {now(j) : j \in 1 .. n} = {then(j) : j \in 1 .. n}
    BY <1>7
  <2>4. Seen'[n + 1] = UNION {now(j) : j \in (1 .. n) \cup {n + 1}}
    BY <1>8, <2>1
  <2>5. SeenIn(scs, walk, n) = UNION {then(j) : j \in 1 .. n}
    BY <1>8, <2>1
  <2>. QED
    BY ONLY <2>2, <2>3, <2>4, <2>5
<1>11. /\ \A k \in 1 .. n - 1 : Seen'[k] = Seen[k]
       /\ Seen'[n] = Seen[n] \cup new /\ Seen'[n + 1] = Seen[n] \cup new
  <2>1. n \in 1 .. n /\ \A k \in 1 .. n - 1 : k \in 1 .. n
    BY <1>1
  <2>. QED
    BY <1>9, <1>10, <2>1
<1>12. AllFit(program.structs, walk', Seen') <=> AllFit(program.structs, walk, Seen)
  BY <1>1, <1>3, <1>4, <1>11, EnteredFits
<1>13. Fitting' <=> Fitting
  BY <1>12 DEF Fitting
<1>. QED
  BY <1>5, <1>13 DEF Kept

\* A list of one node.
LEMMA FitOne ==
  ASSUME NEW structs, NEW node, NEW decls
  PROVE  /\ Fit(structs, <<node>>, decls) <=> Judge(structs, node, decls)
         /\ BehindAll(<<node>>) = Behind(node)
<1>1. DOMAIN <<node>> = {1} /\ <<node>>[1] = node /\ 1 .. 1 - 1 = {}
  OBVIOUS
<1>2. Before(<<node>>, 1) = {}
  BY <1>1 DEF Before
<1>3. decls \cup {} = decls
  OBVIOUS
<1>4. Fit(structs, <<node>>, decls) <=> Judge(structs, <<node>>[1], decls \cup Before(<<node>>, 1))
  BY <1>1 DEF Fit
<1>. QED
  BY <1>1, <1>2, <1>3, <1>4 DEF BehindAll

\* The node a validator that runs is at, and what is visible there.
LEMMA HereReady ==
  ASSUME Ready, Top.rest # <<>>
  PROVE  /\ Here.type = "MEMBER" => Here \in Members
         /\ Here.type # "MEMBER" => Here \in Walked
         /\ Seen[Len(walk)] \in SUBSET Declaration
         /\ RulesHold(program.structs)
         /\ <<>> \in Seq(Walkable)
         /\ Fit(program.structs, <<>>, Seen[Len(walk)]) /\ BehindAll(<<>>) = {}
<1>1. TypeOK /\ Rests /\ <<>> \in Seq(Walkable)
  BY DEF Ready
<1>2. Here \in Walkable
  BY <1>1, RestsAfter
<1>. QED
  BY <1>1, <1>2, WalkableNodes, SeenType, FitNothing DEF Ready

\* Entering a root or a keyword decides nothing.
LEMMA EnterKept ==
  ASSUME Ready, EnterRoot \/ EnterKeyword
  PROVE  Kept
<1>. DEFINE n == Len(walk)
<1>1. Top.rest # <<>> /\ UNCHANGED <<program, status>>
  BY DEF EnterRoot, EnterKeyword, At
<1>2. /\ Here.type # "MEMBER" => Here \in Walked
      /\ Seen[n] \in SUBSET Declaration /\ RulesHold(program.structs)
  BY <1>1, HereReady
<1>3. /\ ScopesType(scopes)
      /\ \A k \in 1 .. n - 1 : SeenIn(scopes, walk, k) = Seen[k]
      /\ SeenIn(scopes, walk, n) = Seen[n] \cup {} /\ Seen[n] = Seen[n] \cup {}
  <2>1. TypeOK
    BY DEF Ready
  <2>2. \A k \in 1 .. n - 1 : k \in 1 .. n
    BY <2>1, Types
  <2>. QED
    BY <2>1, <2>2, Types, SeenType
<1>4. PICK nodes \in Seq(Nodes) :
        /\ Enter(scopes, nodes)
        /\ Judge(program.structs, Here, Seen[n]) <=> Fit(program.structs, nodes, Seen[n])
        /\ Behind(Here) = {}
  <2>1. CASE EnterRoot
    <3>1. Here.type = "ROOT" /\ Here \in Walked /\ Enter(scopes, Here.body)
      BY <1>2, <2>1 DEF EnterRoot, At
    <3>2. Here.body \in Seq(Nodes)
      BY <3>1, WalkedNodes
    <3>. QED
      BY <1>2, <3>1, <3>2, JudgeConstruct
  <2>2. CASE EnterKeyword
    <3>1. Here.type = "KEYWORD" /\ Here \in Walked /\ Enter(scopes, Here.args \o Here.body)
      BY <1>2, <2>2 DEF EnterKeyword, At
    <3>2. Here.args \o Here.body \in Seq(Nodes)
      BY <3>1, WalkedNodes, ConcatProperties
    <3>. QED
      BY <1>2, <3>1, <3>2, JudgeConstruct
  <2>. QED
    BY <2>1, <2>2
<1>5. Judge(program.structs, Here, Seen[n]) <=> Fit(program.structs, nodes, Seen[n] \cup {})
  BY <1>3, <1>4
<1>6. nodes \in Seq(Walkable)
  BY WalkableLists
<1>. QED
  BY <1>1, <1>3, <1>4, <1>5, <1>6, EnteredKept

\* Nothing is left to visit in the construct that is left.
LEMMA LeaveKept ==
  ASSUME Ready, Leave
  PROVE  Kept
<1>. DEFINE n == Len(walk)
<1>1. /\ TypeOK /\ Rests /\ n \in Nat \ {0} /\ n > 1 /\ walk \in Seq(Frames) /\ walk # <<>>
      /\ Top = walk[n] /\ Top.rest = <<>>
      /\ walk' = Front(walk) /\ UNCHANGED <<scopes, program, status>>
  BY Types DEF Ready, Leave
<1>2. Len(walk') = n - 1 /\ \A k \in 1 .. n - 1 : walk'[k] = walk[k]
  BY <1>1, FrontLast
<1>3. (\A k \in 1 .. n - 1 : k \in 1 .. n) /\ (\A k \in 1 .. n : k = n \/ k \in 1 .. n - 1) /\ n - 1 \in Nat
  BY <1>1
<1>4. Rests'
  BY <1>1, <1>2, <1>3 DEF Rests
<1>5. \A k \in 1 .. n - 1 : Seen'[k] = Seen[k]
  <2>1. \A k \in 1 .. n - 1 : SeenIn(scopes, walk', k) = SeenIn(scopes, walk, k)
    BY <1>2, <1>3, SeenAlong
  <2>. QED
    BY <1>1, <1>2, <1>3, <2>1 DEF Seen
<1>6. Fit(program.structs, walk[n].rest, Seen[n])
  BY <1>1, FitNothing
<1>. HIDE DEF n
<1>7. Fitting <=> \A k \in 1 .. n - 1 : Fit(program.structs, walk[k].rest, Seen[k])
  BY <1>3, <1>6 DEF Fitting, AllFit, n
<1>8. Fitting' <=> \A k \in 1 .. n - 1 : Fit(program.structs, walk[k].rest, Seen[k])
  <2>1. Fitting' <=> \A k \in 1 .. Len(walk') : Fit(program'.structs, walk'[k].rest, Seen'[k])
    BY DEF Fitting, AllFit
  <2>. QED
    BY <1>1, <1>2, <1>5, <2>1
<1>. QED
  BY <1>1, <1>4, <1>7, <1>8 DEF Kept

\* When nothing is left to visit the program follows the rules.
LEMMA ReturnKept ==
  ASSUME Ready, Return
  PROVE  Kept
<1>1. /\ TypeOK /\ Len(walk) = 1 /\ Top = walk[1] /\ Top.rest = <<>>
      /\ UNCHANGED <<walk, program>> /\ status' = "done"
  BY Types DEF Ready, Return
<1>2. \A k \in 1 .. Len(walk) : walk[k].rest = <<>>
  BY <1>1
<1>3. Fitting
  BY <1>2, FitNothing DEF Fitting, AllFit
<1>. QED
  BY <1>1, <1>3 DEF Kept, Ready, Rests

\* A search decides nothing.
LEMMA SearchKept ==
  ASSUME Ready, Call_lang_find_symbol \/ Find
  PROVE  Kept
<1>1. UNCHANGED <<scopes, program, walk, status>>
  BY DEF Call_lang_find_symbol, Find, Lookup, LookHere, LookOutside, NotThere, PutBack
<1>2. Seen' = Seen /\ Rests'
  BY <1>1 DEF Seen, SeenIn, Ready, Rests
<1>. QED
  BY <1>1, <1>2 DEF Kept, Fitting

\* Nodes that need nothing, and the operands of an expression.
LEMMA PassKept ==
  ASSUME Ready, Skip \/ VisitExpression
  PROVE  Kept
<1>1. Top.rest # <<>> /\ UNCHANGED <<scopes, program, status>>
  BY DEF Skip, VisitExpression, At
<1>2. /\ Here.type # "MEMBER" => Here \in Walked
      /\ Seen[Len(walk)] \in SUBSET Declaration /\ RulesHold(program.structs)
      /\ <<>> \in Seq(Walkable)
      /\ Fit(program.structs, <<>>, Seen[Len(walk)]) /\ BehindAll(<<>>) = {}
  BY <1>1, HereReady
<1>3. CASE Skip
  <2>1. Here \in Walked /\ Here.type \in {"CONSTANT", "ARRAY", "ARRAY_ACCESS"} /\ walk' = After(<<>>)
    BY <1>2, <1>3 DEF Skip, At
  <2>2. Judge(program.structs, Here, Seen[Len(walk)]) /\ Behind(Here) = {}
    BY <1>2, <2>1, JudgeName
  <2>. QED
    BY <1>1, <1>2, <2>1, <2>2, PassedKept
<1>4. CASE VisitExpression
  <2>1. Here \in Walked /\ Here.type = "EXPRESSION" /\ Here.name # "." /\ walk' = After(OperandsOf(Here))
    BY <1>2, <1>4 DEF VisitExpression, At, OperandsOf
  <2>2. OperandsOf(Here) \in Seq(Walkable)
    BY <2>1, BelowNode, WalkableLists
  <2>3. /\ Judge(program.structs, Here, Seen[Len(walk)]) <=>
             Fit(program.structs, OperandsOf(Here), Seen[Len(walk)])
        /\ Behind(Here) = BehindAll(OperandsOf(Here))
    BY <1>2, <2>1, JudgeExpression
  <2>. QED
    BY <1>1, <2>1, <2>2, <2>3, PassedKept
<1>. QED
  BY <1>3, <1>4

\* The answer of a search, at the node it was made for.
LEMMA AnswerReady ==
  ASSUME Ready, Answered
  PROVE  /\ Top.rest # <<>> /\ search.saved = <<>>
         /\ Here.type \in {"DECL_VARIABLE", "DECL_FUNCTION", "IDENTIFIER", "FUNCTION_CALL"} =>
              search.name = Here.name
         /\ Here.type = "EXPRESSION" => Here.name = "." /\ search.name = IdOf(Here.operands[1])
         /\ Missing <=> search.name \notin NamesOf(Seen[Len(walk)])
         /\ ~Missing =>
              \A d \in Seen[Len(walk)] : d.name = search.name <=> d = Shown(search.symbol)
         /\ ~Missing => Shown(search.symbol) \in Seen[Len(walk)]
         /\ search.symbol.kind = "function" => ~Missing
<1>1. Pending /\ TypeOK /\ Searching /\ NoShadowing /\ search.phase = "up" /\ search.saved = <<>>
  BY DEF Ready, Answered
<1>2. Here.type \in {"IDENTIFIER", "FUNCTION_CALL"} => IdOf(Here) = Here.name
  BY DEF IdOf
<1>3. Missing => search.symbol.kind = "none"
  <2>1. PICK none : NoSymbol = [name |-> none, kind |-> "none", type |-> none]
    BY Zenon DEF NoSymbol, Symbol
  <2>. QED
    BY <2>1 DEF Missing
<1>4. /\ Top.rest # <<>>
      /\ Here.type \in {"DECL_VARIABLE", "DECL_FUNCTION", "IDENTIFIER", "FUNCTION_CALL"} =>
           search.name = Here.name
      /\ Here.type = "EXPRESSION" => Here.name = "." /\ search.name = IdOf(Here.operands[1])
  BY <1>1, <1>2 DEF Pending
<1>. QED
  BY <1>1, <1>3, <1>4, Found

\* A name that is used decides as the rules do.
LEMMA UseKept ==
  ASSUME Ready, VisitIdentifier \/ VisitCall
  PROVE  Kept
<1>. DEFINE seen == Seen[Len(walk)]
<1>1. Answered /\ UNCHANGED <<scopes, program>> /\ Here.type \in {"IDENTIFIER", "FUNCTION_CALL"}
  BY DEF VisitIdentifier, VisitCall, AnsweredAt
<1>2. Top.rest # <<>> /\ search.name = Here.name
  BY <1>1, AnswerReady
<1>3. /\ Here \in Walked /\ seen \in SUBSET Declaration /\ RulesHold(program.structs)
      /\ <<>> \in Seq(Walkable) /\ Fit(program.structs, <<>>, seen) /\ BehindAll(<<>>) = {}
  BY <1>1, <1>2, HereReady
<1>4. Behind(Here) = {}
  BY <1>1, <1>3, JudgeName
<1>5. CASE VisitIdentifier
  <2>1. Here.type = "IDENTIFIER" /\ IF Missing THEN Error ELSE walk' = After(<<>>) /\ UNCHANGED status
    BY <1>5 DEF VisitIdentifier, AnsweredAt
  <2>2. Judge(program.structs, Here, seen) <=> ~Missing
    BY <1>1, <1>2, <1>3, <2>1, JudgeName, AnswerReady
  <2>. QED
    BY <1>1, <1>2, <1>3, <1>4, <2>1, <2>2, PassedKept, RefusedKept
<1>6. CASE VisitCall
  <2>1. /\ Here.type = "FUNCTION_CALL"
        /\ IF search.symbol.kind = "function" THEN walk' = After(<<>>) /\ UNCHANGED status ELSE Error
    BY <1>6 DEF VisitCall, AnsweredAt
  <2>2. Judge(program.structs, Here, seen) <=> \E d \in seen : d.name = Here.name /\ d.isFunction
    BY <1>3, <2>1, JudgeName
  <2>3. Judge(program.structs, Here, seen) <=> search.symbol.kind = "function"
    <3>1. CASE Missing
      <4>1. \A d \in seen : d.name # Here.name
        BY <1>1, <1>2, <3>1, AnswerReady DEF NamesOf
      <4>2. search.symbol.kind # "function"
        BY <1>1, <3>1, AnswerReady
      <4>. QED
        BY <2>2, <4>1, <4>2
    <3>2. CASE ~Missing
      <4>1. \A d \in seen : d.name = Here.name <=> d = Shown(search.symbol)
        BY <1>1, <1>2, <3>2, AnswerReady
      <4>2. Shown(search.symbol) \in seen
        BY <1>1, <3>2, AnswerReady
      <4>3. Shown(search.symbol).isFunction <=> search.symbol.kind = "function"
        BY DEF Shown
      <4>. QED
        BY <2>2, <4>1, <4>2, <4>3
    <3>. QED
      BY <3>1, <3>2
  <2>. QED
    BY <1>1, <1>2, <1>3, <1>4, <2>1, <2>3, PassedKept, RefusedKept
<1>. QED
  BY <1>5, <1>6

\* A declaration decides as the rules do.
LEMMA DeclareKept ==
  ASSUME Ready, DeclareVariable \/ DeclareFunction
  PROVE  Kept
<1>. DEFINE n == Len(walk)
            seen == Seen[n]
            kind == IF Here.type = "DECL_FUNCTION" THEN "function" ELSE "variable"
            symbol == Symbol(Here.name, kind, Here.info)
            structs == program.structs
<1>1. Answered /\ UNCHANGED program /\ Here.type \in {"DECL_VARIABLE", "DECL_FUNCTION"}
  BY DEF DeclareVariable, DeclareFunction, AnsweredAt
<1>2. /\ Top.rest # <<>> /\ search.name = Here.name /\ search.saved = <<>>
      /\ Missing <=> Here.name \notin NamesOf(seen)
  BY <1>1, AnswerReady
<1>3. Here \in Walked /\ seen \in SUBSET Declaration /\ RulesHold(structs)
  BY <1>1, <1>2, HereReady
<1>4. /\ symbol \in Symbols /\ Shown(symbol) = DeclarationOf(Here)
  <2>1. Here.name \in STRING /\ Here.info \in STRING
    BY <1>3, WalkedNodes
  <2>2. symbol = [name |-> Here.name, kind |-> kind, type |-> Here.info]
    BY Zenon DEF Symbol
  <2>3. symbol \in Symbols
    BY <2>1, <2>2 DEF Symbols
  <2>4. Shown(symbol) = DeclarationOf(Here)
    BY <1>1, <2>2 DEF Shown, DeclarationOf
  <2>. QED
    BY <2>3, <2>4
<1>. HIDE DEF symbol
<1>5. Behind(Here) = {Shown(symbol)}
  BY <1>1, <1>3, <1>4, JudgeName, JudgeConstruct
<1>6. ~Missing => ~Judge(structs, Here, seen)
  BY <1>1, <1>2, <1>3, JudgeName, JudgeConstruct
<1>7. CASE DeclareVariable
  <2>1. CASE ~Missing
    <3>1. Error
      BY <1>7, <2>1 DEF DeclareVariable
    <3>. QED
      BY <1>1, <1>2, <1>6, <2>1, <3>1, RefusedKept
  <2>2. CASE Missing
    <3>1. Here.type = "DECL_VARIABLE"
      BY <1>7 DEF DeclareVariable, AnsweredAt
    <3>2. Judge(structs, Here, seen)
      BY <1>2, <1>3, <2>2, <3>1, JudgeName
    <3>3. /\ scopes' = WithSymbol(scopes, current, symbol)
          /\ walk' = After(<<>>) /\ UNCHANGED status
      BY <1>7, <2>2, <3>1 DEF DeclareVariable, symbol
    <3>. QED
      BY <1>1, <1>2, <1>4, <1>5, <3>2, <3>3, AddedKept
  <2>. QED
    BY <2>1, <2>2
<1>8. CASE DeclareFunction
  <2>1. CASE ~Missing
    <3>1. Error
      BY <1>8, <2>1 DEF DeclareFunction
    <3>. QED
      BY <1>1, <1>2, <1>6, <2>1, <3>1, RefusedKept
  <2>2. CASE Missing
    <3>. DEFINE scs == WithSymbol(scopes, current, symbol)
                nodes == Here.args \o Here.body
    <3>1. Here.type = "DECL_FUNCTION"
      BY <1>8 DEF DeclareFunction, AnsweredAt
    <3>2. nodes \in Seq(Walkable)
      BY <1>3, WalkedNodes, ConcatProperties, WalkableLists
    <3>3. Enter(scs, nodes) /\ UNCHANGED status
      BY <1>8, <2>2, <3>1 DEF DeclareFunction, symbol
    <3>4. Judge(structs, Here, seen) <=> Fit(structs, nodes, seen \cup {Shown(symbol)})
      BY <1>2, <1>3, <1>4, <2>2, <3>1, JudgeConstruct
    <3>5. TypeOK /\ Chain /\ Climbing
      BY DEF Ready
    <3>6. ScopesType(scs) /\ Len(scs) = Len(scopes)
      BY <1>4, <3>5, Types, WithSymbolProperties
    <3>7. /\ \A k \in 1 .. n - 1 : SeenIn(scs, walk, k) = Seen[k]
          /\ SeenIn(scs, walk, n) = seen \cup {Shown(symbol)}
      BY <1>2, <1>4, <3>5, SeenGrows
    <3>. HIDE DEF scs, nodes
    <3>. QED
      BY <1>1, <1>2, <1>5, <3>2, <3>3, <3>4, <3>6, <3>7, EnteredKept
  <2>. QED
    BY <2>1, <2>2
<1>. QED
  BY <1>7, <1>8

\* sem_validate_member_access decides as the rules do.
LEMMA AccessKept ==
  ASSUME Ready, Top.rest # <<>>, NEW type \in STRING, AccessMember(type),
         UNCHANGED <<scopes, program>>, Here.operands[2] \in Nodes,
         Judge(program.structs, Here, Seen[Len(walk)]) <=>
           FieldsFitAt(FieldsFit(Walked, program.structs), program.structs, Here, type),
         Behind(Here) = {}
  PROVE  Kept
<1>. DEFINE r == Here.operands[2]
            seen == Seen[Len(walk)]
            structs == program.structs
<1>1. /\ program \in Programs /\ RulesHold(structs) /\ <<>> \in Seq(Walkable)
      /\ Fit(structs, <<>>, seen) /\ BehindAll(<<>>) = {}
  BY HereReady DEF Ready
<1>2. Judge(structs, Here, seen) <=>
        /\ type \in DOMAIN structs
        /\ IF IsExpression(r, {"."}) THEN Judge(structs, Member(r, type), seen)
           ELSE IdOf(r) \in DOMAIN structs[type]
  BY <1>1, FieldsFitStep
<1>3. CASE type \notin DOMAIN structs
  <2>1. Error
    BY <1>3 DEF AccessMember
  <2>. QED
    BY <1>2, <1>3, <2>1, RefusedKept
<1>4. CASE type \in DOMAIN structs /\ IsExpression(r, {"."})
  <2>. DEFINE rest == Member(r, type)
  <2>1. walk' = After(<<rest>>) /\ UNCHANGED status
    BY <1>4 DEF AccessMember
  <2>2. r \in MemberAccesses(Nodes)
    BY <1>4 DEF MemberAccesses
  <2>3. rest \in Members
    BY <2>2 DEF Members
  <2>. HIDE DEF rest
  <2>4. Behind(rest) = {} /\ <<rest>> \in Seq(Walkable)
    BY <1>1, <2>3, JudgeMember DEF Walkable
  <2>5. Judge(structs, Here, seen) <=> Judge(structs, rest, seen)
    BY <1>2, <1>4 DEF rest
  <2>6. /\ Judge(structs, Here, seen) <=> Fit(structs, <<rest>>, seen)
        /\ Behind(Here) = BehindAll(<<rest>>)
    BY <2>4, <2>5, FitOne
  <2>. QED
    BY <2>1, <2>4, <2>6, PassedKept
<1>5. CASE type \in DOMAIN structs /\ ~IsExpression(r, {"."})
  <2>1. Judge(structs, Here, seen) <=> IdOf(r) \in DOMAIN structs[type]
    BY <1>2, <1>5
  <2>2. IF IdOf(r) \in DOMAIN structs[type] THEN walk' = After(<<>>) /\ UNCHANGED status ELSE Error
    BY <1>5 DEF AccessMember, HasField
  <2>. HIDE DEF r
  <2>. QED
    BY <1>1, <2>1, <2>2, PassedKept, RefusedKept
<1>. QED
  BY <1>3, <1>4, <1>5

\* A member access decides as the rules do, from a variable or from a field.
LEMMA MemberKept ==
  ASSUME Ready, VisitAccess \/ VisitMember
  PROVE  Kept
<1>. DEFINE seen == Seen[Len(walk)]
            structs == program.structs
            fields == FieldsFit(Walked, structs)
            Fits(type) == FieldsFitAt(fields, structs, Here, type)
<1>1. CASE VisitAccess
  <2>1. Answered /\ Here.type = "EXPRESSION" /\ UNCHANGED <<scopes, program>>
    BY <1>1 DEF VisitAccess, AnsweredAt
  <2>2. /\ Top.rest # <<>> /\ Here.name = "." /\ search.name = IdOf(Here.operands[1])
        /\ Missing <=> search.name \notin NamesOf(seen)
    BY <2>1, AnswerReady
  <2>3. Here \in Walked /\ seen \in SUBSET Declaration /\ RulesHold(structs)
    BY <2>1, <2>2, HereReady
  <2>4. /\ Judge(structs, Here, seen) <=> \E d \in seen : d.name = search.name /\ Fits(d.type)
        /\ Behind(Here) = {}
    BY <2>1, <2>2, <2>3, JudgeExpression
  <2>. HIDE DEF Fits
  <2>5. CASE Missing
    <3>1. \A d \in seen : d.name # search.name
      BY <2>2, <2>5 DEF NamesOf
    <3>2. Error
      BY <1>1, <2>5 DEF VisitAccess
    <3>. QED
      BY <2>1, <2>2, <2>4, <3>1, <3>2, RefusedKept
  <2>6. CASE ~Missing
    <3>1. /\ \A d \in seen : d.name = search.name <=> d = Shown(search.symbol)
          /\ Shown(search.symbol) \in seen
      BY <2>1, <2>6, AnswerReady
    <3>2. Shown(search.symbol).type = search.symbol.type
      BY DEF Shown
    <3>3. Judge(structs, Here, seen) <=> Fits(search.symbol.type)
      BY <2>4, <3>1, <3>2
    <3>4. search.symbol.type \in STRING
      BY <2>6, SearchType DEF Ready
    <3>5. AccessMember(search.symbol.type)
      BY <1>1, <2>6 DEF VisitAccess
    <3>6. Here.operands[2] \in Nodes
      BY <2>1, <2>2, <2>3, BelowNode
    <3>7. Judge(structs, Here, seen) <=>
            FieldsFitAt(FieldsFit(Walked, structs), structs, Here, search.symbol.type)
      BY <3>3 DEF Fits
    <3>. QED
      BY <2>1, <2>2, <2>4, <3>4, <3>5, <3>6, <3>7, AccessKept
  <2>. QED
    BY <2>5, <2>6
<1>2. CASE VisitMember
  <2>. DEFINE x == IdOf(Here.operands[1])
              type == structs[Here.info][x]
  <2>1. Top.rest # <<>> /\ Here.type = "MEMBER" /\ UNCHANGED <<scopes, program>>
    BY <1>2 DEF VisitMember, At
  <2>2. /\ IF HasField(Here.info, x) THEN AccessMember(type) ELSE Error
    BY <1>2 DEF VisitMember
  <2>3. Here \in Members /\ RulesHold(structs) /\ program \in Programs
    BY <2>1, HereReady DEF Ready
  <2>4. /\ Judge(structs, Here, seen) <=> MemberFits(structs, Here)
        /\ Behind(Here) = {}
        /\ Here.operands[2] \in Nodes
    BY <2>3, JudgeMember
  <2>5. MemberFits(structs, Here) <=> HasField(Here.info, x) /\ Fits(type)
    BY DEF MemberFits, HasField
  <2>6. HasField(Here.info, x) => type \in STRING
    BY <2>3, ProgramsAssumption DEF HasField
  <2>7. CASE HasField(Here.info, x)
    <3>1. Judge(structs, Here, seen) <=> FieldsFitAt(FieldsFit(Walked, structs), structs, Here, type)
      BY <2>4, <2>5, <2>7
    <3>. HIDE DEF type
    <3>. QED
      BY <2>1, <2>2, <2>4, <2>6, <2>7, <3>1, AccessKept
  <2>8. CASE ~HasField(Here.info, x)
    BY <2>1, <2>2, <2>4, <2>5, <2>8, RefusedKept
  <2>. QED
    BY <2>7, <2>8
<1>. QED
  BY <1>1, <1>2

\* Every step of a validator that runs.
LEMMA KeptStep ==
  ASSUME Ready, Next
  PROVE  Kept
<1>1. ~Over
  BY DEF Ready, Over
<1>. QED
  BY <1>1, EnterKept, LeaveKept, ReturnKept, PassKept, SearchKept, UseKept, DeclareKept, MemberKept
     DEF Next

\* At the start all of the program is left to visit.
LEMMA RuleInit ==
  ASSUME Init, \A structs : RulesHold(structs)
  PROVE  RuleInv
<1>1. /\ program \in Programs /\ program.root \in Walked /\ program.root.type # "MEMBER"
      /\ walk = <<Frame(1, <<program.root>>)>> /\ status = "running"
      /\ scopes = <<NewScope(0)>>
  BY WalkedNodes DEF Init, ScopesInit, Walked
<1>2. Len(walk) = 1 /\ walk[1].scope = 1 /\ walk[1].rest = <<program.root>>
  <2>1. PICK frame : frame = Frame(1, <<program.root>>)
    OBVIOUS
  <2>2. frame.scope = 1 /\ frame.rest = <<program.root>>
    BY <2>1 DEF Frame
  <2>. QED
    BY <1>1, <2>1, <2>2
<1>3. Rests
  <2>1. <<program.root>> \in Seq(Walkable)
    BY <1>1 DEF Walkable
  <2>2. \A k \in 1 .. Len(walk) : walk[k].rest = <<program.root>>
    BY <1>2
  <2>. QED
    BY <2>1, <2>2 DEF Rests
<1>4. Seen[1] = {}
  <2>1. scopes[1].symbols = <<>>
    BY <1>1 DEF NewScope
  <2>2. \A j \in 1 .. 1 : DeclsIn(scopes[walk[j].scope].symbols) = {}
    BY <1>2, <2>1 DEF DeclsIn
  <2>. QED
    BY <1>2, <2>2 DEF Seen, SeenIn
<1>5. Fitting <=> Judge(program.structs, program.root, {})
  <2>1. Fitting <=> Fit(program.structs, walk[1].rest, Seen[1])
    BY <1>2 DEF Fitting, AllFit
  <2>. QED
    BY <1>2, <1>4, <2>1, FitOne
<1>6. Accepts(Walked, program) <=> Judge(program.structs, program.root, {})
  BY <1>1 DEF Accepts, Judge
<1>7. DecidesByRules
  BY <1>1 DEF DecidesByRules
<1>. QED
  BY <1>3, <1>5, <1>6, <1>7 DEF RuleInv

\* Every step keeps what is left to visit and the rules together.
LEMMA RuleStep ==
  ASSUME SemInv, RuleInv, [Next]_vars, \A structs : RulesHold(structs)
  PROVE  RuleInv'
<1>1. CASE UNCHANGED vars
  <2>1. Rests' /\ (Fitting' <=> Fitting) /\ program' = program /\ status' = status
    BY <1>1 DEF vars, RuleInv, Rests, Fitting, Seen, SeenIn
  <2>. QED
    BY <2>1 DEF RuleInv, DecidesByRules
<1>2. CASE Next /\ status = "running"
  <2>1. Ready
    BY <1>2 DEF Ready, SemInv, RuleInv
  <2>2. Kept
    BY <1>2, <2>1, KeptStep
  <2>3. Accepts(Walked, program) <=> Fitting
    BY <1>2 DEF RuleInv
  <2>4. /\ Rests' /\ program' = program
        /\ \/ status' = "running" /\ (Fitting' <=> Fitting)
           \/ status' = "done" /\ Fitting
           \/ status' = "exit" /\ ~Fitting
    BY <1>2, <2>2 DEF Kept
  <2>. QED
    BY <2>3, <2>4 DEF RuleInv, DecidesByRules
<1>3. CASE Next /\ status # "running"
  <2>1. search.phase = "idle"
    BY <1>3 DEF SemInv, Pending
  <2>2. UNCHANGED vars
    BY <1>3, <2>1 DEF Next, EnterRoot, EnterKeyword, Leave, Return, Skip, VisitExpression,
       Call_lang_find_symbol, Find, Lookup, LookHere, LookOutside, NotThere, PutBack, VisitIdentifier,
       VisitCall, DeclareVariable, DeclareFunction, VisitAccess, VisitMember, Over, At, AnsweredAt, Answered
  <2>. QED
    BY <1>1, <2>2
<1>. QED
  BY <1>1, <1>2, <1>3

\* DecidesByRules: sem_validate_node, with the scopes it enters and leaves and the
\* searches of lang_find_symbol in them, accepts the programs that follow the
\* rules of names and no others, for all programs that are finite trees.
THEOREM RulesDecided ==
  ASSUME FiniteTrees(Walked)
  PROVE  Spec => []DecidesByRules
<1>1. \A structs : RulesHold(structs)
  BY DeclaredDefined, FieldsDefined, FollowsDefined DEF RulesHold
<1>2. Init => RuleInv
  BY <1>1, RuleInit
<1>3. SemInv /\ RuleInv /\ [Next]_vars => RuleInv'
  BY <1>1, RuleStep
<1>4. RuleInv => DecidesByRules
  BY DEF RuleInv
<1>. QED
  BY <1>2, <1>3, <1>4, InvHolds, PTL DEF Spec

=============================================================================
