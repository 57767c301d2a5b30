------------------------------ MODULE Semanter ------------------------------
(***************************************************************************)
(* The validator (src/src/semanter.c), one call of sem_validate_node on a  *)
(* program.  Its recursion only ever goes on with what is left of a list,  *)
(* so the calls of one scope are the nodes still to visit, in order; a     *)
(* construct that enters a scope (a root, a keyword, a function) pushes a  *)
(* frame on walk.                                                          *)
(*                                                                         *)
(* No keyword of dGen has a validate_node of its own.  The structs are     *)
(* those dgen_struct_init_node has added while the program was parsed.     *)
(***************************************************************************)

EXTENDS Scopes, NameRules, FiniteSets

CONSTANTS
  Nodes,     \* the nodes below the roots of all programs
  Programs   \* [root, structs]: a tree, and of each struct the types of its fields

\* The rest of a member access: an expression, and the struct it starts from.
Member(node, struct) == [node EXCEPT !.type = "MEMBER", !.info = struct]

ASSUME NodesAssumption == \A n \in Nodes : IsNodeOver(Nodes, n) /\ n.type # "MEMBER"

ASSUME ProgramsAssumption ==
  \A p \in Programs :
    /\ IsNodeOver(Nodes, p.root) /\ p.root.type = "ROOT"
    /\ \A s \in DOMAIN p.structs : \A f \in DOMAIN p.structs[s] : p.structs[s][f] \in STRING

\* The nodes of the trees.
Walked == Nodes \cup {p.root : p \in Programs}

VARIABLES
  program,  \* the program
  walk,     \* the constructs entered, the innermost last: scope and nodes to visit
  status    \* "running", "done" or "exit"

vars == <<scopes, current, search, program, walk, status>>

\* scope: the current scope when the frame was pushed; no action reads it.
Frame(scope, nodes) == [scope |-> scope, rest |-> nodes]

Top == Last(walk)
Here == Head(Top.rest)

At(type) == /\ status = "running" /\ search.phase = "idle"
            /\ Top.rest # <<>> /\ Here.type = type

\* The walk goes on with nodes in place of the node it is at.
After(nodes) == Append(Front(walk), [Top EXCEPT !.rest = nodes \o Tail(@)])

Error == status' = "exit" /\ UNCHANGED walk

Init ==
  /\ ScopesInit
  /\ program \in Programs
  /\ walk = <<Frame(1, <<program.root>>)>>
  /\ status = "running"

-----------------------------------------------------------------------------
(* Nodes that need no symbol.                                              *)

\* lang_scope_enter in scs; the nodes are those of the construct.
Enter(scs, nodes) ==
  /\ scopes' = WithScope(scs, current)
  /\ current' = Len(scs) + 1
  /\ walk' = Append(After(<<>>), Frame(Len(scs) + 1, nodes))

EnterRoot ==
  /\ At("ROOT")
  /\ Enter(scopes, Here.body)
  /\ UNCHANGED <<search, program, status>>

EnterKeyword ==
  /\ At("KEYWORD")
  /\ Enter(scopes, Here.args \o Here.body)
  /\ UNCHANGED <<search, program, status>>

\* The list has been visited.
Leave ==
  /\ status = "running" /\ search.phase = "idle" /\ Top.rest = <<>> /\ Len(walk) > 1
  /\ current' = Outside(current)
  /\ walk' = Front(walk)
  /\ UNCHANGED <<scopes, search, program, status>>

Return ==
  /\ status = "running" /\ search.phase = "idle" /\ Top.rest = <<>> /\ Len(walk) = 1
  /\ status' = "done"
  /\ UNCHANGED <<scopes, current, search, program, walk>>

\* The list stays at the node.
SlipSkipStays ==
  /\ At("CONSTANT") \/ At("ARRAY") \/ At("ARRAY_ACCESS")
  /\ UNCHANGED vars

Skip ==
  /\ At("CONSTANT") \/ At("ARRAY") \/ At("ARRAY_ACCESS")
  /\ walk' = After(<<>>)
  /\ UNCHANGED <<scopes, current, search, program, status>>

\* A unary operator has one operand; a member access is looked up as a whole.
VisitExpression ==
  /\ At("EXPRESSION") /\ Here.name # "."
  /\ walk' = After(IF Here.name \in UnaryOperators THEN <<Here.operands[1]>> ELSE Here.operands)
  /\ UNCHANGED <<scopes, current, search, program, status>>

-----------------------------------------------------------------------------
(* Nodes that need a symbol: lang_find_symbol is called, by the validator  *)
(* or by lang_add_symbol, and its answer decides.                          *)

Call_lang_find_symbol ==
  /\ \/ (At("IDENTIFIER") \/ At("FUNCTION_CALL")) /\ Seek(IdOf(Here))
     \/ (At("DECL_VARIABLE") \/ At("DECL_FUNCTION")) /\ Seek(Here.name)
     \/ At("EXPRESSION") /\ Here.name = "." /\ Seek(IdOf(Here.operands[1]))
  /\ UNCHANGED <<scopes, current, program, walk, status>>

Find ==
  /\ Lookup
  /\ UNCHANGED <<program, walk, status>>

AnsweredAt(type) == status = "running" /\ Answered /\ Here.type = type /\ search' = Idle

VisitIdentifier ==
  /\ AnsweredAt("IDENTIFIER")
  /\ IF Missing THEN Error ELSE walk' = After(<<>>) /\ UNCHANGED status
  /\ UNCHANGED <<scopes, current, program>>

\* The arguments of the call are not visited.
VisitCall ==
  /\ AnsweredAt("FUNCTION_CALL")
  /\ IF search.symbol.kind = "function" THEN walk' = After(<<>>) /\ UNCHANGED status ELSE Error
  /\ UNCHANGED <<scopes, current, program>>

\* lang_add_symbol
SlipDeclareVariableHere ==
  /\ AnsweredAt("DECL_VARIABLE")
  /\ IF \E i \in DOMAIN scopes[current].symbols :
          scopes[current].symbols[i].name = Here.name
     THEN Error /\ UNCHANGED scopes
     ELSE /\ scopes' = WithSymbol(scopes, current, Symbol(Here.name, "variable", Here.info))
          /\ walk' = After(<<>>) /\ UNCHANGED status
  /\ UNCHANGED <<current, program>>

DeclareVariable ==
  /\ AnsweredAt("DECL_VARIABLE")
  /\ IF ~Missing THEN Error /\ UNCHANGED scopes
     ELSE /\ scopes' = WithSymbol(scopes, current, Symbol(Here.name, "variable", Here.info))
          /\ walk' = After(<<>>) /\ UNCHANGED status
  /\ UNCHANGED <<current, program>>

\* The name is added inside the scope of the function.
SlipDeclareFunctionInside ==
  /\ AnsweredAt("DECL_FUNCTION")
  /\ IF ~Missing THEN Error /\ UNCHANGED <<scopes, current>>
     ELSE /\ scopes' = WithSymbol(WithScope(scopes, current), Len(scopes) + 1,
                                  Symbol(Here.name, "function", Here.info))
          /\ current' = Len(scopes) + 1
          /\ walk' = Append(After(<<>>), Frame(Len(scopes) + 1, Here.args \o Here.body))
          /\ UNCHANGED status
  /\ UNCHANGED program

DeclareFunction ==
  /\ AnsweredAt("DECL_FUNCTION")
  /\ IF ~Missing THEN Error /\ UNCHANGED <<scopes, current>>
     ELSE /\ Enter(WithSymbol(scopes, current, Symbol(Here.name, "function", Here.info)),
                   Here.args \o Here.body)
          /\ UNCHANGED status
  /\ UNCHANGED program

-----------------------------------------------------------------------------
(* sem_validate_member_access: object is the symbol or field on the left.  *)

HasField(struct, x) == struct \in DOMAIN program.structs /\ x \in DOMAIN program.structs[struct]

AccessMember(type) ==
  LET r == Here.operands[2] IN
  IF type \notin DOMAIN program.structs THEN Error
  ELSE IF IsExpression(r, {"."})
       THEN walk' = After(<<Member(r, type)>>) /\ UNCHANGED status
  ELSE IF HasField(type, IdOf(r)) THEN walk' = After(<<>>) /\ UNCHANGED status
  ELSE Error

VisitAccess ==
  /\ AnsweredAt("EXPRESSION")
  /\ IF Missing THEN Error ELSE AccessMember(search.symbol.type)
  /\ UNCHANGED <<scopes, current, program>>

\* A member access to the right of another starts from a field.
VisitMember ==
  /\ At("MEMBER")
  /\ LET x == IdOf(Here.operands[1])
     IN IF HasField(Here.info, x) THEN AccessMember(program.structs[Here.info][x]) ELSE Error
  /\ UNCHANGED <<scopes, current, search, program>>

-----------------------------------------------------------------------------

Over == status # "running" /\ UNCHANGED vars

Next ==
  \/ EnterRoot \/ EnterKeyword \/ Leave \/ Return \/ Skip \/ VisitExpression
  \/ Call_lang_find_symbol \/ Find
  \/ VisitIdentifier \/ VisitCall \/ DeclareVariable \/ DeclareFunction
  \/ VisitAccess \/ VisitMember \/ Over

Spec == Init /\ [][Next]_vars

\* The validator is one thread that runs until it ends.
FairSpec == Spec /\ WF_vars(Next)

-----------------------------------------------------------------------------
(* What is expected of a call.                                             *)

\* The nodes a walk may come to.
Visited ==
  {n \in [type : STRING \cup {"MEMBER"}, name : STRING, info : STRING,
          operands : Seq(Nodes), args : Seq(Nodes), body : Seq(Nodes)] :
     /\ n.type = "EXPRESSION" => Len(n.operands) \in {1, 2}
     /\ n.type = "MEMBER" \/ IsExpression(n, {"."}) => Len(n.operands) = 2}

\* The names looked for, and "" for none.
Names == STRING \cup {""}

Symbols == [name : STRING, kind : {"variable", "function"}, type : STRING]

\* The types of the variables; a scope is created after its parent.
TypeOK ==
  /\ status \in {"running", "done", "exit"}
  /\ scopes \in Seq([parent : Nat, symbols : Seq(Symbols), childs : Seq(DOMAIN scopes)])
  /\ current \in DOMAIN scopes
  /\ \A s \in DOMAIN scopes :
       scopes[s].parent \in 0 .. s - 1 /\ (scopes[s].parent = 0 <=> s = 1)
  /\ search \in [phase : {"idle", "down", "up"}, name : Names,
                 symbol : Symbols \cup {NoSymbol}, saved : Seq(DOMAIN scopes)]
  /\ walk \in Seq([scope : DOMAIN scopes, rest : Seq(Visited)]) /\ walk # <<>>

\* The scopes of the constructs being visited are a chain of parents down from
\* the global scope, and the innermost is the current one, or will be once the
\* searches under way have put it back.  So each declaration lands in the scope
\* of its construct, and the walk ends where it began.
ScopesNest ==
  /\ walk[1].scope = 1
  /\ \A k \in 2 .. Len(walk) : scopes[walk[k].scope].parent = walk[k - 1].scope
  /\ Home = Top.scope

Declares(k, name) ==
  \E i \in DOMAIN scopes[walk[k].scope].symbols : scopes[walk[k].scope].symbols[i].name = name

\* Among the scopes that enclose the place the validator is at, no name is
\* declared twice: an inner declaration never hides an outer one.  (A name may
\* be declared again outside once the inner scope has been left.)
NoShadowing ==
  \A k \in DOMAIN walk : \A i \in DOMAIN scopes[walk[k].scope].symbols :
    LET name == scopes[walk[k].scope].symbols[i].name IN
    /\ \A j \in DOMAIN walk : Declares(j, name) => j = k
    /\ \A j \in DOMAIN scopes[walk[k].scope].symbols :
         scopes[walk[k].scope].symbols[j].name = name => j = i

\* A search that has ended has found the innermost declaration of the name in
\* the enclosing scopes, and nothing only if there is none, although current
\* moved while it went on.
FindsNearest ==
  Answered =>
    IF Missing THEN \A k \in DOMAIN walk : ~Declares(k, search.name)
    ELSE \E k \in DOMAIN walk :
           /\ search.symbol \in ToSet(scopes[walk[k].scope].symbols)
           /\ search.symbol.name = search.name
           /\ \A j \in k + 1 .. Len(walk) : ~Declares(j, search.name)

\* Every scope is reached exactly once from the global one: it stands once in
\* the children of its parent and nowhere else.  lang_free visits the scopes
\* this way after the walk, the ones that were left included.
EveryScopeOwned ==
  \A s \in 2 .. Len(scopes) :
    /\ Cardinality({at \in (DOMAIN scopes) \X (1 .. Len(scopes)) :
                      /\ at[2] \in DOMAIN scopes[at[1]].childs
                      /\ scopes[at[1]].childs[at[2]] = s}) = 1
    /\ s \in ToSet(scopes[scopes[s].parent].childs)

\* The validator ends normally on the programs that follow the rules of names,
\* and with an error on all others: what is visible in the chain of scopes, as
\* they are entered, searched and left, is what the rules say.
DecidesByRules ==
  /\ status = "done" => Accepts(Walked, program)
  /\ status = "exit" => ~Accepts(Walked, program)

\* The validator ends, on every program.
Terminates == <>(status # "running")

=============================================================================
