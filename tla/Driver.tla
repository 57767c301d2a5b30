-------------------------------- MODULE Driver --------------------------------
(***************************************************************************)
(* The memory of one run of the compiler: main (src/compiler/src/main.c,   *)
(* and src/tests/parsing.c, which makes the same calls), which creates,    *)
(* shares and frees what the phases need, and step by step the two         *)
(* functions that take the data apart, parser_free_ast (src/src/parser.c)  *)
(* and lang_free (src/src/lang.c).  What a phase computes is the subject   *)
(* of the other modules; here it allocates objects, and it may exit.       *)
(***************************************************************************)

EXTENDS Naturals, Sequences, SequencesExt

CONSTANT Runs   \* what the phases allocate: see RunsAssumption

\* An object is a pair of its kind and a number.
The(kind) == <<kind, 0>>
None == The("null")

\* The pointers parser_free_ast goes through in a node, in the order of the code;
\* the first two belong to expressions and have other bytes in other nodes.
Fields(type) ==
  IF type = "EXPRESSION" THEN <<"l", "r", "next", "args", "body">> ELSE <<"next", "args", "body">>

\* The pointers by which the free functions get from one object to another.
\* Nothing follows the list of fields of a struct.
Pointers(objects, o) ==
  IF o[1] = "node" THEN ToSet(Fields(objects[o].type))
  ELSE IF o[1] = "scope" THEN {"childs", "next", "symbols"}
  ELSE IF o[1] \in {"type", "symbol"} THEN {"next"}
  ELSE {}

Slots(objects) == {s \in (DOMAIN objects) \X {"l", "r", "next", "args", "body", "childs", "symbols"} :
                     s[2] \in Pointers(objects, s[1])}

Target(objects, slot) == objects[slot[1]][slot[2]]

\* What main has pointers to in the end: main's root, lang->types and lang->root.
Heads(r) == {r.ast, r.types, r.scope}

\* links: of each object its pointers.  language, parsed, validated: the objects
\* get_dgen_language, parser_analyze and sem_validate_node allocate.
\*
\* The phases leave trees and lists behind: to every object but the heads and the
\* fields of structs leads exactly one pointer.  For the nodes this is OneOwner
\* of RpnParser, for the scopes EveryScopeOwned of Semanter; types and symbols
\* enter their lists in front, once (lang_add_type, lang_insert_symbol).  The
\* numbers are names: objects of a kind have them in an order in which the owner
\* comes first.
ASSUME RunsAssumption ==
  \A r \in Runs :
    /\ DOMAIN r = {"links", "language", "parsed", "validated", "ast", "types", "scope"}
    /\ r.language \cup r.parsed \cup r.validated = DOMAIN r.links
    /\ DOMAIN r.links \subseteq {"node", "type", "field", "scope", "symbol"} \X Nat
    /\ Heads(r) \subseteq DOMAIN r.links
    /\ r.ast[1] = "node" /\ r.types[1] = "type" /\ r.scope[1] = "scope"
    /\ r.links[r.scope].next = None
    /\ \A o \in DOMAIN r.links : o[1] = "node" =>
         DOMAIN r.links[o] = {"type", "l", "r", "next", "args", "body"}
    /\ \A s \in Slots(r.links) : Target(r.links, s) # None =>
         /\ Target(r.links, s) \in DOMAIN r.links \ Heads(r)
         /\ Target(r.links, s)[1] = IF s[2] = "symbols" THEN "symbol" ELSE s[1][1]
         /\ Target(r.links, s)[2] > s[1][2]
         /\ \A t \in Slots(r.links) : Target(r.links, t) = Target(r.links, s) => t = s
    /\ \A o \in DOMAIN r.links \ Heads(r) :
         o[1] # "field" => \E s \in Slots(r.links) : Target(r.links, s) = o

VARIABLES
  run,     \* what this run allocates
  links,   \* the pointers, as they are now
  root,    \* main's pointer to the tree
  live,    \* the objects allocated and not freed
  pc,      \* the next call main makes
  stack,   \* the calls of the free function under way, the outermost first
  status    \* "running", "done", "exit" or "fault"

vars == <<run, links, root, live, pc, stack, status>>

Init ==
  /\ run \in Runs
  /\ links = run.links /\ root = None
  /\ live = {} /\ pc = "language" /\ stack = <<>>
  /\ status = "running"

\* Operators named Slip... are variants of the definition after them with one
\* plausible mistake in it; no behaviour of the specification uses them.

-----------------------------------------------------------------------------
(* The calls of main.                                                      *)

At(call) == status = "running" /\ pc = call /\ stack = <<>>

\* A phase that uses some objects and allocates others.
Phase(call, next, uses, allocates) ==
  /\ At(call)
  /\ pc' = next
  /\ live' = live \cup allocates
  /\ status' = IF uses \subseteq live THEN status ELSE "fault"
  /\ UNCHANGED <<run, links, stack>>

get_dgen_language == Phase("language", "file", {}, {The("lang")} \cup run.language) /\ UNCHANGED root
read_file         == Phase("file", "lexer", {}, {The("source")}) /\ UNCHANGED root
lexer_analyze     == Phase("lexer", "parser", {The("lang"), The("source")}, {The("tokens")}) /\ UNCHANGED root
sem_validate_node == Phase("semanter", "generator", {The("lang")} \cup run.parsed, run.validated)
                       /\ UNCHANGED root
generator_generate == Phase("generator", "free_ast", run.parsed, {The("generator")}) /\ UNCHANGED root

parser_analyze ==
  /\ Phase("parser", "release", {The("lang"), The("tokens")}, {The("parser")} \cup run.parsed)
  /\ root' = run.ast

\* DELETE of the parser, the tokens and the source: the nodes have copies.
Release ==
  /\ At("release")
  /\ live' = live \ {The("parser"), The("tokens"), The("source")}
  /\ status' = IF {The("parser"), The("tokens"), The("source")} \subseteq live THEN status ELSE "fault"
  /\ pc' = "semanter"
  /\ UNCHANGED <<run, links, root, stack>>

\* Every phase between reading the file and generating may call exit(1).
Exit ==
  /\ \E call \in {"file", "lexer", "parser", "semanter", "generator"} : At(call)
  /\ status' = "exit"
  /\ UNCHANGED <<run, links, root, live, pc, stack>>

-----------------------------------------------------------------------------
(* parser_free_ast.                                                        *)

Top == Last(stack)
In(fn) == status = "running" /\ stack # <<>> /\ Top.fn = fn
Become(frame) == stack' = Append(Front(stack), frame)
Fault == status' = "fault" /\ UNCHANGED <<links, root, live, stack>>

SlipChildrenOfAll(node) == <<"l", "r", "next", "args", "body">>

Children(node) == Fields(links[node].type)

\* slot: the object and the field the pointer to the node is in; main's own is root.
FreeNode(owner, field, node) ==
  [fn |-> "node", owner |-> owner, field |-> field, node |-> node, left |-> Children(node)]

FreeAst ==
  /\ At("free_ast")
  /\ pc' = "free_lang"
  /\ stack' = <<FreeNode(The("main"), "root", root)>>
  /\ UNCHANGED <<run, links, root, live, status>>

FreeChild ==
  /\ In("node") /\ Top.left # <<>>
  /\ LET field == Head(Top.left)
         child == links[Top.node][field]
         rest == Append(Front(stack), [Top EXCEPT !.left = Tail(@)])
     IN IF Top.node \notin live \/ child \notin live \cup {None} THEN Fault
        ELSE /\ stack' = IF child = None THEN rest ELSE Append(rest, FreeNode(Top.node, field, child))
             /\ UNCHANGED <<links, root, live, status>>
  /\ UNCHANGED <<run, pc>>

\* The pointer to the freed node stays.
SlipFreeNodeKeepsPointer ==
  /\ In("node") /\ Top.left = <<>>
  /\ live' = live \ {Top.node}
  /\ stack' = Front(stack)
  /\ UNCHANGED <<run, links, root, pc, status>>

FreeNodeItself ==
  /\ In("node") /\ Top.left = <<>>
  /\ IF {Top.node, Top.owner} \subseteq live \cup {The("main")}
     THEN /\ live' = live \ {Top.node}
          /\ stack' = Front(stack)
          /\ IF Top.owner = The("main") THEN root' = None /\ UNCHANGED links
             ELSE links' = [links EXCEPT ![Top.owner][Top.field] = None] /\ UNCHANGED root
          /\ UNCHANGED status
     ELSE Fault
  /\ UNCHANGED <<run, pc>>

-----------------------------------------------------------------------------
(* lang_free and lang_free_scope.                                          *)

\* at: the next element of the list, read before the one in front of it was freed.
FreeList(at) == [fn |-> "list", at |-> at]
FreeScope(scope) == [fn |-> "scope", scope |-> scope, at |-> links[scope].childs]
FreeLanguage == [fn |-> "lang", types |-> TRUE]

SlipFreeLangTypesOnly ==
  /\ At("free_lang")
  /\ pc' = "return"
  /\ stack' = <<FreeList(run.types)>>
  /\ UNCHANGED <<run, links, root, live, status>>

FreeLang ==
  /\ At("free_lang")
  /\ pc' = "return"
  /\ stack' = <<FreeLanguage, FreeList(run.types)>>
  /\ UNCHANGED <<run, links, root, live, status>>

\* One iteration over the types, or over the symbols of a scope.
FreeElement ==
  /\ In("list") /\ Top.at # None
  /\ IF Top.at \in live
     THEN /\ live' = live \ {Top.at}
          /\ Become(FreeList(links[Top.at].next))
          /\ UNCHANGED <<links, root, status>>
     ELSE Fault
  /\ UNCHANGED <<run, pc>>

FreeListEnd ==
  /\ In("list") /\ Top.at = None
  /\ stack' = Front(stack)
  /\ UNCHANGED <<run, links, root, live, pc, status>>

\* lang goes with the types.
SlipFreeRootScopeLast ==
  /\ In("lang") /\ Top.types
  /\ stack' = <<[Top EXCEPT !.types = FALSE], FreeScope(run.scope),
                FreeList(links[run.scope].symbols)>>
  /\ live' = live \ {The("lang")}
  /\ UNCHANGED <<run, links, root, pc, status>>

\* The types are gone; the root of the scopes is next, and then lang itself.
FreeRootScope ==
  /\ In("lang") /\ Top.types
  /\ stack' = <<[Top EXCEPT !.types = FALSE], FreeScope(run.scope),
                FreeList(links[run.scope].symbols)>>
  /\ UNCHANGED <<run, links, root, live, pc, status>>

FreeChildScope ==
  /\ In("scope") /\ Top.at # None
  /\ IF {Top.scope, Top.at} \subseteq live
     THEN /\ stack' = Append(Front(stack), [Top EXCEPT !.at = links[Top.at].next])
                        \o <<FreeScope(Top.at), FreeList(links[Top.at].symbols)>>
          /\ UNCHANGED <<links, root, live, status>>
     ELSE Fault
  /\ UNCHANGED <<run, pc>>

FreeScopeItself ==
  /\ In("scope") /\ Top.at = None
  /\ IF Top.scope \in live
     THEN live' = live \ {Top.scope} /\ stack' = Front(stack) /\ UNCHANGED <<links, root, status>>
     ELSE Fault
  /\ UNCHANGED <<run, pc>>

FreeLangItself ==
  /\ In("lang") /\ ~Top.types
  /\ live' = live \ {The("lang")} /\ stack' = <<>>
  /\ UNCHANGED <<run, links, root, pc, status>>

Return ==
  /\ At("return")
  /\ status' = "done"
  /\ UNCHANGED <<run, links, root, live, pc, stack>>

-----------------------------------------------------------------------------

Over == status # "running" /\ UNCHANGED vars

Next ==
  \/ get_dgen_language \/ read_file \/ lexer_analyze \/ parser_analyze \/ Release
  \/ sem_validate_node \/ generator_generate \/ Exit
  \/ FreeAst \/ FreeChild \/ FreeNodeItself
  \/ FreeLang \/ FreeElement \/ FreeListEnd \/ FreeRootScope \/ FreeChildScope
  \/ FreeScopeItself \/ FreeLangItself \/ Return \/ Over

Spec == Init /\ [][Next]_vars

-----------------------------------------------------------------------------
(* What is expected of a run.                                              *)

Kind(objects, kind) == {o \in objects : o[1] = kind}

\* The types of the variables; a call of a free function still has the object it
\* takes apart.
TypeOK ==
  /\ live \subseteq DOMAIN links \cup {The("lang"), The("source"), The("tokens"), The("parser"), The("generator")}
  /\ root \in {None, run.ast}
  /\ status \in {"running", "done", "exit", "fault"}
  /\ \A i \in DOMAIN stack :
       /\ stack[i].fn \in {"node", "list", "scope", "lang"}
       /\ stack[i].fn = "node" => stack[i].node \in live
       /\ stack[i].fn = "scope" => stack[i].scope \in live
       /\ stack[i].fn = "lang" => The("lang") \in live

\* No call reads or frees what has been freed, follows bytes that are no pointer,
\* or writes NULL into an object that is gone.
UsesLive == status # "fault"

\* While the tree is taken apart every pointer in it, main's included, is NULL or
\* points to a node that is still there.
NoDangling ==
  pc \in {"free_ast", "free_lang", "return"} =>
    /\ root \in live \cup {None}
    /\ \A n \in Kind(live, "node") : \A i \in DOMAIN Children(n) :
         links[n][Children(n)[i]] \in live \cup {None}

\* At the end of a run the whole tree and the whole language are freed: all
\* scopes with their symbols and all types.  What is lost is the generator and
\* the fields of the structs.
OnlyFieldsAreLost ==
  status = "done" => live = {The("generator")} \cup Kind(DOMAIN links, "field") /\ root = None

=============================================================================
