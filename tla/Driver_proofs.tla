----------------------------- MODULE Driver_proofs -----------------------------
(***************************************************************************)
(* Theorems about the memory of a run, for whatever trees and lists the    *)
(* phases allocate.                                                        *)
(***************************************************************************)

EXTENDS Driver, SequenceLemmas, WellFoundedInduction

-----------------------------------------------------------------------------
(* The inductive invariant.  While main frees, each object that is still   *)
(* there is in one of three states: a call of a free function has it in    *)
(* hand (entered), a pointer main or a call will still follow leads to it  *)
(* (held), or it waits behind one of the held ones.                        *)

\* The object a call has in hand.
Taken(frame) ==
  IF frame.fn = "node" THEN {frame.node}
  ELSE IF frame.fn = "scope" THEN {frame.scope}
  ELSE {}

\* The objects a call has pointers to that it has yet to follow.
Holds(r, frame) ==
  (IF frame.fn = "node" THEN {r.links[frame.node][f] : f \in ToSet(frame.left)}
   ELSE IF frame.fn = "lang" THEN (IF frame.types THEN {r.scope} ELSE {})
   ELSE {frame.at}) \ {None}

EnteredIn(calls) == UNION {Taken(calls[i]) : i \in DOMAIN calls}
HeldIn(r, calls) == UNION {Holds(r, calls[i]) : i \in DOMAIN calls}

\* The objects the free functions have to get to and have not.
WaitingIn(r, there, calls) ==
  {o \in there \cap DOMAIN r.links : o[1] # "field"} \ EnteredIn(calls)

\* Every object that waits is held or has its one owner among those that wait,
\* and what such an owner points to waits and is not held.
Closed(objects, waiting, held) ==
  /\ held \subseteq waiting
  /\ \A s \in Slots(objects) : s[1] \in waiting =>
       Target(objects, s) \in (waiting \ held) \cup {None}
  /\ \A o \in waiting \ held : \E s \in Slots(objects) :
       s[1] \in waiting /\ Target(objects, s) = o

\* No two calls have the same object in hand or hold the same object.
Apart(r, calls) ==
  \A i, j \in DOMAIN calls : i # j =>
    /\ Taken(calls[i]) \cap Taken(calls[j]) = {}
    /\ Holds(r, calls[i]) \cap Holds(r, calls[j]) = {}

\* ofMain: what main itself has pointers to and is not freeing yet.
Owning(r, there, calls, ofMain) ==
  /\ Closed(r.links, WaitingIn(r, there, calls), HeldIn(r, calls) \cup ofMain)
  /\ HeldIn(r, calls) \cap ofMain = {}
  /\ EnteredIn(calls) \subseteq there
  /\ Apart(r, calls)

\* The calls, with the objects they may have in hand.
FieldNames == {"l", "r", "next", "args", "body"}
Of(r, kinds) == {o \in DOMAIN r.links : o[1] \in kinds}

NodeFrames(r) ==
  [fn : {"node"}, owner : Of(r, {"node"}) \cup {The("main")}, field : FieldNames \cup {"root"},
   node : Of(r, {"node"}), left : Seq(FieldNames)]

ListFrames(r) == [fn : {"list"}, at : Of(r, {"type", "symbol"}) \cup {None}]
ScopeFrames(r) ==
  [fn : {"scope"}, scope : Of(r, {"scope"}), at : Of(r, {"scope"}) \cup {None}]
LangFrames == [fn : {"lang"}, types : BOOLEAN]
FreeFrames(r) == LangFrames \cup ScopeFrames(r) \cup ListFrames(r)

\* A call of parser_free_ast for the node a field of the node of another one
\* leads to.
Behind(r, outer, inner) ==
  /\ inner.owner = outer.node
  /\ <<inner.owner, inner.field>> \in Slots(r.links)
  /\ inner.field \notin ToSet(outer.left)
  /\ r.links[inner.owner][inner.field] = inner.node

\* Calls of parser_free_ast, main's for the root outermost.
NodeCalls(r, calls) ==
  /\ calls \in Seq(NodeFrames(r))
  /\ \A i \in DOMAIN calls :
       /\ ToSet(calls[i].left) \subseteq ToSet(Fields(r.links[calls[i].node].type))
       /\ IsInjective(calls[i].left)
       /\ i = 1 => calls[i].owner = The("main") /\ calls[i].node = r.ast
       /\ i > 1 => Behind(r, calls[i - 1], calls[i])

\* The fields of a node in hand: those to come are as they were, the one a call
\* inside has its node from too, and those that are done are NULL.
InHand(r, objects, call, field) ==
  \A f \in ToSet(Fields(r.links[call.node].type)) :
    objects[call.node][f] =
      IF f \in ToSet(call.left) \/ f = field THEN r.links[call.node][f] ELSE None

FieldsOutside(r, objects, calls) ==
  \A i \in 1 .. Len(calls) - 1 : InHand(r, objects, calls[i], calls[i + 1].field)

FieldsOf(r, objects, calls) ==
  /\ FieldsOutside(r, objects, calls)
  /\ calls # <<>> => InHand(r, objects, Last(calls), "root")

\* Calls of lang_free and lang_free_scope: lang_free outside, then scopes, and
\* perhaps the loop over a list innermost.
LangCalls(r, calls) ==
  /\ calls \in Seq(FreeFrames(r))
  /\ \A i \in DOMAIN calls :
       /\ calls[i].fn = "lang" <=> i = 1
       /\ calls[i].fn = "list" => i = Len(calls)

\* What is there before each call of main.
Before(r, call) ==
  CASE call = "language" -> {}
    [] call = "file" -> {The("lang")} \cup r.language
    [] call = "lexer" -> {The("lang"), The("source")} \cup r.language
    [] call = "parser" -> {The("lang"), The("source"), The("tokens")} \cup r.language
    [] call = "release" -> {The("lang"), The("source"), The("tokens"), The("parser")}
                             \cup r.language \cup r.parsed
    [] call = "semanter" -> {The("lang")} \cup r.language \cup r.parsed
    [] call = "generator" -> {The("lang")} \cup DOMAIN r.links
    [] OTHER -> {The("lang"), The("generator")} \cup DOMAIN r.links

Calls == {"language", "file", "lexer", "parser", "release", "semanter", "generator", "free_ast"}

\* The tree is there from parser_analyze on, and nothing is freed yet.
Building ==
  /\ pc \in Calls
  /\ stack = <<>> /\ links = run.links
  /\ root = IF pc \in {"language", "file", "lexer", "parser"} THEN None ELSE run.ast
  /\ live = Before(run, pc)

\* What is left besides the objects of the free functions.
Rest ==
  /\ live \subseteq DOMAIN run.links \cup {The("lang"), The("generator")}
  /\ The("generator") \in live
  /\ Of(run, {"field"}) \subseteq live
  /\ The("lang") \in live <=> ~(pc = "return" /\ stack = <<>>)

\* Only nodes are written to, and only those in hand.
Links ==
  /\ DOMAIN links = DOMAIN run.links
  /\ \A o \in DOMAIN links :
       /\ o[1] # "node" \/ o \in WaitingIn(run, live, stack) => links[o] = run.links[o]
       /\ o[1] = "node" => DOMAIN links[o] = DOMAIN run.links[o] /\ links[o].type = run.links[o].type

FreeingAst ==
  /\ pc = "free_lang"
  /\ NodeCalls(run, stack) /\ FieldsOf(run, links, stack)
  /\ root = IF stack = <<>> THEN None ELSE run.ast
  /\ Owning(run, live, stack, {run.types, run.scope})
  /\ Rest /\ Links

FreeingLang ==
  /\ pc = "return"
  /\ LangCalls(run, stack)
  /\ root = None
  /\ Owning(run, live, stack, {})
  /\ Rest /\ Links

DriverInv ==
  /\ run \in Runs
  /\ status \in {"running", "done", "exit"}
  /\ status = "done" => pc = "return" /\ stack = <<>>
  /\ Building \/ FreeingAst \/ FreeingLang

-----------------------------------------------------------------------------
(* Runs, fields and slots.                                                 *)

\* The objects of a run have the kinds and numbers of the assumption, so none is
\* one of main's own or NULL.
LEMMA Kinds ==
  ASSUME NEW r \in Runs, NEW o \in DOMAIN r.links
  PROVE  /\ o[1] \in {"node", "type", "field", "scope", "symbol"} /\ o[2] \in Nat
         /\ o # None /\ o # The("main") /\ o # The("lang") /\ o # The("generator")
         /\ o # The("source") /\ o # The("tokens") /\ o # The("parser")
<1>1. o \in {"node", "type", "field", "scope", "symbol"} \X Nat
  BY RunsAssumption
<1> QED BY <1>1 DEF None, The

\* The heads of a run, by kind; none has a pointer to it.
LEMMA HeadFacts ==
  ASSUME NEW r \in Runs
  PROVE  /\ r.ast \in DOMAIN r.links /\ r.ast[1] = "node"
         /\ r.types \in DOMAIN r.links /\ r.types[1] = "type"
         /\ r.scope \in DOMAIN r.links /\ r.scope[1] = "scope"
         /\ r.links[r.scope].next = None
         /\ r.language \cup r.parsed \cup r.validated = DOMAIN r.links
         /\ Heads(r) = {r.ast, r.types, r.scope}
  BY RunsAssumption DEF Heads

\* What a pointer that is not NULL leads to.
LEMMA SlotFacts ==
  ASSUME NEW r \in Runs, NEW s \in Slots(r.links), Target(r.links, s) # None
  PROVE  /\ Target(r.links, s) \in DOMAIN r.links
         /\ Target(r.links, s) \notin Heads(r)
         /\ Target(r.links, s)[1] = IF s[2] = "symbols" THEN "symbol" ELSE s[1][1]
         /\ Target(r.links, s)[2] > s[1][2]
         /\ \A t \in Slots(r.links) : Target(r.links, t) = Target(r.links, s) => t = s
  BY RunsAssumption

\* A slot is an object and one of its pointers.
LEMMA SlotIs ==
  ASSUME NEW objects, NEW o \in DOMAIN objects, NEW f
  PROVE  /\ <<o, f>> \in Slots(objects) <=>
              /\ f \in {"l", "r", "next", "args", "body", "childs", "symbols"}
              /\ f \in Pointers(objects, o)
         /\ Target(objects, <<o, f>>) = objects[o][f]
  BY DEF Slots, Target

\* An element of Slots is a pair.
LEMMA SlotPair ==
  ASSUME NEW objects, NEW s \in Slots(objects)
  PROVE  s[1] \in DOMAIN objects /\ s = <<s[1], s[2]>> /\ s[2] \in Pointers(objects, s[1])
  BY DEF Slots

\* The fields of a node are different, and none of them is "root".
LEMMA FieldFacts ==
  ASSUME NEW type
  PROVE  /\ Fields(type) \in Seq(FieldNames)
         /\ IsInjective(Fields(type))
         /\ ToSet(Fields(type)) \subseteq FieldNames
<1>1. CASE type = "EXPRESSION"
  <2> DEFINE all == <<"l", "r", "next", "args", "body">>
  <2>1. all \in Seq(FieldNames)
    BY DEF FieldNames
  <2>2. ToSet(all) \subseteq FieldNames
    BY <2>1 DEF ToSet
  <2>3. IsInjective(all)
    BY DEF IsInjective
  <2> QED BY <1>1, <2>1, <2>2, <2>3 DEF Fields
<1>2. CASE type # "EXPRESSION"
  <2> DEFINE all == <<"next", "args", "body">>
  <2>1. all \in Seq(FieldNames)
    BY DEF FieldNames
  <2>2. ToSet(all) \subseteq FieldNames
    BY <2>1 DEF ToSet
  <2>3. IsInjective(all)
    BY DEF IsInjective
  <2> QED BY <1>2, <2>1, <2>2, <2>3 DEF Fields
<1> QED BY <1>1, <1>2

\* The pointers of a node, and of the other objects.
LEMMA NodeSlots ==
  ASSUME NEW objects, NEW o \in DOMAIN objects, o[1] = "node", NEW f
  PROVE  <<o, f>> \in Slots(objects) <=> f \in ToSet(Fields(objects[o].type))
<1>1. Pointers(objects, o) = ToSet(Fields(objects[o].type))
  BY DEF Pointers
<1>2. ToSet(Fields(objects[o].type)) \subseteq FieldNames
  BY FieldFacts
<1> QED BY <1>1, <1>2, SlotIs DEF FieldNames

\* A scope has three pointers, an element of a list one and a field none.
LEMMA OtherSlots ==
  ASSUME NEW objects, NEW o \in DOMAIN objects, NEW f
  PROVE  /\ o[1] = "scope" => (<<o, f>> \in Slots(objects) <=> f \in {"childs", "next", "symbols"})
         /\ o[1] \in {"type", "symbol"} => (<<o, f>> \in Slots(objects) <=> f = "next")
         /\ o[1] = "field" => <<o, f>> \notin Slots(objects)
  BY SlotIs DEF Pointers

-----------------------------------------------------------------------------
(* Calls.                                                                  *)

\* What a call added to the others has in hand and holds is added to theirs.
LEMMA PushEntered ==
  ASSUME NEW S, NEW calls \in Seq(S), NEW call \in S, NEW o
  PROVE  o \in EnteredIn(Append(calls, call)) <=> o \in EnteredIn(calls) \/ o \in Taken(call)
<1> DEFINE n == Len(calls)  after == Append(calls, call)
<1>1. /\ n \in Nat /\ DOMAIN calls = 1 .. n /\ DOMAIN after = 1 .. n + 1
      /\ \A i \in 1 .. n : after[i] = calls[i]
      /\ after[n + 1] = call
  OBVIOUS
<1> HIDE DEF n, after
<1>2. \A i \in 1 .. n + 1 : i \in 1 .. n \/ i = n + 1
  BY <1>1
<1>3. 1 .. n \subseteq 1 .. n + 1 /\ n + 1 \in 1 .. n + 1
  BY <1>1
<1>4. EnteredIn(after) = EnteredIn(calls) \cup Taken(call)
  BY <1>1, <1>2, <1>3 DEF EnteredIn
<1> QED BY <1>4 DEF after

\* A call that is pushed holds what it holds, and takes nothing from the others.
LEMMA PushHeld ==
  ASSUME NEW r, NEW S, NEW calls \in Seq(S), NEW call \in S, NEW o
  PROVE  o \in HeldIn(r, Append(calls, call)) <=> o \in HeldIn(r, calls) \/ o \in Holds(r, call)
<1> DEFINE n == Len(calls)  after == Append(calls, call)
<1>1. /\ n \in Nat /\ DOMAIN calls = 1 .. n /\ DOMAIN after = 1 .. n + 1
      /\ \A i \in 1 .. n : after[i] = calls[i]
      /\ after[n + 1] = call
  OBVIOUS
<1> HIDE DEF n, after
<1>2. \A i \in 1 .. n + 1 : i \in 1 .. n \/ i = n + 1
  BY <1>1
<1>3. 1 .. n \subseteq 1 .. n + 1 /\ n + 1 \in 1 .. n + 1
  BY <1>1
<1>4. HeldIn(r, after) = HeldIn(r, calls) \cup Holds(r, call)
  BY <1>1, <1>2, <1>3 DEF HeldIn
<1> QED BY <1>4 DEF after

\* Calls are apart if all but the innermost are, and the innermost has and holds
\* what they do not.
LEMMA PushApart ==
  ASSUME NEW r, NEW S, NEW calls \in Seq(S), NEW call \in S
  PROVE  Apart(r, Append(calls, call)) <=>
           /\ Apart(r, calls)
           /\ Taken(call) \cap EnteredIn(calls) = {}
           /\ Holds(r, call) \cap HeldIn(r, calls) = {}
<1> DEFINE n == Len(calls)  after == Append(calls, call)
<1>1. /\ n \in Nat /\ DOMAIN calls = 1 .. n /\ DOMAIN after = 1 .. n + 1
      /\ \A i \in 1 .. n : after[i] = calls[i]
      /\ after[n + 1] = call
  OBVIOUS
<1> HIDE DEF n, after
<1>2. \A i \in 1 .. n + 1 : i \in 1 .. n \/ i = n + 1
  BY <1>1
<1>3. 1 .. n \subseteq 1 .. n + 1 /\ n + 1 \in 1 .. n + 1 /\ n + 1 \notin 1 .. n
  BY <1>1
<1>4. ASSUME Apart(r, after)
      PROVE  /\ Apart(r, calls)
             /\ Taken(call) \cap EnteredIn(calls) = {}
             /\ Holds(r, call) \cap HeldIn(r, calls) = {}
  BY <1>1, <1>3, <1>4 DEF Apart, EnteredIn, HeldIn
<1>5. ASSUME Apart(r, calls),
             Taken(call) \cap EnteredIn(calls) = {},
             Holds(r, call) \cap HeldIn(r, calls) = {}
      PROVE  Apart(r, after)
  <2> SUFFICES ASSUME NEW i \in 1 .. n + 1, NEW j \in 1 .. n + 1, i # j
               PROVE  /\ Taken(after[i]) \cap Taken(after[j]) = {}
                      /\ Holds(r, after[i]) \cap Holds(r, after[j]) = {}
    BY <1>1 DEF Apart
  <2>1. \A k \in 1 .. n : Taken(calls[k]) \subseteq EnteredIn(calls) /\ Holds(r, calls[k]) \subseteq HeldIn(r, calls)
    BY <1>1 DEF EnteredIn, HeldIn
  <2>2. CASE i \in 1 .. n /\ j \in 1 .. n
    BY <2>2, <1>1, <1>5 DEF Apart
  <2>3. CASE i = n + 1 \/ j = n + 1
    BY <2>3, <2>1, <1>1, <1>2, <1>5
  <2> QED BY <2>2, <2>3, <1>2
<1> QED BY <1>4, <1>5 DEF after

-----------------------------------------------------------------------------
(* What waits.                                                             *)

\* The objects the pointers of an object lead to.
Reached(objects, o) ==
  {Target(objects, s) : s \in {t \in Slots(objects) : t[1] = o}} \ {None}

\* When a held object is taken in hand, what it points to is held in its place;
\* none of that was held before.
LEMMA Follow ==
  ASSUME NEW r \in Runs, NEW waiting, waiting \subseteq DOMAIN r.links, NEW held,
         Closed(r.links, waiting, held), NEW o \in held
  PROVE  /\ Closed(r.links, waiting \ {o}, (held \ {o}) \cup Reached(r.links, o))
         /\ Reached(r.links, o) \cap held = {}
         /\ Reached(r.links, o) \subseteq waiting \ {o}
<1>1. o \in waiting
  BY DEF Closed
<1>2. \A x \in Reached(r.links, o) :
        /\ x # None
        /\ \E s \in Slots(r.links) : s[1] = o /\ Target(r.links, s) = x
  BY DEF Reached
<1>3. \A x \in Reached(r.links, o) : x \in waiting \ held
  BY <1>1, <1>2 DEF Closed
<1>4. ASSUME NEW s \in Slots(r.links), s[1] \in waiting \ {o}, Target(r.links, s) # None
      PROVE  Target(r.links, s) \in (waiting \ {o}) \ ((held \ {o}) \cup Reached(r.links, o))
  <2>1. Target(r.links, s) \in waiting \ held
    BY <1>4 DEF Closed
  <2>2. \A t \in Slots(r.links) : Target(r.links, t) = Target(r.links, s) => t = s
    BY <1>4, SlotFacts
  <2>3. Target(r.links, s) \notin Reached(r.links, o)
    BY <1>2, <1>4, <2>2
  <2> QED BY <2>1, <2>3
<1>5. ASSUME NEW x \in (waiting \ {o}) \ ((held \ {o}) \cup Reached(r.links, o))
      PROVE  \E s \in Slots(r.links) : s[1] \in waiting \ {o} /\ Target(r.links, s) = x
  <2>1. x \in waiting \ held /\ x \in DOMAIN r.links
    BY <1>5
  <2>2. PICK s \in Slots(r.links) : s[1] \in waiting /\ Target(r.links, s) = x
    BY <2>1 DEF Closed
  <2>3. x # None
    BY <2>1, Kinds
  <2>4. s[1] # o
    BY <2>2, <2>3, <1>5 DEF Reached
  <2> QED BY <2>2, <2>4
<1>6. (held \ {o}) \cup Reached(r.links, o) \subseteq waiting \ {o}
  BY <1>3 DEF Closed
<1>7. Closed(r.links, waiting \ {o}, (held \ {o}) \cup Reached(r.links, o))
  BY <1>4, <1>5, <1>6 DEF Closed
<1> QED BY <1>3, <1>7

\* The numbers are well-founded.
LEMMA NumbersWellFounded == IsWellFoundedOn({p \in Nat \X Nat : p[1] < p[2]}, Nat)
  BY NatLessThanWellFounded DEF OpToRel

\* When nothing is held nothing waits: the owner of the waiting object with the
\* smallest number would have a smaller one.
LEMMA Finished ==
  ASSUME NEW r \in Runs, NEW waiting, waiting \subseteq DOMAIN r.links,
         Closed(r.links, waiting, {})
  PROVE  waiting = {}
<1> SUFFICES ASSUME NEW o \in waiting PROVE FALSE
  OBVIOUS
<1> DEFINE numbers == {n \in Nat : \E x \in waiting : x[2] = n}
<1>1. o[2] \in numbers
  BY Kinds
<1>2. \E n \in numbers : \A m \in numbers : ~(<<m, n>> \in {p \in Nat \X Nat : p[1] < p[2]})
  BY <1>1, NumbersWellFounded, WFMin
<1>3. PICK n \in numbers : \A m \in numbers : ~(<<m, n>> \in {p \in Nat \X Nat : p[1] < p[2]})
  BY <1>2
<1>4. PICK x \in waiting : x[2] = n
  BY <1>3
<1>5. PICK s \in Slots(r.links) : s[1] \in waiting /\ Target(r.links, s) = x
  BY <1>4 DEF Closed
<1>6. x # None
  BY <1>4, Kinds
<1>7. x[2] > s[1][2]
  BY <1>5, <1>6, SlotFacts
<1>8. s[1][2] \in numbers
  BY <1>5, Kinds
<1> QED BY <1>3, <1>4, <1>7, <1>8

\* At first everything waits, and the heads are held.
LEMMA AllWait ==
  ASSUME NEW r \in Runs
  PROVE  Closed(r.links, {o \in DOMAIN r.links : o[1] # "field"}, Heads(r))
<1> DEFINE waiting == {o \in DOMAIN r.links : o[1] # "field"}
<1>1. Heads(r) \subseteq waiting
  BY HeadFacts
<1>2. ASSUME NEW s \in Slots(r.links), Target(r.links, s) # None
      PROVE  Target(r.links, s) \in waiting \ Heads(r)
  <2>1. s[1] \in DOMAIN r.links /\ s = <<s[1], s[2]>>
    BY SlotPair
  <2>2. s[1][1] # "field"
    BY <2>1, OtherSlots
  <2> QED BY <1>2, <2>2, SlotFacts
<1>3. \A o \in waiting \ Heads(r) : \E s \in Slots(r.links) : Target(r.links, s) = o
  BY RunsAssumption
<1>4. \A s \in Slots(r.links) : s[1] \in waiting
  <2> SUFFICES ASSUME NEW s \in Slots(r.links) PROVE s[1] \in waiting
    OBVIOUS
  <2>1. s[1] \in DOMAIN r.links /\ s = <<s[1], s[2]>>
    BY SlotPair
  <2> QED BY <2>1, OtherSlots
<1> QED BY <1>1, <1>2, <1>3, <1>4 DEF Closed

-----------------------------------------------------------------------------
(* What a step does to the calls and the objects that wait.                *)

\* What is held waits and is an object of the run.
LEMMA HeldWait ==
  ASSUME NEW r \in Runs, NEW there, NEW calls, NEW ofMain,
         Owning(r, there, calls, ofMain)
  PROVE  /\ HeldIn(r, calls) \cup ofMain \subseteq WaitingIn(r, there, calls)
         /\ WaitingIn(r, there, calls) \subseteq DOMAIN r.links
         /\ WaitingIn(r, there, calls) \subseteq there
         /\ WaitingIn(r, there, calls) \cap EnteredIn(calls) = {}
  BY DEF Owning, Closed, WaitingIn

\* What a held object points to is not held.
LEMMA HeldReached ==
  ASSUME NEW r \in Runs, NEW there, NEW calls, NEW ofMain,
         Owning(r, there, calls, ofMain), NEW o \in HeldIn(r, calls)
  PROVE  /\ Reached(r.links, o) \cap HeldIn(r, calls) = {}
         /\ Reached(r.links, o) \subseteq WaitingIn(r, there, calls)
<1> DEFINE waiting == WaitingIn(r, there, calls)
           held == HeldIn(r, calls) \cup ofMain
<1>1. Closed(r.links, waiting, held) /\ waiting \subseteq DOMAIN r.links /\ o \in held
  BY HeldWait DEF Owning
<1>2. HeldIn(r, calls) \subseteq held
  OBVIOUS
<1> HIDE DEF waiting, held
<1>3. Reached(r.links, o) \cap held = {} /\ Reached(r.links, o) \subseteq waiting \ {o}
  BY <1>1, Follow
<1> QED BY <1>2, <1>3 DEF waiting

\* A held object is taken in hand or freed, and what it points to is held in its
\* place.
LEMMA Advance ==
  ASSUME NEW r \in Runs, NEW there, NEW calls, NEW ofMain,
         Owning(r, there, calls, ofMain), NEW o \in HeldIn(r, calls),
         NEW there2, NEW calls2,
         WaitingIn(r, there2, calls2) = WaitingIn(r, there, calls) \ {o},
         HeldIn(r, calls2) = (HeldIn(r, calls) \ {o}) \cup Reached(r.links, o),
         EnteredIn(calls2) \subseteq there2, Apart(r, calls2)
  PROVE  Owning(r, there2, calls2, ofMain)
<1> DEFINE waiting == WaitingIn(r, there, calls)
           held == HeldIn(r, calls) \cup ofMain
<1>1. Closed(r.links, waiting, held) /\ HeldIn(r, calls) \cap ofMain = {}
  BY DEF Owning
<1>2. waiting \subseteq DOMAIN r.links /\ o \in held
  BY HeldWait
<1> HIDE DEF waiting, held
<1>3. /\ Closed(r.links, waiting \ {o}, (held \ {o}) \cup Reached(r.links, o))
      /\ Reached(r.links, o) \cap held = {}
  <2>1. /\ waiting \subseteq DOMAIN r.links /\ o \in held
        /\ Closed(r.links, waiting, held)
    BY <1>1, <1>2
  <2> QED BY <2>1, Follow
<1>4. (held \ {o}) \cup Reached(r.links, o) = HeldIn(r, calls2) \cup ofMain
  BY <1>1 DEF held
<1>5. HeldIn(r, calls2) \cap ofMain = {}
  BY <1>1, <1>3 DEF held
<1>6. Closed(r.links, WaitingIn(r, there2, calls2), HeldIn(r, calls2) \cup ofMain)
  BY <1>3, <1>4 DEF waiting
<1> QED BY <1>5, <1>6 DEF Owning

\* The object the innermost call has in hand is freed, and the call returns.
LEMMA CallReturns ==
  ASSUME NEW r \in Runs, NEW there, NEW S, NEW calls \in Seq(S), NEW call \in S, NEW ofMain,
         Owning(r, there, Append(calls, call), ofMain), Holds(r, call) = {}
  PROVE  Owning(r, there \ Taken(call), calls, ofMain)
<1> DEFINE all == Append(calls, call)
<1>0. /\ EnteredIn(all) = EnteredIn(calls) \cup Taken(call)
      /\ HeldIn(r, all) = HeldIn(r, calls) \cup Holds(r, call)
  BY PushEntered, PushHeld
<1>1. /\ EnteredIn(all) = EnteredIn(calls) \cup Taken(call)
      /\ HeldIn(r, all) = HeldIn(r, calls)
  BY <1>0
<1>2. Apart(r, calls) /\ Taken(call) \cap EnteredIn(calls) = {}
  BY PushApart DEF Owning
<1> HIDE DEF all
<1>3. WaitingIn(r, there \ Taken(call), calls) = WaitingIn(r, there, all)
  BY <1>1, <1>2 DEF WaitingIn
<1>4. /\ Closed(r.links, WaitingIn(r, there, all), HeldIn(r, all) \cup ofMain)
      /\ HeldIn(r, all) \cap ofMain = {}
      /\ EnteredIn(all) \subseteq there
  BY DEF Owning, all
<1>5. EnteredIn(calls) \subseteq there \ Taken(call)
  BY <1>1, <1>2, <1>4
<1> QED BY <1>1, <1>2, <1>3, <1>4, <1>5 DEF Owning

\* The innermost call goes on, and has in hand and holds what it did.
LEMMA CallGoesOn ==
  ASSUME NEW r \in Runs, NEW there, NEW S, NEW calls \in Seq(S), NEW call \in S, NEW next \in S,
         NEW ofMain, Owning(r, there, Append(calls, call), ofMain),
         Taken(next) = Taken(call), Holds(r, next) = Holds(r, call)
  PROVE  Owning(r, there, Append(calls, next), ofMain)
<1> DEFINE all == Append(calls, call)  after == Append(calls, next)
<1>1. /\ EnteredIn(all) = EnteredIn(calls) \cup Taken(call)
      /\ HeldIn(r, all) = HeldIn(r, calls) \cup Holds(r, call)
  BY PushEntered, PushHeld
<1>2. /\ EnteredIn(after) = EnteredIn(calls) \cup Taken(next)
      /\ HeldIn(r, after) = HeldIn(r, calls) \cup Holds(r, next)
  BY PushEntered, PushHeld
<1>3. Apart(r, all) <=> /\ Apart(r, calls)
                        /\ Taken(call) \cap EnteredIn(calls) = {}
                        /\ Holds(r, call) \cap HeldIn(r, calls) = {}
  BY PushApart
<1>4. Apart(r, after) <=> /\ Apart(r, calls)
                          /\ Taken(next) \cap EnteredIn(calls) = {}
                          /\ Holds(r, next) \cap HeldIn(r, calls) = {}
  BY PushApart
<1>5. Owning(r, there, all, ofMain)
  OBVIOUS
<1> HIDE DEF all, after
<1>6. Owning(r, there, after, ofMain)
  BY <1>1, <1>2, <1>3, <1>4, <1>5 DEF Owning, WaitingIn
<1> QED BY <1>6 DEF after

\* The innermost call frees the object it holds, and holds what that points to.
LEMMA CallFrees ==
  ASSUME NEW r \in Runs, NEW there, NEW S, NEW calls \in Seq(S), NEW call \in S, NEW next \in S,
         NEW ofMain, Owning(r, there, Append(calls, call), ofMain), NEW o,
         Taken(call) = {}, Holds(r, call) = {o},
         Taken(next) = {}, Holds(r, next) = Reached(r.links, o)
  PROVE  Owning(r, there \ {o}, Append(calls, next), ofMain)
<1> DEFINE all == Append(calls, call)  after == Append(calls, next)
<1>a. /\ EnteredIn(all) = EnteredIn(calls) \cup Taken(call)
      /\ HeldIn(r, all) = HeldIn(r, calls) \cup Holds(r, call)
  BY PushEntered, PushHeld
<1>b. /\ EnteredIn(after) = EnteredIn(calls) \cup Taken(next)
      /\ HeldIn(r, after) = HeldIn(r, calls) \cup Holds(r, next)
  BY PushEntered, PushHeld
<1>1. /\ EnteredIn(all) = EnteredIn(calls) /\ EnteredIn(after) = EnteredIn(calls)
      /\ HeldIn(r, all) = HeldIn(r, calls) \cup {o}
      /\ HeldIn(r, after) = HeldIn(r, calls) \cup Reached(r.links, o)
  BY <1>a, <1>b
<1>2. Apart(r, calls) /\ {o} \cap HeldIn(r, calls) = {}
  BY PushApart DEF Owning
<1>3. Apart(r, after) <=> Apart(r, calls) /\ Reached(r.links, o) \cap HeldIn(r, calls) = {}
  BY PushApart
<1>4. Owning(r, there, all, ofMain)
  OBVIOUS
<1> HIDE DEF all, after
<1>5. /\ HeldIn(r, all) \cup ofMain \subseteq WaitingIn(r, there, all)
      /\ WaitingIn(r, there, all) \cap EnteredIn(all) = {}
      /\ WaitingIn(r, there, all) \subseteq DOMAIN r.links
  BY <1>4, HeldWait
<1>6. Reached(r.links, o) \cap HeldIn(r, all) = {}
  <2>1. o \in HeldIn(r, all)
    BY <1>1
  <2> QED BY <2>1, <1>4, HeldReached
<1>7. Apart(r, after)
  BY <1>1, <1>2, <1>3, <1>6
<1>8. WaitingIn(r, there \ {o}, after) = WaitingIn(r, there, all) \ {o}
  BY <1>1 DEF WaitingIn
<1>9. HeldIn(r, after) = (HeldIn(r, all) \ {o}) \cup Reached(r.links, o)
  BY <1>1, <1>2
<1>10. EnteredIn(after) \subseteq there \ {o}
  BY <1>1, <1>4, <1>5 DEF Owning
<1>11. o \in HeldIn(r, all)
  BY <1>1
<1>12. Owning(r, there \ {o}, after, ofMain)
  BY <1>4, <1>7, <1>8, <1>9, <1>10, <1>11, Advance
<1> QED BY <1>12 DEF after

\* The innermost call makes a call for an object it holds.
LEMMA CallCalls ==
  ASSUME NEW r \in Runs, NEW there, NEW S, NEW calls \in Seq(S), NEW call \in S, NEW next \in S,
         NEW ofMain, Owning(r, there, Append(calls, call), ofMain), NEW o \in Holds(r, call),
         NEW inner \in S,
         Taken(next) = Taken(call), Taken(inner) = {o},
         Holds(r, next) \cup Holds(r, inner) = (Holds(r, call) \ {o}) \cup Reached(r.links, o),
         Holds(r, next) \cap Holds(r, inner) = {}
  PROVE  Owning(r, there, Append(Append(calls, next), inner), ofMain)
<1> DEFINE all == Append(calls, call)  middle == Append(calls, next)  after == Append(middle, inner)
<1>0. middle \in Seq(S)
  OBVIOUS
<1>1. /\ EnteredIn(all) = EnteredIn(calls) \cup Taken(call)
      /\ HeldIn(r, all) = HeldIn(r, calls) \cup Holds(r, call)
  BY PushEntered, PushHeld
<1>2. /\ EnteredIn(middle) = EnteredIn(calls) \cup Taken(call)
      /\ HeldIn(r, middle) = HeldIn(r, calls) \cup Holds(r, next)
  BY PushEntered, PushHeld
<1>3. /\ EnteredIn(after) = EnteredIn(middle) \cup Taken(inner)
      /\ HeldIn(r, after) = HeldIn(r, middle) \cup Holds(r, inner)
  BY <1>0, PushEntered, PushHeld
<1>4. Apart(r, all) <=> /\ Apart(r, calls)
                        /\ Taken(call) \cap EnteredIn(calls) = {}
                        /\ Holds(r, call) \cap HeldIn(r, calls) = {}
  BY PushApart
<1>5. Apart(r, middle) <=> /\ Apart(r, calls)
                           /\ Taken(next) \cap EnteredIn(calls) = {}
                           /\ Holds(r, next) \cap HeldIn(r, calls) = {}
  BY PushApart
<1>6. Apart(r, after) <=> /\ Apart(r, middle)
                          /\ Taken(inner) \cap EnteredIn(middle) = {}
                          /\ Holds(r, inner) \cap HeldIn(r, middle) = {}
  BY <1>0, PushApart
<1>7. Owning(r, there, all, ofMain)
  OBVIOUS
<1> HIDE DEF all, middle, after
<1>8. Apart(r, all)
  BY <1>7 DEF Owning
<1>9. /\ HeldIn(r, all) \cup ofMain \subseteq WaitingIn(r, there, all)
      /\ WaitingIn(r, there, all) \cap EnteredIn(all) = {}
      /\ WaitingIn(r, there, all) \subseteq DOMAIN r.links
      /\ WaitingIn(r, there, all) \subseteq there
  BY <1>7, HeldWait
<1>10. o \in HeldIn(r, all)
  BY <1>1
<1>11. Reached(r.links, o) \cap HeldIn(r, all) = {}
  BY <1>7, <1>10, HeldReached
<1>12. Apart(r, middle)
  BY <1>1, <1>4, <1>5, <1>8, <1>11
<1>13. Apart(r, after)
  <2>1. o \notin EnteredIn(middle)
    BY <1>1, <1>2, <1>9, <1>10
  <2>2. Holds(r, inner) \cap HeldIn(r, calls) = {}
    BY <1>1, <1>4, <1>8, <1>11
  <2> QED BY <2>1, <2>2, <1>2, <1>6, <1>12
<1>14. WaitingIn(r, there, after) = WaitingIn(r, there, all) \ {o}
  BY <1>1, <1>2, <1>3 DEF WaitingIn
<1>15. HeldIn(r, after) = (HeldIn(r, all) \ {o}) \cup Reached(r.links, o)
  BY <1>1, <1>2, <1>3, <1>4, <1>8
<1>16. EnteredIn(after) \subseteq there
  BY <1>1, <1>2, <1>3, <1>7, <1>9, <1>10 DEF Owning
<1>17. Owning(r, there, after, ofMain)
  BY <1>7, <1>10, <1>13, <1>14, <1>15, <1>16, Advance
<1> QED BY <1>17 DEF after, middle

-----------------------------------------------------------------------------
(* What an object points to, by kind.                                      *)

\* A node reaches the nodes its fields point to, and never the root of the tree.
LEMMA NodePointers ==
  ASSUME NEW r \in Runs, NEW n \in Of(r, {"node"})
  PROVE  /\ Reached(r.links, n) = {r.links[n][f] : f \in ToSet(Fields(r.links[n].type))} \ {None}
         /\ \A f \in ToSet(Fields(r.links[n].type)) :
              /\ <<n, f>> \in Slots(r.links)
              /\ r.links[n][f] \in Of(r, {"node"}) \cup {None}
              /\ r.links[n][f] # r.ast
              /\ r.links[n][f] # None =>
                   \A s \in Slots(r.links) : Target(r.links, s) = r.links[n][f] => s = <<n, f>>
         /\ DOMAIN r.links[n] = {"type"} \cup FieldNames
<1>1. n \in DOMAIN r.links /\ n[1] = "node"
  BY DEF Of
<1>2. \A f : <<n, f>> \in Slots(r.links) <=> f \in ToSet(Fields(r.links[n].type))
  BY <1>1, NodeSlots
<1>3. \A f : Target(r.links, <<n, f>>) = r.links[n][f]
  BY DEF Target
<1>4. ASSUME NEW x
      PROVE  x \in Reached(r.links, n) <=>
               x # None /\ \E f \in ToSet(Fields(r.links[n].type)) : r.links[n][f] = x
  <2>1. ASSUME NEW s \in Slots(r.links), s[1] = n, Target(r.links, s) = x
        PROVE  \E f \in ToSet(Fields(r.links[n].type)) : r.links[n][f] = x
    <3>1. s = <<n, s[2]>>
      BY <2>1, SlotPair
    <3> QED BY <3>1, <2>1, <1>2, <1>3
  <2> QED BY <2>1, <1>2, <1>3 DEF Reached
<1>5. Reached(r.links, n) = {r.links[n][f] : f \in ToSet(Fields(r.links[n].type))} \ {None}
  BY <1>4
<1>6. ASSUME NEW f \in ToSet(Fields(r.links[n].type)), r.links[n][f] # None
      PROVE  /\ r.links[n][f] \in Of(r, {"node"})
             /\ r.links[n][f] # r.ast
             /\ \A s \in Slots(r.links) : Target(r.links, s) = r.links[n][f] => s = <<n, f>>
  <2>1. ToSet(Fields(r.links[n].type)) \subseteq FieldNames
    BY FieldFacts
  <2>2. f # "symbols"
    BY <2>1 DEF FieldNames
  <2>3. <<n, f>> \in Slots(r.links) /\ Target(r.links, <<n, f>>) # None
    BY <1>2, <1>3, <1>6
  <2>4. /\ Target(r.links, <<n, f>>) \in DOMAIN r.links
        /\ Target(r.links, <<n, f>>) \notin Heads(r)
        /\ Target(r.links, <<n, f>>)[1] = "node"
        /\ \A s \in Slots(r.links) : Target(r.links, s) = Target(r.links, <<n, f>>) => s = <<n, f>>
    BY <2>2, <2>3, <1>1, SlotFacts
  <2> QED BY <2>4, <1>3 DEF Of, Heads
<1>7. r.ast # None
  BY HeadFacts, Kinds
<1>8. DOMAIN r.links[n] = {"type"} \cup FieldNames
  BY <1>1, RunsAssumption DEF FieldNames
<1> QED BY <1>2, <1>5, <1>6, <1>7, <1>8

\* A type or a symbol reaches the next one of its list.
LEMMA ListPointers ==
  ASSUME NEW r \in Runs, NEW o \in Of(r, {"type", "symbol"})
  PROVE  /\ Reached(r.links, o) = {r.links[o].next} \ {None}
         /\ r.links[o].next \in Of(r, {"type", "symbol"}) \cup {None}
<1>1. o \in DOMAIN r.links /\ o[1] \in {"type", "symbol"}
  BY DEF Of
<1>2. \A f : <<o, f>> \in Slots(r.links) <=> f = "next"
  BY <1>1, OtherSlots
<1>3. Target(r.links, <<o, "next">>) = r.links[o].next
  BY DEF Target
<1>4. ASSUME NEW s \in Slots(r.links), s[1] = o
      PROVE  s = <<o, "next">>
  BY <1>2, <1>4, SlotPair
<1>5. Reached(r.links, o) = {r.links[o].next} \ {None}
  BY <1>2, <1>3, <1>4 DEF Reached
<1>6. ASSUME r.links[o].next # None
      PROVE  r.links[o].next \in Of(r, {"type", "symbol"})
  <2>1. <<o, "next">> \in Slots(r.links) /\ Target(r.links, <<o, "next">>) # None
    BY <1>2, <1>3, <1>6
  <2>2. /\ Target(r.links, <<o, "next">>) \in DOMAIN r.links
        /\ Target(r.links, <<o, "next">>)[1] = o[1]
    BY <2>1, SlotFacts
  <2> QED BY <2>2, <1>1, <1>3 DEF Of
<1> QED BY <1>5, <1>6

\* A scope reaches its first child, the scope after it and its first symbol, which differ.
LEMMA ScopePointers ==
  ASSUME NEW r \in Runs, NEW o \in Of(r, {"scope"})
  PROVE  /\ Reached(r.links, o) = {r.links[o].childs, r.links[o].next, r.links[o].symbols} \ {None}
         /\ r.links[o].childs \in Of(r, {"scope"}) \cup {None}
         /\ r.links[o].next \in Of(r, {"scope"}) \cup {None}
         /\ r.links[o].symbols \in Of(r, {"symbol"}) \cup {None}
         /\ r.links[o].childs # None => r.links[o].childs # r.links[o].next
         /\ r.links[o].symbols # None =>
              r.links[o].symbols # r.links[o].next /\ r.links[o].symbols # r.links[o].childs
<1>1. o \in DOMAIN r.links /\ o[1] = "scope"
  BY DEF Of
<1>2. \A f : <<o, f>> \in Slots(r.links) <=> f \in {"childs", "next", "symbols"}
  BY <1>1, OtherSlots
<1>3. \A f : Target(r.links, <<o, f>>) = r.links[o][f]
  BY DEF Target
<1>4. ASSUME NEW s \in Slots(r.links), s[1] = o
      PROVE  s = <<o, s[2]>> /\ s[2] \in {"childs", "next", "symbols"}
  BY <1>2, <1>4, SlotPair
<1>5. Reached(r.links, o) = {r.links[o].childs, r.links[o].next, r.links[o].symbols} \ {None}
  <2>1. Reached(r.links, o) \subseteq {r.links[o].childs, r.links[o].next, r.links[o].symbols} \ {None}
    <3> SUFFICES ASSUME NEW s \in Slots(r.links), s[1] = o, Target(r.links, s) # None
                 PROVE  Target(r.links, s) \in {r.links[o].childs, r.links[o].next, r.links[o].symbols}
      BY DEF Reached
    <3>1. s = <<o, s[2]>> /\ s[2] \in {"childs", "next", "symbols"}
      BY <1>4
    <3>2. Target(r.links, s) = r.links[o][s[2]]
      BY DEF Target
    <3> QED BY <3>1, <3>2
  <2>2. ASSUME NEW f \in {"childs", "next", "symbols"}, r.links[o][f] # None
        PROVE  r.links[o][f] \in Reached(r.links, o)
    <3>1. <<o, f>> \in Slots(r.links) /\ Target(r.links, <<o, f>>) = r.links[o][f]
      BY <1>2, <1>3
    <3>2. <<o, f>>[1] = o
      OBVIOUS
    <3> QED BY <3>1, <3>2, <2>2 DEF Reached
  <2> QED BY <2>1, <2>2
<1>6. ASSUME NEW f \in {"childs", "next", "symbols"}, r.links[o][f] # None
      PROVE  /\ r.links[o][f] \in DOMAIN r.links
             /\ r.links[o][f][1] = IF f = "symbols" THEN "symbol" ELSE "scope"
             /\ \A g \in {"childs", "next", "symbols"} : r.links[o][g] = r.links[o][f] => g = f
  <2>1. <<o, f>> \in Slots(r.links) /\ Target(r.links, <<o, f>>) # None
    BY <1>2, <1>3, <1>6
  <2>2. /\ Target(r.links, <<o, f>>) \in DOMAIN r.links
        /\ Target(r.links, <<o, f>>)[1] = IF f = "symbols" THEN "symbol" ELSE "scope"
        /\ \A s \in Slots(r.links) : Target(r.links, s) = Target(r.links, <<o, f>>) => s = <<o, f>>
    BY <2>1, <1>1, SlotFacts
  <2>3. ASSUME NEW g \in {"childs", "next", "symbols"}, r.links[o][g] = r.links[o][f]
        PROVE  g = f
    <3>1. <<o, g>> = <<o, f>>
      BY <2>2, <2>3, <1>2, <1>3
    <3> QED BY <3>1
  <2> QED BY <2>2, <2>3, <1>3
<1> QED BY <1>5, <1>6 DEF Of

-----------------------------------------------------------------------------
(* Calls of parser_free_ast.                                               *)

\* What is asked of a call besides where it is made.
NodeCall(r, call) ==
  /\ ToSet(call.left) \subseteq ToSet(Fields(r.links[call.node].type))
  /\ IsInjective(call.left)

\* A call of parser_free_ast is pushed by the call behind which it stands.
LEMMA PushNodeCall ==
  ASSUME NEW r, NEW calls \in Seq(NodeFrames(r)), NEW call \in NodeFrames(r)
  PROVE  NodeCalls(r, Append(calls, call)) <=>
           /\ NodeCalls(r, calls)
           /\ NodeCall(r, call)
           /\ calls = <<>> => call.owner = The("main") /\ call.node = r.ast
           /\ calls # <<>> => Behind(r, Last(calls), call)
<1> DEFINE n == Len(calls)  after == Append(calls, call)
<1>1. /\ n \in Nat /\ DOMAIN calls = 1 .. n /\ DOMAIN after = 1 .. n + 1
      /\ \A i \in 1 .. n : after[i] = calls[i]
      /\ after[n + 1] = call
      /\ after \in Seq(NodeFrames(r))
      /\ calls = <<>> <=> n = 0
  OBVIOUS
<1>2. n # 0 => Last(calls) = calls[n]
  BY <1>1 DEF Last
<1> HIDE DEF n, after
<1>3. \A i \in 1 .. n + 1 : i \in 1 .. n \/ i = n + 1
  BY <1>1
<1>4. /\ 1 .. n \subseteq 1 .. n + 1 /\ n + 1 \in 1 .. n + 1 /\ n + 1 - 1 = n
      /\ n # 0 => n \in 1 .. n /\ n + 1 > 1 /\ n + 1 # 1
      /\ n = 0 => n + 1 = 1 /\ ~(n + 1 > 1)
  BY <1>1
<1>5. \A i \in 1 .. n : i > 1 => i - 1 \in 1 .. n /\ after[i - 1] = calls[i - 1] /\ after[i] = calls[i]
  BY <1>1
<1>6. ASSUME NodeCalls(r, after)
      PROVE  /\ NodeCalls(r, calls)
             /\ NodeCall(r, call)
             /\ n = 0 => call.owner = The("main") /\ call.node = r.ast
             /\ n # 0 => Behind(r, Last(calls), call)
  <2>1. NodeCalls(r, calls)
    BY <1>1, <1>4, <1>5, <1>6 DEF NodeCalls
  <2>2. NodeCall(r, call)
    BY <1>1, <1>4, <1>6 DEF NodeCalls, NodeCall
  <2>3. n = 0 => call.owner = The("main") /\ call.node = r.ast
    BY <1>1, <1>4, <1>6 DEF NodeCalls
  <2>4. ASSUME n # 0 PROVE Behind(r, Last(calls), call)
    <3>1. Behind(r, after[n + 1 - 1], after[n + 1])
      BY <2>4, <1>1, <1>4, <1>6 DEF NodeCalls
    <3>2. after[n] = Last(calls)
      BY <2>4, <1>1, <1>2, <1>4
    <3> QED BY <3>1, <3>2, <1>1, <1>4
  <2> QED BY <2>1, <2>2, <2>3, <2>4
<1>7. ASSUME NodeCalls(r, calls), NodeCall(r, call),
             n = 0 => call.owner = The("main") /\ call.node = r.ast,
             n # 0 => Behind(r, Last(calls), call)
      PROVE  NodeCalls(r, after)
  <2>1. ASSUME NEW i \in 1 .. n + 1
        PROVE  NodeCall(r, after[i])
    BY <1>1, <1>3, <1>7 DEF NodeCalls, NodeCall
  <2>2. after[1].owner = The("main") /\ after[1].node = r.ast
    <3>1. CASE n = 0
      BY <3>1, <1>1, <1>4, <1>7
    <3>2. CASE n # 0
      <4>1. 1 \in 1 .. n
        BY <3>2, <1>1
      <4> QED BY <4>1, <1>1, <1>7 DEF NodeCalls
    <3> QED BY <3>1, <3>2
  <2>3. ASSUME NEW i \in 1 .. n + 1, i > 1
        PROVE  Behind(r, after[i - 1], after[i])
    <3>1. CASE i \in 1 .. n
      <4>1. Behind(r, calls[i - 1], calls[i])
        BY <3>1, <2>3, <1>1, <1>7 DEF NodeCalls
      <4> QED BY <4>1, <3>1, <2>3, <1>5
    <3>2. CASE i = n + 1
      <4>1. n # 0 /\ i - 1 = n /\ after[n] = calls[n]
        BY <3>2, <2>3, <1>1
      <4> QED BY <4>1, <3>2, <1>1, <1>2, <1>7
    <3> QED BY <3>1, <3>2, <1>3
  <2> QED BY <2>1, <2>2, <2>3, <1>1 DEF NodeCalls, NodeCall
<1> QED BY <1>1, <1>6, <1>7 DEF after

\* The fields of the nodes of calls, when there is one call more.
LEMMA PushFields ==
  ASSUME NEW r, NEW objects, NEW calls \in Seq(NodeFrames(r)), NEW call \in NodeFrames(r)
  PROVE  /\ FieldsOf(r, objects, Append(calls, call)) <=>
              FieldsOutside(r, objects, Append(calls, call)) /\ InHand(r, objects, call, "root")
         /\ FieldsOutside(r, objects, Append(calls, call)) <=>
              /\ FieldsOutside(r, objects, calls)
              /\ calls # <<>> => InHand(r, objects, Last(calls), call.field)
<1> DEFINE n == Len(calls)  after == Append(calls, call)
<1>1. /\ n \in Nat
      /\ \A i \in 1 .. n : after[i] = calls[i]
      /\ after[n + 1] = call /\ Len(after) = n + 1 /\ after # <<>>
      /\ calls = <<>> <=> n = 0
  OBVIOUS
<1>2. /\ n # 0 => Last(calls) = calls[n]
      /\ Last(after) = call
  BY <1>1 DEF Last
<1> HIDE DEF n, after
<1>3. FieldsOf(r, objects, after) <=>
        FieldsOutside(r, objects, after) /\ InHand(r, objects, call, "root")
  BY <1>1, <1>2 DEF FieldsOf
<1>4. \A i \in 1 .. n - 1 : i \in 1 .. n /\ i + 1 \in 1 .. n
  BY <1>1
<1>5. \A i \in 1 .. n : i \in 1 .. n - 1 \/ (i = n /\ n # 0)
  BY <1>1
<1>6. n # 0 => n \in 1 .. n
  BY <1>1
<1>7. FieldsOutside(r, objects, after) <=>
        \A i \in 1 .. n : InHand(r, objects, after[i], after[i + 1].field)
  <2>1. Len(after) - 1 = n
    BY <1>1
  <2> QED BY <2>1 DEF FieldsOutside
<1>8. FieldsOutside(r, objects, calls) <=>
        \A i \in 1 .. n - 1 : InHand(r, objects, calls[i], calls[i + 1].field)
  BY DEF FieldsOutside, n
<1>9. \A i \in 1 .. n - 1 : /\ after[i] = calls[i] /\ after[i + 1] = calls[i + 1]
                            /\ i \in 1 .. n
  BY <1>1, <1>4
<1>10. n # 0 => after[n] = Last(calls) /\ after[n + 1] = call
  BY <1>1, <1>2, <1>6
<1>11. FieldsOutside(r, objects, after) <=>
         /\ FieldsOutside(r, objects, calls)
         /\ n # 0 => InHand(r, objects, Last(calls), call.field)
  BY <1>5, <1>6, <1>7, <1>8, <1>9, <1>10
<1> QED BY <1>1, <1>3, <1>11 DEF after

\* No calls.
LEMMA NoCalls ==
  ASSUME NEW r, NEW objects
  PROVE  /\ EnteredIn(<<>>) = {} /\ HeldIn(r, <<>>) = {}
         /\ Apart(r, <<>>) /\ NodeCalls(r, <<>>) /\ FieldsOf(r, objects, <<>>)
<1>1. DOMAIN <<>> = {} /\ <<>> \in Seq(NodeFrames(r)) /\ 1 .. Len(<<>>) - 1 = {}
  OBVIOUS
<1> QED BY <1>1 DEF EnteredIn, HeldIn, Apart, NodeCalls, FieldsOf, FieldsOutside

\* A call of parser_free_ast that begins has all fields of its node to follow.
LEMMA NewNodeCall ==
  ASSUME NEW r \in Runs, NEW n \in Of(r, {"node"}),
         NEW owner \in Of(r, {"node"}) \cup {The("main")}, NEW field \in FieldNames \cup {"root"},
         NEW call, call = [fn |-> "node", owner |-> owner, field |-> field, node |-> n,
                           left |-> Fields(r.links[n].type)]
  PROVE  /\ call \in NodeFrames(r) /\ NodeCall(r, call)
         /\ Taken(call) = {n} /\ Holds(r, call) = Reached(r.links, n)
         /\ \A objects : objects[n] = r.links[n] => InHand(r, objects, call, "root")
<1> DEFINE fields == Fields(r.links[n].type)
<1>1. fields \in Seq(FieldNames) /\ IsInjective(fields)
  BY FieldFacts
<1>2. Reached(r.links, n) = {r.links[n][f] : f \in ToSet(fields)} \ {None}
  BY NodePointers
<1> HIDE DEF fields
<1>3. call = [fn |-> "node", owner |-> owner, field |-> field, node |-> n, left |-> fields]
  BY DEF fields
<1>4. call \in NodeFrames(r)
  BY <1>1, <1>3 DEF NodeFrames
<1>5. /\ call.fn = "node" /\ call.node = n /\ call.left = fields
      /\ Fields(r.links[call.node].type) = fields
  BY <1>3 DEF fields
<1>6. NodeCall(r, call)
  BY <1>1, <1>5 DEF NodeCall
<1>7. Taken(call) = {n} /\ Holds(r, call) = Reached(r.links, n)
  BY <1>2, <1>5 DEF Taken, Holds
<1>8. \A objects : objects[n] = r.links[n] => InHand(r, objects, call, "root")
  BY <1>5 DEF InHand
<1> QED BY <1>4, <1>6, <1>7, <1>8

-----------------------------------------------------------------------------
(* The steps of main up to the first free.                                 *)

\* While the phases run nothing has been freed.
LEMMA AtBuilding ==
  ASSUME DriverInv, pc \in Calls
  PROVE  Building
<1>1. "free_lang" \notin Calls /\ "return" \notin Calls
  BY DEF Calls
<1> QED BY <1>1 DEF DriverInv, FreeingAst, FreeingLang

\* A run begins with nothing allocated.
LEMMA InitBuilds == Init => DriverInv
<1> SUFFICES ASSUME Init PROVE DriverInv
  OBVIOUS
<1>1. /\ run \in Runs /\ links = run.links /\ root = None /\ live = {}
      /\ pc = "language" /\ stack = <<>> /\ status = "running"
  BY DEF Init
<1>2. Building
  BY <1>1 DEF Building, Before, Calls
<1> QED BY <1>1, <1>2 DEF DriverInv

\* Each phase finds what it uses, and leaves what the next one does.
LEMMA PhaseKeeps ==
  ASSUME DriverInv, NEW call \in Calls, NEW next \in Calls, NEW uses, NEW allocates,
         Phase(call, next, uses, allocates),
         uses \subseteq Before(run, call),
         Before(run, next) = Before(run, call) \cup allocates,
         root' = IF next \in {"language", "file", "lexer", "parser"} THEN None ELSE run.ast
  PROVE  DriverInv'
<1>1. /\ pc = call /\ stack = <<>> /\ status = "running" /\ pc' = next
      /\ live' = live \cup allocates
      /\ status' = IF uses \subseteq live THEN status ELSE "fault"
      /\ run' = run /\ links' = links /\ stack' = stack
  BY DEF Phase, At
<1>2. Building
  BY <1>1, AtBuilding
<1>3. links = run.links /\ live = Before(run, call)
  BY <1>1, <1>2 DEF Building
<1>4. status' = "running"
  BY <1>1, <1>3
<1>5. live' = Before(run, next)
  BY <1>1, <1>3
<1> HIDE DEF Before
<1>6. Building'
  BY <1>1, <1>3, <1>5 DEF Building
<1> QED BY <1>1, <1>4, <1>6 DEF DriverInv

\* What the run allocates comes in three parts.
LEMMA Parts ==
  ASSUME DriverInv
  PROVE  run.language \cup run.parsed \cup run.validated = DOMAIN run.links
  BY HeadFacts DEF DriverInv

\* The language is allocated, before anything uses it.
LEMMA GetLanguageKeeps == DriverInv /\ get_dgen_language => DriverInv'
<1> SUFFICES ASSUME DriverInv, get_dgen_language PROVE DriverInv'
  OBVIOUS
<1>1. Phase("language", "file", {}, {The("lang")} \cup run.language) /\ root' = root
  BY DEF get_dgen_language
<1>2. "language" \in Calls /\ "file" \in Calls
  BY DEF Calls
<1>3. root = None
  <2>1. pc = "language"
    BY <1>1 DEF Phase, At
  <2> QED BY <2>1, <1>2, AtBuilding DEF Building
<1>4. Before(run, "file") = Before(run, "language") \cup ({The("lang")} \cup run.language)
  BY DEF Before
<1> QED BY <1>1, <1>2, <1>3, <1>4, PhaseKeeps

\* The source is allocated.
LEMMA ReadFileKeeps == DriverInv /\ read_file => DriverInv'
<1> SUFFICES ASSUME DriverInv, read_file PROVE DriverInv'
  OBVIOUS
<1>1. Phase("file", "lexer", {}, {The("source")}) /\ root' = root
  BY DEF read_file
<1>2. "file" \in Calls /\ "lexer" \in Calls
  BY DEF Calls
<1>3. root = None
  <2>1. pc = "file"
    BY <1>1 DEF Phase, At
  <2> QED BY <2>1, <1>2, AtBuilding DEF Building
<1>4. Before(run, "lexer") = Before(run, "file") \cup {The("source")}
  BY DEF Before
<1> QED BY <1>1, <1>2, <1>3, <1>4, PhaseKeeps

\* The lexer uses the language and the source.
LEMMA LexerKeeps == DriverInv /\ lexer_analyze => DriverInv'
<1> SUFFICES ASSUME DriverInv, lexer_analyze PROVE DriverInv'
  OBVIOUS
<1>1. /\ Phase("lexer", "parser", {The("lang"), The("source")}, {The("tokens")})
      /\ root' = root
  BY DEF lexer_analyze
<1>2. "lexer" \in Calls /\ "parser" \in Calls
  BY DEF Calls
<1>3. root = None
  <2>1. pc = "lexer"
    BY <1>1 DEF Phase, At
  <2> QED BY <2>1, <1>2, AtBuilding DEF Building
<1>4. /\ Before(run, "parser") = Before(run, "lexer") \cup {The("tokens")}
      /\ {The("lang"), The("source")} \subseteq Before(run, "lexer")
  BY DEF Before
<1> QED BY <1>1, <1>2, <1>3, <1>4, PhaseKeeps

\* The parser uses the language and the tokens.
LEMMA ParserKeeps == DriverInv /\ parser_analyze => DriverInv'
<1> SUFFICES ASSUME DriverInv, parser_analyze PROVE DriverInv'
  OBVIOUS
<1>1. /\ Phase("parser", "release", {The("lang"), The("tokens")}, {The("parser")} \cup run.parsed)
      /\ root' = run.ast
  BY DEF parser_analyze
<1>2. "parser" \in Calls /\ "release" \in Calls
  BY DEF Calls
<1>3. /\ Before(run, "release") = Before(run, "parser") \cup ({The("parser")} \cup run.parsed)
      /\ {The("lang"), The("tokens")} \subseteq Before(run, "parser")
  BY DEF Before
<1> QED BY <1>1, <1>2, <1>3, PhaseKeeps

\* The validator uses the tree and the language, and adds scopes and symbols to it.
LEMMA ValidateKeeps == DriverInv /\ sem_validate_node => DriverInv'
<1> SUFFICES ASSUME DriverInv, sem_validate_node PROVE DriverInv'
  OBVIOUS
<1>1. /\ Phase("semanter", "generator", {The("lang")} \cup run.parsed, run.validated)
      /\ root' = root
  BY DEF sem_validate_node
<1>2. "semanter" \in Calls /\ "generator" \in Calls
  BY DEF Calls
<1>3. root = run.ast
  <2>1. pc = "semanter"
    BY <1>1 DEF Phase, At
  <2> QED BY <2>1, <1>2, AtBuilding DEF Building
<1>4. /\ Before(run, "semanter") = {The("lang")} \cup run.language \cup run.parsed
      /\ Before(run, "generator") = {The("lang")} \cup DOMAIN run.links
  BY DEF Before
<1>5. /\ Before(run, "generator") = Before(run, "semanter") \cup run.validated
      /\ {The("lang")} \cup run.parsed \subseteq Before(run, "semanter")
  BY <1>4, Parts
<1> QED BY <1>1, <1>2, <1>3, <1>5, PhaseKeeps

\* The generator uses the tree, and allocates nothing that is kept.
LEMMA GenerateKeeps == DriverInv /\ generator_generate => DriverInv'
<1> SUFFICES ASSUME DriverInv, generator_generate PROVE DriverInv'
  OBVIOUS
<1>1. /\ Phase("generator", "free_ast", run.parsed, {The("generator")})
      /\ root' = root
  BY DEF generator_generate
<1>2. "generator" \in Calls /\ "free_ast" \in Calls
  BY DEF Calls
<1>3. root = run.ast
  <2>1. pc = "generator"
    BY <1>1 DEF Phase, At
  <2> QED BY <2>1, <1>2, AtBuilding DEF Building
<1>4. /\ Before(run, "generator") = {The("lang")} \cup DOMAIN run.links
      /\ Before(run, "free_ast") = {The("lang"), The("generator")} \cup DOMAIN run.links
  BY DEF Before
<1>5. /\ Before(run, "free_ast") = Before(run, "generator") \cup {The("generator")}
      /\ run.parsed \subseteq Before(run, "generator")
  BY <1>4, Parts
<1> QED BY <1>1, <1>2, <1>3, <1>5, PhaseKeeps

\* The parser, the tokens and the source are none of the objects that stay.
LEMMA ReleaseKeeps == DriverInv /\ Release => DriverInv'
<1> SUFFICES ASSUME DriverInv, Release PROVE DriverInv'
  OBVIOUS
<1>1. /\ pc = "release" /\ stack = <<>> /\ status = "running" /\ pc' = "semanter"
      /\ live' = live \ {The("parser"), The("tokens"), The("source")}
      /\ status' = IF {The("parser"), The("tokens"), The("source")} \subseteq live
                   THEN status ELSE "fault"
      /\ run' = run /\ links' = links /\ root' = root /\ stack' = stack
  BY DEF Release, At
<1>2. Building
  BY <1>1, AtBuilding DEF Calls
<1>3. /\ links = run.links /\ root = run.ast
      /\ live = {The("lang"), The("source"), The("tokens"), The("parser")}
                  \cup run.language \cup run.parsed
  BY <1>1, <1>2 DEF Building, Before
<1>4. \A o \in run.language \cup run.parsed :
        o # The("parser") /\ o # The("tokens") /\ o # The("source")
  <2> SUFFICES ASSUME NEW o \in run.language \cup run.parsed
               PROVE  o # The("parser") /\ o # The("tokens") /\ o # The("source")
    OBVIOUS
  <2>1. o \in DOMAIN run.links /\ run \in Runs
    BY Parts DEF DriverInv
  <2> QED BY <2>1, Kinds
<1>5. The("lang") # The("parser") /\ The("lang") # The("tokens") /\ The("lang") # The("source")
  BY DEF The
<1>6. live' = {The("lang")} \cup run.language \cup run.parsed /\ status' = "running"
  BY <1>1, <1>3, <1>4, <1>5
<1>7. "semanter" \in Calls
  BY DEF Calls
<1>8. Building'
  BY <1>1, <1>3, <1>6, <1>7 DEF Building, Before
<1> QED BY <1>1, <1>6, <1>8 DEF DriverInv

\* A run may end in the middle, with everything as it is.
LEMMA StatusKeeps ==
  ASSUME DriverInv, UNCHANGED <<run, links, root, live, pc, stack>>,
         status' \in {"running", "done", "exit"},
         status' = "done" => pc = "return" /\ stack = <<>>
  PROVE  DriverInv'
<1>1. CASE Building
  <2>1. Building'
    BY <1>1 DEF Building
  <2> QED BY <2>1 DEF DriverInv
<1>2. CASE FreeingAst
  <2>1. FreeingAst'
    BY <1>2 DEF FreeingAst, Rest, Links
  <2> QED BY <2>1 DEF DriverInv
<1>3. CASE FreeingLang
  <2>1. FreeingLang'
    BY <1>3 DEF FreeingLang, Rest, Links
  <2> QED BY <2>1 DEF DriverInv
<1> QED BY <1>1, <1>2, <1>3 DEF DriverInv

\* main takes its root in hand: everything that is left is held or waits.
LEMMA FreeAstKeeps == DriverInv /\ FreeAst => DriverInv'
<1> SUFFICES ASSUME DriverInv, FreeAst PROVE DriverInv'
  OBVIOUS
<1>1. /\ pc = "free_ast" /\ status = "running" /\ pc' = "free_lang"
      /\ stack' = <<FreeNode(The("main"), "root", root)>>
      /\ run' = run /\ links' = links /\ root' = root /\ live' = live /\ status' = status
  BY DEF FreeAst, At
<1>2. run \in Runs
  BY DEF DriverInv
<1>3. Building
  BY <1>1, AtBuilding DEF Calls
<1>4. /\ links = run.links /\ root = run.ast
      /\ live = {The("lang"), The("generator")} \cup DOMAIN run.links
  BY <1>1, <1>3 DEF Building, Before
<1>5. /\ run.ast \in Of(run, {"node"}) /\ run.ast \in DOMAIN run.links
      /\ run.types \in DOMAIN run.links /\ run.scope \in DOMAIN run.links
      /\ run.ast # run.types /\ run.ast # run.scope
      /\ Heads(run) = {run.ast, run.types, run.scope}
  BY <1>2, HeadFacts DEF Of
<1>6. PICK call : call = FreeNode(The("main"), "root", root)
  OBVIOUS
<1>7. call = [fn |-> "node", owner |-> The("main"), field |-> "root", node |-> run.ast,
              left |-> Fields(run.links[run.ast].type)]
  BY <1>4, <1>6 DEF FreeNode, Children
<1>8. /\ call \in NodeFrames(run) /\ NodeCall(run, call)
      /\ Taken(call) = {run.ast} /\ Holds(run, call) = Reached(run.links, run.ast)
      /\ InHand(run, links, call, "root")
  <2>1. The("main") \in Of(run, {"node"}) \cup {The("main")} /\ "root" \in FieldNames \cup {"root"}
    OBVIOUS
  <2>2. /\ call \in NodeFrames(run) /\ NodeCall(run, call)
        /\ Taken(call) = {run.ast} /\ Holds(run, call) = Reached(run.links, run.ast)
        /\ \A objects : objects[run.ast] = run.links[run.ast] => InHand(run, objects, call, "root")
    BY <1>2, <1>5, <1>7, <2>1, NewNodeCall
  <2> QED BY <1>4, <2>2
<1>a. PICK none : none = <<>>
  OBVIOUS
<1>b. stack' = <<call>>
  BY <1>1, <1>6
<1>9. stack' = Append(none, call) /\ stack' # <<>> /\ none \in Seq(NodeFrames(run))
  BY <1>a, <1>b
<1>c. /\ EnteredIn(none) = {} /\ HeldIn(run, none) = {} /\ Apart(run, none)
      /\ NodeCalls(run, none) /\ FieldsOutside(run, links, none)
  BY <1>a, NoCalls DEF FieldsOf
<1>10. call.owner = The("main") /\ call.node = run.ast
  BY <1>7
<1>11. NodeCalls(run, stack')
  BY <1>8, <1>9, <1>10, <1>a, <1>c, PushNodeCall
<1>12. FieldsOf(run, links, stack')
  BY <1>8, <1>9, <1>a, <1>c, PushFields
<1>13. Owning(run, live, stack', {run.types, run.scope})
  <2> DEFINE all == {o \in DOMAIN run.links : o[1] # "field"}
  <2>1. Closed(run.links, all, Heads(run)) /\ all \subseteq DOMAIN run.links /\ run.ast \in Heads(run)
    BY <1>2, <1>5, AllWait
  <2> HIDE DEF all
  <2>2. /\ Closed(run.links, all \ {run.ast}, (Heads(run) \ {run.ast}) \cup Reached(run.links, run.ast))
        /\ Reached(run.links, run.ast) \cap Heads(run) = {}
    BY <1>2, <2>1, Follow
  <2>3. EnteredIn(stack') = {run.ast} /\ HeldIn(run, stack') = Reached(run.links, run.ast)
    <3>1. EnteredIn(Append(none, call)) = {run.ast}
      BY <1>8, <1>9, <1>c, PushEntered
    <3>2. call \in NodeFrames(run) /\ none \in Seq(NodeFrames(run))
      BY <1>8, <1>9
    <3>3. HeldIn(run, Append(none, call)) = HeldIn(run, none) \cup Holds(run, call)
      BY <3>2, PushHeld
    <3> QED BY <1>8, <1>9, <1>c, <3>1, <3>3
  <2>4. Apart(run, stack')
    BY <1>8, <1>9, <1>c, PushApart
  <2>5. WaitingIn(run, live, stack') = all \ {run.ast}
    BY <1>4, <2>3 DEF WaitingIn, all
  <2>6. (Heads(run) \ {run.ast}) \cup Reached(run.links, run.ast)
          = HeldIn(run, stack') \cup {run.types, run.scope}
    BY <1>5, <2>3
  <2>7. HeldIn(run, stack') \cap {run.types, run.scope} = {}
    BY <1>5, <2>2, <2>3
  <2>8. EnteredIn(stack') \subseteq live
    BY <1>4, <1>5, <2>3
  <2> QED BY <2>2, <2>4, <2>5, <2>6, <2>7, <2>8 DEF Owning
<1>14. Rest'
  BY <1>1, <1>4 DEF Rest, Of
<1>15. Links'
  BY <1>1, <1>4 DEF Links
<1>16. FreeingAst'
  BY <1>1, <1>4, <1>9, <1>11, <1>12, <1>13, <1>14, <1>15 DEF FreeingAst
<1> QED BY <1>1, <1>2, <1>16 DEF DriverInv

-----------------------------------------------------------------------------
(* The steps of parser_free_ast.                                           *)

\* A stack that is not empty has a top.
LEMMA TopOf ==
  ASSUME NEW S, NEW calls \in Seq(S), calls # <<>>
  PROVE  /\ Front(calls) \in Seq(S) /\ Last(calls) \in S
         /\ calls = Append(Front(calls), Last(calls))
<1>1. /\ Front(calls) \in Seq(S) /\ Last(calls) \in S
      /\ Len(calls) \in Nat \ {0} /\ Len(Front(calls)) = Len(calls) - 1
      /\ Last(calls) = calls[Len(calls)]
      /\ \A i \in 1 .. Len(calls) - 1 : Front(calls)[i] = calls[i]
  BY FrontLast
<1> DEFINE again == Append(Front(calls), Last(calls))
<1>2. PICK front : front = Front(calls)
  OBVIOUS
<1>3. PICK last : last = Last(calls)
  OBVIOUS
<1>4. again = Append(front, last)
  BY <1>2, <1>3
<1>5. /\ again \in Seq(S) /\ Len(again) = Len(calls)
      /\ \A i \in 1 .. Len(calls) : again[i] = calls[i]
  <2>1. front \in Seq(S) /\ last \in S /\ Len(front) = Len(calls) - 1 /\ Len(calls) \in Nat \ {0}
    BY <1>1, <1>2, <1>3
  <2>2. /\ Append(front, last) \in Seq(S) /\ Len(Append(front, last)) = Len(calls)
        /\ \A i \in 1 .. Len(calls) - 1 : Append(front, last)[i] = front[i]
        /\ Append(front, last)[Len(calls)] = last
    BY <2>1
  <2>3. \A i \in 1 .. Len(calls) : i \in 1 .. Len(calls) - 1 \/ i = Len(calls)
    BY <2>1
  <2> QED BY <2>2, <2>3, <1>1, <1>2, <1>3, <1>4
<1>6. again = calls
  BY <1>5, SeqEqual
<1> QED BY <1>1, <1>6

\* The first element of a sequence without repetitions, and the others.
LEMMA HeadTail ==
  ASSUME NEW S, NEW s \in Seq(S), s # <<>>, IsInjective(s)
  PROVE  /\ Head(s) \in ToSet(s) /\ Head(s) \notin ToSet(Tail(s))
         /\ ToSet(s) = {Head(s)} \cup ToSet(Tail(s))
         /\ Tail(s) \in Seq(S) /\ IsInjective(Tail(s))
<1> DEFINE n == Len(s)  tail == Tail(s)
<1>1. /\ n \in Nat /\ n # 0 /\ DOMAIN s = 1 .. n
      /\ tail \in Seq(S) /\ DOMAIN tail = 1 .. n - 1
      /\ \A i \in 1 .. n - 1 : tail[i] = s[i + 1]
      /\ Head(s) = s[1]
  BY EmptySeq
<1>2. \A i, j \in 1 .. n : s[i] = s[j] => i = j
  BY <1>1 DEF IsInjective
<1> HIDE DEF n, tail
<1>3. \A i \in 1 .. n - 1 : i + 1 \in 1 .. n /\ i + 1 # 1
  BY <1>1
<1>4. \A i \in 1 .. n : i = 1 \/ (i - 1 \in 1 .. n - 1 /\ (i - 1) + 1 = i)
  BY <1>1
<1>5. 1 \in 1 .. n
  BY <1>1
<1>6. \A i \in 1 .. n - 1 : tail[i] # s[1]
  BY <1>1, <1>2, <1>3, <1>5
<1>7. \A i \in 1 .. n : i = 1 \/ \E j \in 1 .. n - 1 : tail[j] = s[i]
  BY <1>1, <1>4
<1>8. IsInjective(tail)
  <2> SUFFICES ASSUME NEW i \in 1 .. n - 1, NEW j \in 1 .. n - 1, tail[i] = tail[j]
               PROVE  i = j
    BY <1>1 DEF IsInjective
  <2>1. i + 1 = j + 1
    BY <1>1, <1>2, <1>3
  <2> QED BY <2>1
<1>9. ToSet(s) = {s[1]} \cup ToSet(tail)
  <2>1. \A x : x \in ToSet(s) <=> \E i \in 1 .. n : s[i] = x
    BY <1>1 DEF ToSet
  <2>2. \A x : x \in ToSet(tail) <=> \E i \in 1 .. n - 1 : tail[i] = x
    BY <1>1 DEF ToSet
  <2>3. \A i \in 1 .. n - 1 : \E j \in 1 .. n : s[j] = tail[i]
    BY <1>1, <1>3
  <2> QED BY <2>1, <2>2, <2>3, <1>5, <1>7
<1>10. s[1] \notin ToSet(tail)
  BY <1>1, <1>6 DEF ToSet
<1> QED BY <1>1, <1>8, <1>9, <1>10 DEF tail

\* The call goes on to the next field.
GoneOn(call) == [call EXCEPT !.left = Tail(@)]

\* A call that has followed a pointer holds what it did but what that led to.
LEMMA NextField ==
  ASSUME NEW r \in Runs, NEW call \in NodeFrames(r), NodeCall(r, call), call.left # <<>>,
         NEW next, next = GoneOn(call)
  PROVE  /\ next \in NodeFrames(r) /\ NodeCall(r, next)
         /\ next.owner = call.owner /\ next.node = call.node /\ next.field = call.field
         /\ call.node \in Of(r, {"node"}) /\ call.fn = "node" /\ next.fn = "node"
         /\ Head(call.left) \in ToSet(Fields(r.links[call.node].type))
         /\ Head(call.left) \in ToSet(call.left) /\ Head(call.left) \notin ToSet(next.left)
         /\ Head(call.left) \in FieldNames
         /\ ToSet(call.left) = {Head(call.left)} \cup ToSet(next.left)
         /\ Taken(next) = Taken(call) /\ Taken(call) = {call.node}
         /\ Holds(r, next) = Holds(r, call) \ {r.links[call.node][Head(call.left)]}
         /\ r.links[call.node][Head(call.left)] \in Holds(r, call) \cup {None}
<1>1. /\ call.left \in Seq(FieldNames) /\ call.fn = "node" /\ call.node \in Of(r, {"node"})
      /\ call.owner \in Of(r, {"node"}) \cup {The("main")} /\ call.field \in FieldNames \cup {"root"}
  BY DEF NodeFrames
<1>2. /\ ToSet(call.left) \subseteq ToSet(Fields(r.links[call.node].type))
      /\ IsInjective(call.left)
  BY DEF NodeCall
<1> DEFINE rest == Tail(call.left)  head == Head(call.left)
<1>3. /\ head \in ToSet(call.left) /\ head \notin ToSet(rest)
      /\ ToSet(call.left) = {head} \cup ToSet(rest)
      /\ rest \in Seq(FieldNames) /\ IsInjective(rest)
  BY <1>1, <1>2, HeadTail
<1>4. next = [fn |-> "node", owner |-> call.owner, field |-> call.field, node |-> call.node,
              left |-> rest]
  <2>1. call = [fn |-> "node", owner |-> call.owner, field |-> call.field, node |-> call.node,
                left |-> call.left]
    BY DEF NodeFrames
  <2>2. next = [call EXCEPT !.left = Tail(call.left)]
    BY DEF GoneOn
  <2>3. PICK other : other = Tail(call.left)
    OBVIOUS
  <2>4. next = [call EXCEPT !.left = other]
    BY <2>2, <2>3
  <2>5. next = [fn |-> "node", owner |-> call.owner, field |-> call.field, node |-> call.node,
                left |-> other]
    BY <2>1, <2>4
  <2> QED BY <2>3, <2>5
<1>5. head \in FieldNames
  BY <1>2, <1>3, FieldFacts
<1> HIDE DEF rest, head
<1>6. /\ next.fn = "node" /\ next.owner = call.owner /\ next.field = call.field
      /\ next.node = call.node /\ next.left = rest
  BY <1>4
<1>7. next \in NodeFrames(r)
  <2>1. PICK owner \in Of(r, {"node"}) \cup {The("main")} : owner = call.owner
    BY <1>1
  <2>2. PICK field \in FieldNames \cup {"root"} : field = call.field
    BY <1>1
  <2>3. PICK n \in Of(r, {"node"}) : n = call.node
    BY <1>1
  <2>4. [fn |-> "node", owner |-> owner, field |-> field, node |-> n, left |-> rest] \in NodeFrames(r)
    BY <1>3 DEF NodeFrames
  <2> QED BY <2>1, <2>2, <2>3, <2>4, <1>4
<1>8. NodeCall(r, next)
  BY <1>2, <1>3, <1>6 DEF NodeCall
<1>9. Taken(next) = Taken(call) /\ Taken(call) = {call.node}
  BY <1>1, <1>6 DEF Taken
<1>10. /\ Holds(r, call) = {r.links[call.node][f] : f \in ToSet(call.left)} \ {None}
       /\ Holds(r, next) = {r.links[call.node][f] : f \in ToSet(rest)} \ {None}
  BY <1>1, <1>6 DEF Holds
<1>a. r.links[call.node][head] # None =>
        \A s \in Slots(r.links) : Target(r.links, s) = r.links[call.node][head] => s = <<call.node, head>>
  <2>1. PICK n : n = call.node
    OBVIOUS
  <2>2. n \in Of(r, {"node"}) /\ head \in ToSet(Fields(r.links[n].type))
    BY <2>1, <1>1, <1>2, <1>3
  <2>3. r.links[n][head] # None =>
          \A s \in Slots(r.links) : Target(r.links, s) = r.links[n][head] => s = <<n, head>>
    BY <2>2, NodePointers
  <2> QED BY <2>1, <2>3
<1>11. \A f \in ToSet(rest) :
         r.links[call.node][f] # None => r.links[call.node][f] # r.links[call.node][head]
  <2> SUFFICES ASSUME NEW f \in ToSet(rest), r.links[call.node][f] # None,
                      r.links[call.node][f] = r.links[call.node][head]
               PROVE  FALSE
    OBVIOUS
  <2>1. f \in ToSet(Fields(r.links[call.node].type)) /\ head \in ToSet(Fields(r.links[call.node].type))
    BY <1>2, <1>3
  <2>2. <<call.node, f>> \in Slots(r.links)
    BY <1>1, <2>1, NodePointers
  <2>3. Target(r.links, <<call.node, f>>) = r.links[call.node][f]
    BY DEF Target
  <2>4. <<call.node, f>> = <<call.node, head>>
    BY <2>2, <2>3, <1>a
  <2> QED BY <2>4, <1>3
<1>12. Holds(r, next) = Holds(r, call) \ {r.links[call.node][head]}
  BY <1>3, <1>10, <1>11
<1>13. r.links[call.node][head] \in Holds(r, call) \cup {None}
  BY <1>3, <1>10
<1> QED BY <1>1, <1>2, <1>3, <1>5, <1>6, <1>7, <1>8, <1>9, <1>12, <1>13 DEF head

\* In a call of parser_free_ast the tree is being freed.
LEMMA InNode ==
  ASSUME DriverInv, In("node")
  PROVE  /\ FreeingAst /\ run \in Runs /\ status = "running" /\ Top.fn = "node"
         /\ Front(stack) \in Seq(NodeFrames(run)) /\ Top \in NodeFrames(run)
         /\ stack = Append(Front(stack), Top)
<1>1. stack # <<>> /\ Top.fn = "node" /\ status = "running" /\ run \in Runs
  BY DEF In, DriverInv
<1>2. ~Building
  BY <1>1 DEF Building
<1>3. ~FreeingLang
  <2> SUFFICES ASSUME FreeingLang PROVE FALSE
    OBVIOUS
  <2>1. stack \in Seq(FreeFrames(run))
    BY DEF FreeingLang, LangCalls
  <2>2. Top \in FreeFrames(run)
    BY <1>1, <2>1, FrontLast DEF Top
  <2> QED BY <1>1, <2>2 DEF FreeFrames, LangFrames, ScopeFrames, ListFrames
<1>4. FreeingAst
  BY <1>2, <1>3 DEF DriverInv
<1>5. stack \in Seq(NodeFrames(run))
  BY <1>4 DEF FreeingAst, NodeCalls
<1> QED BY <1>1, <1>4, <1>5, TopOf DEF Top

\* A pointer of the node in hand is followed, which leads to a held node.
LEMMA FreeChildKeeps == DriverInv /\ FreeChild => DriverInv'
<1> SUFFICES ASSUME DriverInv, FreeChild PROVE DriverInv'
  OBVIOUS
<1>1. In("node") /\ Top.left # <<>> /\ run' = run /\ pc' = pc
  BY DEF FreeChild
<1>2. PICK calls : calls = Front(stack)
  OBVIOUS
<1>3. PICK call : call = Top
  OBVIOUS
<1>b. stack # <<>>
  BY <1>1 DEF In
<1>4. /\ FreeingAst /\ run \in Runs /\ status = "running" /\ call.fn = "node" /\ call.left # <<>>
      /\ calls \in Seq(NodeFrames(run)) /\ call \in NodeFrames(run)
      /\ stack = Append(calls, call)
  BY <1>1, <1>2, <1>3, InNode
<1> DEFINE field == Head(call.left)
           child == links[call.node][field]
<1>5. PICK next : next = GoneOn(call)
  OBVIOUS
<1>6. /\ pc = "free_lang" /\ NodeCalls(run, stack) /\ FieldsOf(run, links, stack)
      /\ Owning(run, live, stack, {run.types, run.scope})
      /\ root = run.ast /\ Rest /\ Links
  BY <1>4, <1>b DEF FreeingAst
<1>7. /\ NodeCalls(run, calls) /\ NodeCall(run, call)
      /\ calls = <<>> => call.owner = The("main") /\ call.node = run.ast
      /\ calls # <<>> => Behind(run, Last(calls), call)
  BY <1>4, <1>6, PushNodeCall
<1>8. /\ FieldsOutside(run, links, calls)
      /\ calls # <<>> => InHand(run, links, Last(calls), call.field)
      /\ InHand(run, links, call, "root")
  BY <1>4, <1>6, PushFields
<1> HIDE DEF field, child
<1>c. field = Head(call.left)
  BY DEF field
<1>d. run \in Runs /\ call \in NodeFrames(run) /\ NodeCall(run, call) /\ call.left # <<>>
  BY <1>4, <1>7
<1>9. /\ next \in NodeFrames(run) /\ NodeCall(run, next)
      /\ next.owner = call.owner /\ next.node = call.node /\ next.field = call.field
      /\ call.node \in Of(run, {"node"})
      /\ field \in ToSet(Fields(run.links[call.node].type))
      /\ field \in ToSet(call.left) /\ field \notin ToSet(next.left) /\ field \in FieldNames
      /\ ToSet(call.left) = {field} \cup ToSet(next.left)
      /\ Taken(next) = Taken(call) /\ Taken(call) = {call.node}
      /\ Holds(run, next) = Holds(run, call) \ {run.links[call.node][field]}
      /\ run.links[call.node][field] \in Holds(run, call) \cup {None}
  BY <1>5, <1>c, <1>d, NextField
<1>10. child = run.links[call.node][field]
  BY <1>8, <1>9 DEF InHand, child
<1>11. /\ HeldIn(run, stack) \subseteq WaitingIn(run, live, stack)
       /\ WaitingIn(run, live, stack) \subseteq live
  <2> DEFINE ofMain == {run.types, run.scope}
  <2>1. run \in Runs /\ Owning(run, live, stack, ofMain)
    BY <1>4, <1>6
  <2> HIDE DEF ofMain
  <2>2. /\ HeldIn(run, stack) \cup ofMain \subseteq WaitingIn(run, live, stack)
        /\ WaitingIn(run, live, stack) \subseteq live
    BY <2>1, HeldWait
  <2> QED BY <2>2
<1>12. HeldIn(run, stack) = HeldIn(run, calls) \cup Holds(run, call)
  BY <1>4, PushHeld
<1>13. EnteredIn(stack) = EnteredIn(calls) \cup {call.node}
  BY <1>4, <1>9, PushEntered
<1>14. call.node \in live
  BY <1>6, <1>13 DEF Owning
<1>15. child \in WaitingIn(run, live, stack) \cup {None} /\ child \in live \cup {None}
  BY <1>9, <1>10, <1>11, <1>12
<1>16. /\ stack' = IF child = None THEN Append(calls, next)
                   ELSE Append(Append(calls, next), FreeNode(call.node, field, child))
       /\ links' = links /\ root' = root /\ live' = live /\ status' = status
  <2>1. /\ call.node \in live /\ child \in live \cup {None}
        /\ child = links[Top.node][Head(Top.left)] /\ field = Head(Top.left)
    BY <1>3, <1>14, <1>15 DEF child, field
  <2> QED BY <2>1, <1>2, <1>3, <1>5 DEF FreeChild, GoneOn
<1>17. NodeCalls(run, Append(calls, next))
  <2>1. calls # <<>> => Behind(run, Last(calls), next)
    BY <1>7, <1>9 DEF Behind
  <2> QED BY <2>1, <1>4, <1>7, <1>9, PushNodeCall
<1>18. FieldsOutside(run, links, Append(calls, next))
  BY <1>4, <1>8, <1>9, PushFields
<1>19. CASE child = None
  <2>1. stack' = Append(calls, next)
    BY <1>16, <1>19
  <2>2. InHand(run, links, next, "root")
    BY <1>8, <1>9, <1>10, <1>19 DEF InHand
  <2>3. FieldsOf(run, links, stack')
    BY <2>1, <2>2, <1>4, <1>9, <1>18, PushFields
  <2>4. Holds(run, next) = Holds(run, call)
    BY <1>9, <1>10, <1>19 DEF Holds
  <2>5. Owning(run, live, Append(calls, next), {run.types, run.scope})
    BY <2>4, <1>4, <1>6, <1>9, CallGoesOn
  <2>6. EnteredIn(Append(calls, next)) = EnteredIn(stack)
    BY <1>4, <1>9, <1>13, PushEntered
  <2>7. stack' # <<>>
    BY <2>1, <1>4, <1>9
  <2>8. Links'
    BY <2>1, <2>6, <1>1, <1>6, <1>16 DEF Links, WaitingIn
  <2>9. Rest'
    BY <1>1, <1>6, <1>16 DEF Rest
  <2>10. FreeingAst'
    BY <2>1, <2>3, <2>5, <2>7, <2>8, <2>9, <1>1, <1>6, <1>16, <1>17 DEF FreeingAst
  <2> QED BY <2>10, <1>1, <1>4, <1>16 DEF DriverInv
<1>20. CASE child # None
  <2>1. child \in WaitingIn(run, live, stack) /\ child \in Holds(run, call)
    BY <1>9, <1>10, <1>15, <1>20
  <2>2. child \in Of(run, {"node"}) /\ <<call.node, field>> \in Slots(run.links)
    BY <1>4, <1>9, <1>10, <1>20, NodePointers
  <2>3. links[child] = run.links[child]
    BY <2>1, <1>6 DEF Links, WaitingIn
  <2>4. PICK inner : inner = FreeNode(call.node, field, child)
    OBVIOUS
  <2>5. inner = [fn |-> "node", owner |-> call.node, field |-> field, node |-> child,
                 left |-> Fields(run.links[child].type)]
    BY <2>3, <2>4 DEF FreeNode, Children
  <2>6. call.node \in Of(run, {"node"}) \cup {The("main")} /\ field \in FieldNames \cup {"root"}
    BY <1>9
  <2>7. /\ inner \in NodeFrames(run) /\ NodeCall(run, inner)
        /\ Taken(inner) = {child} /\ Holds(run, inner) = Reached(run.links, child)
        /\ \A objects : objects[child] = run.links[child] => InHand(run, objects, inner, "root")
    <3>1. PICK n : n = call.node
      OBVIOUS
    <3>2. /\ n \in Of(run, {"node"}) \cup {The("main")} /\ field \in FieldNames \cup {"root"}
          /\ inner = [fn |-> "node", owner |-> n, field |-> field, node |-> child,
                      left |-> Fields(run.links[child].type)]
      BY <3>1, <2>5, <2>6
    <3> QED BY <3>2, <2>2, <1>4, NewNodeCall
  <2>8. inner.owner = call.node /\ inner.field = field /\ inner.node = child
    BY <2>5
  <2>9. PICK outer : outer = Append(calls, next)
    OBVIOUS
  <2>10. /\ outer \in Seq(NodeFrames(run)) /\ outer # <<>> /\ Last(outer) = next
         /\ stack' = Append(outer, inner) /\ stack' # <<>>
    <3>1. outer \in Seq(NodeFrames(run)) /\ outer # <<>>
      BY <2>9, <1>4, <1>9
    <3>2. Len(outer) = Len(calls) + 1 /\ outer[Len(calls) + 1] = next
      BY <2>9, <1>4
    <3>3. stack' = Append(outer, inner)
      BY <2>4, <2>9, <1>16, <1>20
    <3> QED BY <3>1, <3>2, <3>3, <2>7 DEF Last
  <2>11. Behind(run, next, inner)
    BY <2>2, <2>8, <1>9, <1>10 DEF Behind
  <2>12. NodeCalls(run, stack')
    <3>1. NodeCalls(run, outer) /\ Behind(run, Last(outer), inner)
      BY <2>9, <2>10, <2>11, <1>17
    <3>2. outer \in Seq(NodeFrames(run)) /\ inner \in NodeFrames(run) /\ NodeCall(run, inner)
      BY <2>7, <2>10
    <3> QED BY <3>1, <3>2, <2>10, PushNodeCall
  <2>13. InHand(run, links, next, inner.field)
    <3>1. ToSet(Fields(run.links[call.node].type)) \subseteq FieldNames
      BY FieldFacts
    <3>2. \A f \in ToSet(Fields(run.links[call.node].type)) : f # "root"
      BY <3>1 DEF FieldNames
    <3> QED BY <3>2, <2>8, <1>8, <1>9 DEF InHand
  <2>14. FieldsOf(run, links, stack')
    <3>1. /\ FieldsOf(run, links, Append(outer, inner)) <=>
                FieldsOutside(run, links, Append(outer, inner)) /\ InHand(run, links, inner, "root")
          /\ FieldsOutside(run, links, Append(outer, inner)) <=>
                /\ FieldsOutside(run, links, outer)
                /\ outer # <<>> => InHand(run, links, Last(outer), inner.field)
      BY <2>7, <2>10, PushFields
    <3>2. FieldsOutside(run, links, outer)
      BY <2>9, <1>18
    <3>3. InHand(run, links, Last(outer), inner.field) /\ InHand(run, links, inner, "root")
      BY <2>3, <2>7, <2>10, <2>13
    <3> QED BY <3>1, <3>2, <3>3, <2>10
  <2>15. Owning(run, live, stack', {run.types, run.scope})
    <3>1. Reached(run.links, child) \cap HeldIn(run, stack) = {}
      BY <2>1, <1>4, <1>6, <1>12, HeldReached
    <3>2. /\ Holds(run, next) \cup Holds(run, inner) = (Holds(run, call) \ {child}) \cup Reached(run.links, child)
          /\ Holds(run, next) \cap Holds(run, inner) = {}
      BY <3>1, <2>7, <1>9, <1>10, <1>12
    <3>3. Owning(run, live, Append(Append(calls, next), inner), {run.types, run.scope})
      BY <3>2, <2>1, <2>7, <1>4, <1>6, <1>9, CallCalls
    <3> QED BY <3>3, <2>9, <2>10
  <2>16. WaitingIn(run, live, stack') \subseteq WaitingIn(run, live, stack)
    <3>1. EnteredIn(outer) = EnteredIn(stack)
      BY <2>9, <1>4, <1>9, <1>13, PushEntered
    <3>2. EnteredIn(stack) \subseteq EnteredIn(Append(outer, inner))
      BY <3>1, <2>7, <2>10, PushEntered
    <3> QED BY <3>2, <2>10 DEF WaitingIn
  <2>17. Links'
    BY <2>16, <1>1, <1>6, <1>16 DEF Links
  <2>18. Rest'
    BY <1>1, <1>6, <1>16 DEF Rest
  <2>19. FreeingAst'
    BY <2>10, <2>12, <2>14, <2>15, <2>17, <2>18, <1>1, <1>6, <1>16 DEF FreeingAst
  <2> QED BY <2>19, <1>1, <1>4, <1>16 DEF DriverInv
<1> QED BY <1>19, <1>20

\* A call of parser_free_ast has one node in hand, and in the end no pointers to
\* follow.
LEMMA FrameHas ==
  ASSUME NEW r \in Runs, NEW call \in NodeFrames(r)
  PROVE  /\ Taken(call) = {call.node} /\ call.node \in Of(r, {"node"}) /\ call.fn = "node"
         /\ call.left = <<>> => Holds(r, call) = {}
<1>1. call.fn = "node" /\ call.node \in Of(r, {"node"})
  BY DEF NodeFrames
<1>2. call.left = <<>> => ToSet(call.left) = {}
  <2>1. DOMAIN <<>> = {}
    OBVIOUS
  <2> QED BY <2>1 DEF ToSet
<1> QED BY <1>1, <1>2 DEF Taken, Holds

\* The node in hand is freed, and the pointer to it becomes NULL.
LEMMA FreeNodeItselfKeeps == DriverInv /\ FreeNodeItself => DriverInv'
<1> SUFFICES ASSUME DriverInv, FreeNodeItself PROVE DriverInv'
  OBVIOUS
<1>1. In("node") /\ Top.left = <<>> /\ run' = run /\ pc' = pc
  BY DEF FreeNodeItself
<1>2. PICK calls : calls = Front(stack)
  OBVIOUS
<1>3. PICK call : call = Top
  OBVIOUS
<1>a. stack # <<>>
  BY <1>1 DEF In
<1>4. /\ FreeingAst /\ run \in Runs /\ status = "running" /\ call.fn = "node" /\ call.left = <<>>
      /\ calls \in Seq(NodeFrames(run)) /\ call \in NodeFrames(run)
      /\ stack = Append(calls, call)
  BY <1>1, <1>2, <1>3, InNode
<1>5. /\ pc = "free_lang" /\ NodeCalls(run, stack) /\ FieldsOf(run, links, stack)
      /\ Owning(run, live, stack, {run.types, run.scope})
      /\ root = run.ast /\ Rest /\ Links
  BY <1>4, <1>a DEF FreeingAst
<1>6. /\ NodeCalls(run, calls)
      /\ calls = <<>> => call.owner = The("main") /\ call.node = run.ast
      /\ calls # <<>> => Behind(run, Last(calls), call)
  BY <1>4, <1>5, PushNodeCall
<1>7. /\ FieldsOutside(run, links, calls)
      /\ calls # <<>> => InHand(run, links, Last(calls), call.field)
  BY <1>4, <1>5, PushFields
<1>8. PICK n : n = call.node
  OBVIOUS
<1>9. Taken(call) = {n} /\ n \in Of(run, {"node"}) /\ Holds(run, call) = {}
  BY <1>4, <1>8, FrameHas
<1>10. EnteredIn(stack) = EnteredIn(calls) \cup {n}
  BY <1>4, <1>9, PushEntered
<1>11. EnteredIn(stack) \subseteq live
  BY <1>5 DEF Owning
<1>12. Owning(run, live \ {n}, calls, {run.types, run.scope})
  <2>1. Owning(run, live \ Taken(call), calls, {run.types, run.scope})
    BY <1>4, <1>5, <1>9, CallReturns
  <2> QED BY <2>1, <1>9
<1>13. /\ n # The("lang") /\ n # The("generator") /\ n # The("main") /\ n[1] = "node"
       /\ n \in DOMAIN run.links
  BY <1>4, <1>9, Kinds DEF Of
<1>14. WaitingIn(run, live \ {n}, calls) \subseteq WaitingIn(run, live, stack)
  BY <1>10 DEF WaitingIn
<1>15. ASSUME live' = live \ {n}, stack' = calls
       PROVE  Rest'
  BY <1>15, <1>1, <1>5, <1>13 DEF Rest, Of
<1>16. CASE calls = <<>>
  <2>1. call.owner = The("main")
    BY <1>6, <1>16
  <2>2. {n, call.owner} \subseteq live \cup {The("main")}
    BY <2>1, <1>10, <1>11
  <2>3. live' = live \ {n} /\ stack' = calls /\ root' = None /\ links' = links /\ status' = status
    BY <2>1, <2>2, <1>2, <1>3, <1>8 DEF FreeNodeItself
  <2>4. NodeCalls(run, stack') /\ FieldsOf(run, links', stack')
    BY <2>3, <1>16, NoCalls
  <2>5. Links'
    BY <2>3, <1>1, <1>5, <1>14 DEF Links
  <2>6. FreeingAst'
    BY <2>3, <2>4, <2>5, <1>1, <1>5, <1>12, <1>15, <1>16 DEF FreeingAst
  <2> QED BY <2>3, <2>6, <1>1, <1>4 DEF DriverInv
<1>17. CASE calls # <<>>
  <2>1. PICK outer : outer = Last(calls)
    OBVIOUS
  <2>2. PICK p : p = outer.node
    OBVIOUS
  <2>3. PICK f : f = call.field
    OBVIOUS
  <2>4. /\ outer \in NodeFrames(run) /\ Len(calls) \in Nat \ {0} /\ outer = calls[Len(calls)]
    BY <2>1, <1>4, <1>17, FrontLast
  <2>5. /\ call.owner = p /\ <<p, f>> \in Slots(run.links) /\ f \notin ToSet(outer.left)
        /\ InHand(run, links, outer, f)
    BY <2>1, <2>2, <2>3, <1>6, <1>7, <1>17 DEF Behind
  <2>6. Taken(outer) = {p} /\ p \in Of(run, {"node"})
    BY <2>2, <2>4, <1>4, FrameHas
  <2>7. p \in DOMAIN run.links /\ p[1] = "node" /\ p # The("main")
    BY <2>6, <1>4, Kinds DEF Of
  <2>8. f \in ToSet(Fields(run.links[p].type)) /\ ToSet(Fields(run.links[p].type)) \subseteq FieldNames
    BY <2>5, <2>7, NodeSlots, FieldFacts
  <2>9. f # "type" /\ \A g \in ToSet(Fields(run.links[p].type)) : g # "root"
    BY <2>8 DEF FieldNames
  <2>10. DOMAIN links = DOMAIN run.links /\ f \in DOMAIN links[p]
    <3>1. DOMAIN run.links[p] = {"type"} \cup FieldNames
      BY <2>6, <1>4, NodePointers
    <3> QED BY <3>1, <2>7, <2>8, <1>5 DEF Links
  <2>11. p \in EnteredIn(calls)
    BY <2>4, <2>6 DEF EnteredIn
  <2>12. {n, call.owner} \subseteq live \cup {The("main")}
    BY <2>5, <2>11, <1>10, <1>11
  <2>13. /\ live' = live \ {n} /\ stack' = calls /\ status' = status /\ root' = root
         /\ links' = [links EXCEPT ![p][f] = None]
    BY <2>3, <2>5, <2>7, <2>12, <1>2, <1>3, <1>8 DEF FreeNodeItself
  <2>14. /\ DOMAIN links' = DOMAIN links
         /\ \A o \in DOMAIN links : o # p => links'[o] = links[o]
         /\ DOMAIN links'[p] = DOMAIN links[p] /\ links'[p][f] = None
         /\ \A g : g # f => links'[p][g] = links[p][g]
    BY <2>7, <2>10, <2>13
  <2>15. InHand(run, links', outer, "root")
    BY <2>2, <2>5, <2>9, <2>14 DEF InHand
  <2>16. FieldsOutside(run, links', calls)
    <3> SUFFICES ASSUME NEW i \in 1 .. Len(calls) - 1
                 PROVE  InHand(run, links', calls[i], calls[i + 1].field)
      BY DEF FieldsOutside
    <3>1. InHand(run, links, calls[i], calls[i + 1].field)
      BY <1>7 DEF FieldsOutside
    <3>2. i \in DOMAIN calls /\ Len(calls) \in DOMAIN calls /\ i # Len(calls)
      BY <2>4, <1>4
    <3>3. calls[i] \in NodeFrames(run)
      BY <3>2, <1>4
    <3>4. Taken(calls[i]) = {calls[i].node} /\ calls[i].node \in DOMAIN run.links
      BY <3>3, <1>4, FrameHas DEF Of
    <3>5. Taken(calls[i]) \cap Taken(outer) = {}
      BY <3>2, <2>4, <1>12 DEF Owning, Apart
    <3>6. calls[i].node # p
      BY <3>4, <3>5, <2>6
    <3>7. links'[calls[i].node] = links[calls[i].node]
      BY <3>4, <3>6, <2>10, <2>14
    <3> QED BY <3>1, <3>7 DEF InHand
  <2>17. FieldsOf(run, links', stack')
    BY <2>1, <2>13, <2>15, <2>16 DEF FieldsOf
  <2>18. Links'
    <3>1. p \notin WaitingIn(run, live \ {n}, calls)
      BY <2>11 DEF WaitingIn
    <3>2. links'[p].type = links[p].type
      BY <2>9, <2>14
    <3>3. ASSUME NEW o \in DOMAIN links
          PROVE  /\ o[1] # "node" \/ o \in WaitingIn(run, live \ {n}, calls) =>
                      links'[o] = run.links[o]
                 /\ o[1] = "node" => /\ DOMAIN links'[o] = DOMAIN run.links[o]
                                     /\ links'[o].type = run.links[o].type
      <4>1. /\ o[1] # "node" \/ o \in WaitingIn(run, live \ {n}, calls) => links[o] = run.links[o]
            /\ o[1] = "node" => /\ DOMAIN links[o] = DOMAIN run.links[o]
                                /\ links[o].type = run.links[o].type
        BY <1>5, <1>14 DEF Links
      <4>2. CASE o = p
        BY <4>1, <4>2, <3>1, <3>2, <2>7, <2>14
      <4>3. CASE o # p
        BY <4>1, <4>3, <2>14
      <4> QED BY <4>2, <4>3
    <3>4. live' = live \ {n} /\ stack' = calls
      BY <2>13
    <3> QED BY <3>3, <3>4, <2>10, <2>14, <1>1 DEF Links
  <2>19. FreeingAst'
    BY <2>13, <2>17, <2>18, <1>1, <1>5, <1>6, <1>12, <1>15, <1>17 DEF FreeingAst
  <2> QED BY <2>13, <2>19, <1>1, <1>4 DEF DriverInv
<1> QED BY <1>16, <1>17

-----------------------------------------------------------------------------
(* Calls of lang_free and lang_free_scope.                                 *)

\* lang_free when the types are freed.
TypesGone == [fn |-> "lang", types |-> FALSE]
ScopeFrame(scope, at) == [fn |-> "scope", scope |-> scope, at |-> at]

\* What a call of each function has in hand and holds.
LEMMA FreeFrameHas ==
  ASSUME NEW r \in Runs, NEW call \in FreeFrames(r)
  PROVE  /\ call.fn \in {"lang", "scope", "list"}
         /\ call.fn = "lang" =>
              /\ call.types \in BOOLEAN /\ [call EXCEPT !.types = FALSE] = TypesGone /\ Taken(call) = {}
              /\ call.types => Holds(r, call) = {r.scope}
              /\ ~call.types => Holds(r, call) = {}
         /\ call.fn = "scope" =>
              /\ call.scope \in Of(r, {"scope"}) /\ call.at \in Of(r, {"scope"}) \cup {None}
              /\ call = ScopeFrame(call.scope, call.at)
              /\ Taken(call) = {call.scope} /\ Holds(r, call) = {call.at} \ {None}
         /\ call.fn = "list" =>
              /\ call.at \in Of(r, {"type", "symbol"}) \cup {None}
              /\ Taken(call) = {} /\ Holds(r, call) = {call.at} \ {None}
<1>1. r.scope # None
  BY HeadFacts, Kinds
<1>2. CASE call \in LangFrames
  <2>1. call.fn = "lang" /\ call.types \in BOOLEAN /\ [call EXCEPT !.types = FALSE] = TypesGone
    <3>1. call.fn = "lang" /\ call.types \in BOOLEAN
      BY <1>2 DEF LangFrames
    <3>2. call = [fn |-> "lang", types |-> call.types]
      BY <1>2 DEF LangFrames
    <3>3. [call EXCEPT !.types = FALSE] = TypesGone
      <4>1. PICK no : no = FALSE
        OBVIOUS
      <4>2. PICK types : types = call.types
        OBVIOUS
      <4>3. call = [fn |-> "lang", types |-> types]
        BY <3>2, <4>2
      <4>4. [call EXCEPT !.types = no] = [fn |-> "lang", types |-> no]
        BY <4>3
      <4> QED BY <4>1, <4>4 DEF TypesGone
    <3> QED BY <3>1, <3>3
  <2> QED BY <2>1, <1>1 DEF Taken, Holds
<1>3. CASE call \in ScopeFrames(r)
  <2>1. /\ call.fn = "scope" /\ call.scope \in Of(r, {"scope"})
        /\ call.at \in Of(r, {"scope"}) \cup {None} /\ call = ScopeFrame(call.scope, call.at)
    BY <1>3 DEF ScopeFrames, ScopeFrame
  <2> QED BY <2>1 DEF Taken, Holds
<1>4. CASE call \in ListFrames(r)
  <2>1. call.fn = "list" /\ call.at \in Of(r, {"type", "symbol"}) \cup {None}
    BY <1>4 DEF ListFrames
  <2> QED BY <2>1 DEF Taken, Holds
<1> QED BY <1>2, <1>3, <1>4 DEF FreeFrames

\* Calls that begin or go on.
LEMMA NewFreeFrames ==
  ASSUME NEW r \in Runs
  PROVE  /\ FreeLanguage \in FreeFrames(r) /\ TypesGone \in FreeFrames(r)
         /\ FreeLanguage.fn = "lang" /\ FreeLanguage.types
         /\ TypesGone.fn = "lang" /\ ~TypesGone.types
         /\ \A at \in Of(r, {"type", "symbol"}) \cup {None} :
              /\ FreeList(at) \in FreeFrames(r)
              /\ FreeList(at).fn = "list" /\ FreeList(at).at = at
         /\ \A scope \in Of(r, {"scope"}), at \in Of(r, {"scope"}) \cup {None} :
              /\ ScopeFrame(scope, at) \in FreeFrames(r)
              /\ ScopeFrame(scope, at).fn = "scope"
              /\ ScopeFrame(scope, at).scope = scope /\ ScopeFrame(scope, at).at = at
<1>1. FreeLanguage \in LangFrames /\ TypesGone \in LangFrames
  BY DEF FreeLanguage, TypesGone, LangFrames
<1>2. /\ FreeLanguage.fn = "lang" /\ FreeLanguage.types
      /\ TypesGone.fn = "lang" /\ ~TypesGone.types
  BY DEF FreeLanguage, TypesGone
<1>3. \A at \in Of(r, {"type", "symbol"}) \cup {None} :
        /\ FreeList(at) \in ListFrames(r)
        /\ FreeList(at).fn = "list" /\ FreeList(at).at = at
  BY DEF FreeList, ListFrames
<1>4. \A scope \in Of(r, {"scope"}), at \in Of(r, {"scope"}) \cup {None} :
        /\ ScopeFrame(scope, at) \in ScopeFrames(r)
        /\ ScopeFrame(scope, at).fn = "scope"
        /\ ScopeFrame(scope, at).scope = scope /\ ScopeFrame(scope, at).at = at
  BY DEF ScopeFrame, ScopeFrames
<1>5. /\ LangFrames \subseteq FreeFrames(r) /\ ListFrames(r) \subseteq FreeFrames(r)
      /\ ScopeFrames(r) \subseteq FreeFrames(r)
  BY DEF FreeFrames
<1>6. FreeLanguage \in FreeFrames(r) /\ TypesGone \in FreeFrames(r)
  BY <1>1, <1>5
<1>7. \A at \in Of(r, {"type", "symbol"}) \cup {None} :
        /\ FreeList(at) \in FreeFrames(r)
        /\ FreeList(at).fn = "list" /\ FreeList(at).at = at
  BY <1>3, <1>5
<1>8. \A scope \in Of(r, {"scope"}), at \in Of(r, {"scope"}) \cup {None} :
        /\ ScopeFrame(scope, at) \in FreeFrames(r)
        /\ ScopeFrame(scope, at).fn = "scope"
        /\ ScopeFrame(scope, at).scope = scope /\ ScopeFrame(scope, at).at = at
  BY <1>4, <1>5
<1> QED BY <1>2, <1>6, <1>7, <1>8, Zenon

\* lang_free is outermost and the loop over a list innermost.
LEMMA PushLangCall ==
  ASSUME NEW r, NEW calls \in Seq(FreeFrames(r)), NEW call \in FreeFrames(r)
  PROVE  LangCalls(r, Append(calls, call)) <=>
           /\ LangCalls(r, calls)
           /\ call.fn = "lang" <=> calls = <<>>
           /\ calls # <<>> => Last(calls).fn # "list"
<1> DEFINE n == Len(calls)  after == Append(calls, call)
<1>1. /\ n \in Nat /\ DOMAIN calls = 1 .. n /\ DOMAIN after = 1 .. n + 1 /\ Len(after) = n + 1
      /\ \A i \in 1 .. n : after[i] = calls[i]
      /\ after[n + 1] = call
      /\ after \in Seq(FreeFrames(r))
      /\ calls = <<>> <=> n = 0
  OBVIOUS
<1>2. n # 0 => Last(calls) = calls[n]
  BY <1>1 DEF Last
<1>a. n = Len(calls)
  OBVIOUS
<1> HIDE DEF n, after
<1>3. LangCalls(r, calls) <=>
        \A i \in 1 .. n : /\ calls[i].fn = "lang" <=> i = 1
                          /\ calls[i].fn = "list" => i = n
  <2>1. ASSUME LangCalls(r, calls), NEW i \in 1 .. n
        PROVE  /\ calls[i].fn = "lang" <=> i = 1
               /\ calls[i].fn = "list" => i = n
    <3>1. i \in DOMAIN calls
      BY <1>1
    <3>2. calls[i].fn = "lang" <=> i = 1
      BY <3>1, <2>1 DEF LangCalls
    <3>3. calls[i].fn = "list" => i = Len(calls)
      BY <3>1, <2>1 DEF LangCalls
    <3> QED BY <3>2, <3>3, <1>a
  <2>2. ASSUME \A i \in 1 .. n : /\ calls[i].fn = "lang" <=> i = 1
                                 /\ calls[i].fn = "list" => i = n
        PROVE  LangCalls(r, calls)
    <3>1. ASSUME NEW i \in DOMAIN calls
          PROVE  /\ calls[i].fn = "lang" <=> i = 1
                 /\ calls[i].fn = "list" => i = Len(calls)
      <4>1. i \in 1 .. n
        BY <1>1
      <4>2. calls[i].fn = "lang" <=> i = 1
        BY <4>1, <2>2
      <4>3. calls[i].fn = "list" => i = n
        BY <4>1, <2>2
      <4> QED BY <4>2, <4>3, <1>a
    <3> QED BY <3>1 DEF LangCalls
  <2> QED BY <2>1, <2>2
<1>4. LangCalls(r, after) <=>
        \A i \in 1 .. n + 1 : /\ after[i].fn = "lang" <=> i = 1
                              /\ after[i].fn = "list" => i = n + 1
  BY <1>1 DEF LangCalls
<1>5. \A i \in 1 .. n + 1 : i \in 1 .. n \/ i = n + 1
  BY <1>1
<1>6. /\ 1 .. n \subseteq 1 .. n + 1 /\ n + 1 \in 1 .. n + 1 /\ n + 1 \notin 1 .. n
      /\ n + 1 = 1 <=> n = 0
      /\ n # 0 => n \in 1 .. n
  BY <1>1
<1>7. ASSUME LangCalls(r, after)
      PROVE  /\ LangCalls(r, calls)
             /\ call.fn = "lang" <=> n = 0
             /\ n # 0 => Last(calls).fn # "list"
  <2>1. \A i \in 1 .. n : calls[i].fn = "lang" <=> i = 1
    BY <1>1, <1>4, <1>6, <1>7
  <2>2. \A i \in 1 .. n : calls[i].fn # "list"
    BY <1>1, <1>4, <1>6, <1>7
  <2>3. call.fn = "lang" <=> n = 0
    BY <1>1, <1>4, <1>6, <1>7
  <2> QED BY <2>1, <2>2, <2>3, <1>2, <1>3, <1>6
<1>8. ASSUME LangCalls(r, calls), call.fn = "lang" <=> n = 0, n # 0 => Last(calls).fn # "list"
      PROVE  LangCalls(r, after)
  <2>1. \A i \in 1 .. n : calls[i].fn = "lang" <=> i = 1
    BY <1>3, <1>8
  <2>2. \A i \in 1 .. n : calls[i].fn # "list"
    <3> SUFFICES ASSUME NEW i \in 1 .. n, calls[i].fn = "list" PROVE FALSE
      OBVIOUS
    <3>1. i = n
      BY <1>3, <1>8
    <3>2. n # 0
      BY <1>1
    <3> QED BY <3>1, <3>2, <1>2, <1>8
  <2> QED BY <2>1, <2>2, <1>1, <1>4, <1>5, <1>6, <1>8
<1> QED BY <1>1, <1>7, <1>8 DEF after

\* In a call of lang_free or lang_free_scope main has freed the tree.
LEMMA InLang ==
  ASSUME DriverInv, NEW fn \in {"lang", "scope", "list"}, In(fn)
  PROVE  /\ FreeingLang /\ run \in Runs /\ status = "running" /\ Top.fn = fn
         /\ Front(stack) \in Seq(FreeFrames(run)) /\ Top \in FreeFrames(run)
         /\ stack = Append(Front(stack), Top) /\ stack # <<>>
<1>1. stack # <<>> /\ Top.fn = fn /\ status = "running" /\ run \in Runs
  BY DEF In, DriverInv
<1>2. ~Building
  BY <1>1 DEF Building
<1>3. ~FreeingAst
  <2> SUFFICES ASSUME FreeingAst PROVE FALSE
    OBVIOUS
  <2>1. stack \in Seq(NodeFrames(run))
    BY DEF FreeingAst, NodeCalls
  <2>2. Top \in NodeFrames(run)
    BY <1>1, <2>1, FrontLast DEF Top
  <2> QED BY <1>1, <2>2 DEF NodeFrames
<1>4. FreeingLang
  BY <1>2, <1>3 DEF DriverInv
<1>5. stack \in Seq(FreeFrames(run))
  BY <1>4 DEF FreeingLang, LangCalls
<1> QED BY <1>1, <1>4, <1>5, TopOf DEF Top

\* Of what a call holds an object goes, and what that points to is divided among
\* three calls.
Divided(r, call, o, next, inner, loop) ==
  /\ Taken(next) = Taken(call) /\ Taken(inner) = {o} /\ Taken(loop) = {}
  /\ Holds(r, next) \cup Holds(r, inner) \cup Holds(r, loop)
       = (Holds(r, call) \ {o}) \cup Reached(r.links, o)
  /\ Holds(r, next) \cap Holds(r, inner) = {}
  /\ Holds(r, loop) \cap (Holds(r, next) \cup Holds(r, inner)) = {}

\* A call holds nothing but one object, or nothing if that is NULL.
HoldsOnly(r, call, o) == Holds(r, call) = {o} \ {None}

\* The innermost call makes a call for an object it holds, which starts with a loop
\* over a list.
LEMMA CallCallsLoop ==
  ASSUME NEW r \in Runs, NEW there, NEW S, NEW calls \in Seq(S), NEW call \in S, NEW next \in S,
         NEW ofMain, Owning(r, there, Append(calls, call), ofMain), NEW o \in Holds(r, call),
         NEW inner \in S, NEW loop \in S, Divided(r, call, o, next, inner, loop)
  PROVE  Owning(r, there, Append(Append(Append(calls, next), inner), loop), ofMain)
<1> DEFINE all == Append(calls, call)  middle == Append(calls, next)
           upper == Append(middle, inner)  after == Append(upper, loop)
<1>0. middle \in Seq(S) /\ upper \in Seq(S)
  OBVIOUS
<1>e. /\ Taken(next) = Taken(call) /\ Taken(inner) = {o} /\ Taken(loop) = {}
      /\ Holds(r, next) \cup Holds(r, inner) \cup Holds(r, loop)
           = (Holds(r, call) \ {o}) \cup Reached(r.links, o)
      /\ Holds(r, next) \cap Holds(r, inner) = {}
      /\ Holds(r, loop) \cap (Holds(r, next) \cup Holds(r, inner)) = {}
  BY DEF Divided
<1>1. /\ EnteredIn(all) = EnteredIn(calls) \cup Taken(call)
      /\ HeldIn(r, all) = HeldIn(r, calls) \cup Holds(r, call)
  BY PushEntered, PushHeld
<1>2. /\ EnteredIn(middle) = EnteredIn(calls) \cup Taken(call)
      /\ HeldIn(r, middle) = HeldIn(r, calls) \cup Holds(r, next)
  BY <1>e, PushEntered, PushHeld
<1>3. /\ EnteredIn(upper) = EnteredIn(middle) \cup Taken(inner)
      /\ HeldIn(r, upper) = HeldIn(r, middle) \cup Holds(r, inner)
  BY <1>0, PushEntered, PushHeld
<1>a. /\ EnteredIn(after) = EnteredIn(upper) \cup Taken(loop)
      /\ HeldIn(r, after) = HeldIn(r, upper) \cup Holds(r, loop)
  <2>1. upper \in Seq(S)
    BY <1>0
  <2> HIDE DEF upper, middle
  <2> QED BY <2>1, PushEntered, PushHeld
<1>4. Apart(r, all) <=> /\ Apart(r, calls)
                        /\ Taken(call) \cap EnteredIn(calls) = {}
                        /\ Holds(r, call) \cap HeldIn(r, calls) = {}
  BY PushApart
<1>5. Apart(r, middle) <=> /\ Apart(r, calls)
                           /\ Taken(next) \cap EnteredIn(calls) = {}
                           /\ Holds(r, next) \cap HeldIn(r, calls) = {}
  BY PushApart
<1>6. Apart(r, upper) <=> /\ Apart(r, middle)
                          /\ Taken(inner) \cap EnteredIn(middle) = {}
                          /\ Holds(r, inner) \cap HeldIn(r, middle) = {}
  BY <1>0, PushApart
<1>b. Apart(r, after) <=> /\ Apart(r, upper)
                          /\ Taken(loop) \cap EnteredIn(upper) = {}
                          /\ Holds(r, loop) \cap HeldIn(r, upper) = {}
  BY <1>0, PushApart
<1>7. Owning(r, there, all, ofMain)
  OBVIOUS
<1> HIDE DEF all, middle, upper, after
<1>8. Apart(r, all)
  BY <1>7 DEF Owning
<1>9. /\ HeldIn(r, all) \cup ofMain \subseteq WaitingIn(r, there, all)
      /\ WaitingIn(r, there, all) \cap EnteredIn(all) = {}
      /\ WaitingIn(r, there, all) \subseteq DOMAIN r.links
      /\ WaitingIn(r, there, all) \subseteq there
  BY <1>7, HeldWait
<1>10. o \in HeldIn(r, all)
  BY <1>1
<1>11. Reached(r.links, o) \cap HeldIn(r, all) = {}
  BY <1>7, <1>10, HeldReached
<1>c. (Holds(r, next) \cup Holds(r, inner) \cup Holds(r, loop)) \cap HeldIn(r, calls) = {}
  BY <1>e, <1>1, <1>4, <1>8, <1>11
<1>12. Apart(r, middle)
  BY <1>c, <1>e, <1>4, <1>5, <1>8
<1>13. Apart(r, upper)
  <2>1. o \notin EnteredIn(middle)
    BY <1>1, <1>2, <1>9, <1>10
  <2> QED BY <2>1, <1>c, <1>e, <1>2, <1>6, <1>12
<1>d. Apart(r, after)
  BY <1>c, <1>e, <1>2, <1>3, <1>b, <1>13
<1>14. WaitingIn(r, there, after) = WaitingIn(r, there, all) \ {o}
  BY <1>e, <1>1, <1>2, <1>3, <1>a DEF WaitingIn
<1>15. HeldIn(r, after) = (HeldIn(r, all) \ {o}) \cup Reached(r.links, o)
  BY <1>e, <1>1, <1>2, <1>3, <1>a, <1>4, <1>8
<1>16. EnteredIn(after) \subseteq there
  BY <1>e, <1>1, <1>2, <1>3, <1>a, <1>7, <1>9, <1>10 DEF Owning
<1>17. Owning(r, there, after, ofMain)
  BY <1>7, <1>10, <1>d, <1>14, <1>15, <1>16, Advance
<1> QED BY <1>17 DEF after, upper, middle

\* What the free functions read in an object they hold is as the phases left it,
\* nodes aside.
LEMMA LangStep ==
  ASSUME FreeingLang, run \in Runs
  PROVE  /\ pc = "return" /\ LangCalls(run, stack) /\ root = None
         /\ Owning(run, live, stack, {}) /\ Rest /\ Links
         /\ HeldIn(run, stack) \subseteq live /\ EnteredIn(stack) \subseteq live
         /\ HeldIn(run, stack) \subseteq DOMAIN run.links
         /\ \A o \in DOMAIN run.links : o[1] # "node" => links[o] = run.links[o]
<1>1. /\ pc = "return" /\ LangCalls(run, stack) /\ root = None
      /\ Owning(run, live, stack, {}) /\ Rest /\ Links
  BY DEF FreeingLang
<1>2. PICK ofMain : ofMain = {}
  OBVIOUS
<1>3. Owning(run, live, stack, ofMain)
  BY <1>1, <1>2
<1>4. /\ HeldIn(run, stack) \cup ofMain \subseteq WaitingIn(run, live, stack)
      /\ WaitingIn(run, live, stack) \subseteq DOMAIN run.links
      /\ WaitingIn(run, live, stack) \subseteq live
  BY <1>3, HeldWait
<1>5. EnteredIn(stack) \subseteq live
  BY <1>1 DEF Owning
<1>6. \A o \in DOMAIN run.links : o[1] # "node" => links[o] = run.links[o]
  BY <1>1 DEF Links
<1> QED BY <1>1, <1>4, <1>5, <1>6

\* A step of lang_free and lang_free_scope that leaves the pointers and takes from
\* what is there at most an object they have to free.
LEMMA LangKept ==
  ASSUME FreeingLang, run \in Runs, NEW gone, gone \subseteq Of(run, {"type", "symbol", "scope"}),
         run' = run, pc' = pc, links' = links, root' = root, live' = live \ gone,
         stack # <<>>, stack' # <<>>, EnteredIn(stack) \subseteq EnteredIn(stack') \cup gone,
         LangCalls(run, stack'), Owning(run, live', stack', {})
  PROVE  FreeingLang'
<1>1. pc = "return" /\ root = None /\ Rest /\ Links
  BY DEF FreeingLang
<1>2. \A o \in gone : /\ o \in DOMAIN run.links /\ o[1] # "field"
                     /\ o # The("lang") /\ o # The("generator")
  <2> SUFFICES ASSUME NEW o \in gone
               PROVE  /\ o \in DOMAIN run.links /\ o[1] # "field"
                      /\ o # The("lang") /\ o # The("generator")
    OBVIOUS
  <2>1. o \in DOMAIN run.links /\ o[1] \in {"type", "symbol", "scope"}
    BY DEF Of
  <2> QED BY <2>1, Kinds
<1>3. WaitingIn(run, live', stack') \subseteq WaitingIn(run, live, stack)
  BY DEF WaitingIn
<1>4. Links'
  BY <1>1, <1>3 DEF Links
<1>5. Rest'
  BY <1>1, <1>2 DEF Rest, Of
<1> QED BY <1>1, <1>4, <1>5 DEF FreeingLang

-----------------------------------------------------------------------------
(* The steps of lang_free and lang_free_scope.                             *)

\* lang_free takes over the heads of the types and of the scopes.
LEMMA FreeLangKeeps == DriverInv /\ FreeLang => DriverInv'
<1> SUFFICES ASSUME DriverInv, FreeLang PROVE DriverInv'
  OBVIOUS
<1>1. /\ pc = "free_lang" /\ stack = <<>> /\ status = "running" /\ pc' = "return"
      /\ stack' = <<FreeLanguage, FreeList(run.types)>>
      /\ run' = run /\ links' = links /\ root' = root /\ live' = live /\ status' = status
  BY DEF FreeLang, At
<1>2. run \in Runs
  BY DEF DriverInv
<1>3. FreeingAst
  <2>1. "free_lang" \notin Calls
    BY DEF Calls
  <2> QED BY <2>1, <1>1 DEF DriverInv, Building, FreeingLang
<1>4. /\ root = None /\ Rest /\ Links
      /\ Owning(run, live, stack, {run.types, run.scope})
  BY <1>1, <1>3 DEF FreeingAst
<1>5. PICK none : none = <<>>
  OBVIOUS
<1>6. PICK lang : lang = FreeLanguage
  OBVIOUS
<1>7. PICK loop : loop = FreeList(run.types)
  OBVIOUS
<1>8. PICK outer : outer = Append(none, lang)
  OBVIOUS
<1>9. /\ run.types \in Of(run, {"type", "symbol"}) /\ run.types # run.scope
      /\ run.types # None
  BY <1>2, HeadFacts, Kinds DEF Of
<1>10. lang \in FreeFrames(run) /\ loop \in FreeFrames(run) /\ none \in Seq(FreeFrames(run))
  BY <1>2, <1>5, <1>6, <1>7, <1>9, NewFreeFrames
<1>11. lang.fn = "lang" /\ lang.types /\ loop.fn = "list" /\ loop.at = run.types
  BY <1>2, <1>6, <1>7, <1>9, NewFreeFrames
<1>12. /\ Taken(lang) = {} /\ Holds(run, lang) = {run.scope}
       /\ Taken(loop) = {} /\ Holds(run, loop) = {run.types}
  BY <1>2, <1>9, <1>10, <1>11, FreeFrameHas
<1>13. /\ outer \in Seq(FreeFrames(run)) /\ outer # <<>> /\ Last(outer) = lang
  <2>1. outer \in Seq(FreeFrames(run)) /\ outer # <<>> /\ Len(outer) = 1 /\ outer[1] = lang
    BY <1>5, <1>8, <1>10
  <2> QED BY <2>1 DEF Last
<1>14. stack' = Append(outer, loop) /\ stack' # <<>>
  BY <1>1, <1>5, <1>6, <1>7, <1>8
<1>15. EnteredIn(none) = {} /\ HeldIn(run, none) = {} /\ Apart(run, none) /\ LangCalls(run, none)
  <2>1. LangCalls(run, <<>>)
    <3>1. DOMAIN <<>> = {} /\ <<>> \in Seq(FreeFrames(run))
      OBVIOUS
    <3> QED BY <3>1 DEF LangCalls
  <2> QED BY <2>1, <1>5, NoCalls
<1>16. LangCalls(run, outer)
  BY <1>5, <1>8, <1>10, <1>11, <1>15, PushLangCall
<1>17. LangCalls(run, stack')
  BY <1>10, <1>11, <1>13, <1>14, <1>16, PushLangCall
<1>18. /\ EnteredIn(outer) = {} /\ HeldIn(run, outer) = {run.scope} /\ Apart(run, outer)
  <2>1. /\ EnteredIn(Append(none, lang)) = EnteredIn(none) \cup Taken(lang)
        /\ HeldIn(run, Append(none, lang)) = HeldIn(run, none) \cup Holds(run, lang)
    BY <1>10, PushEntered, PushHeld
  <2>2. Apart(run, Append(none, lang))
    BY <1>10, <1>12, <1>15, PushApart
  <2> QED BY <2>1, <2>2, <1>8, <1>12, <1>15
<1>19. /\ EnteredIn(stack') = {} /\ HeldIn(run, stack') = {run.types, run.scope}
       /\ Apart(run, stack')
  <2>1. /\ EnteredIn(Append(outer, loop)) = EnteredIn(outer) \cup Taken(loop)
        /\ HeldIn(run, Append(outer, loop)) = HeldIn(run, outer) \cup Holds(run, loop)
    BY <1>10, <1>13, PushEntered, PushHeld
  <2>2. Apart(run, Append(outer, loop))
    BY <1>9, <1>10, <1>12, <1>13, <1>18, PushApart
  <2> QED BY <2>1, <2>2, <1>12, <1>14, <1>18
<1>20. EnteredIn(stack) = {} /\ HeldIn(run, stack) = {}
  BY <1>1, NoCalls
<1>21. WaitingIn(run, live, stack') = WaitingIn(run, live, stack)
  BY <1>19, <1>20 DEF WaitingIn
<1>22. Owning(run, live, stack', {})
  <2>1. PICK all : all = {run.types, run.scope}
    OBVIOUS
  <2>2. Closed(run.links, WaitingIn(run, live, stack), HeldIn(run, stack) \cup all)
    BY <2>1, <1>4 DEF Owning
  <2>3. HeldIn(run, stack) \cup all = HeldIn(run, stack') \cup {}
    BY <2>1, <1>19, <1>20
  <2>4. Closed(run.links, WaitingIn(run, live, stack'), HeldIn(run, stack') \cup {})
    BY <2>2, <2>3, <1>21
  <2>5. HeldIn(run, stack') \cap {} = {} /\ EnteredIn(stack') \subseteq live
    BY <1>19
  <2> QED BY <2>4, <2>5, <1>19 DEF Owning
<1>23. Rest'
  BY <1>1, <1>4, <1>14 DEF Rest
<1>24. Links'
  BY <1>1, <1>4, <1>21 DEF Links
<1>25. FreeingLang'
  BY <1>1, <1>4, <1>17, <1>22, <1>23, <1>24 DEF FreeingLang
<1> QED BY <1>1, <1>2, <1>25 DEF DriverInv

\* An iteration over a list frees the element at hand.
LEMMA FreeElementKeeps == DriverInv /\ FreeElement => DriverInv'
<1> SUFFICES ASSUME DriverInv, FreeElement PROVE DriverInv'
  OBVIOUS
<1>1. In("list") /\ Top.at # None /\ run' = run /\ pc' = pc
  BY DEF FreeElement
<1>2. PICK calls : calls = Front(stack)
  OBVIOUS
<1>3. PICK call : call = Top
  OBVIOUS
<1>4. /\ FreeingLang /\ run \in Runs /\ status = "running" /\ call.fn = "list"
      /\ calls \in Seq(FreeFrames(run)) /\ call \in FreeFrames(run)
      /\ stack = Append(calls, call) /\ stack # <<>>
  BY <1>1, <1>2, <1>3, InLang
<1>5. PICK o : o = call.at
  OBVIOUS
<1>6. /\ o # None /\ o \in Of(run, {"type", "symbol"})
      /\ Taken(call) = {} /\ Holds(run, call) = {o}
  BY <1>1, <1>3, <1>4, <1>5, FreeFrameHas
<1>7. o \in HeldIn(run, stack)
  BY <1>4, <1>6, PushHeld
<1>8. o \in live /\ links[o] = run.links[o]
  BY <1>4, <1>6, <1>7, LangStep DEF Of
<1>9. PICK next : next = FreeList(links[o].next)
  OBVIOUS
<1>10. /\ live' = live \ {o} /\ stack' = Append(calls, next)
       /\ links' = links /\ root' = root /\ status' = status
  BY <1>2, <1>3, <1>5, <1>8, <1>9 DEF FreeElement, Become
<1>11. /\ Reached(run.links, o) = {run.links[o].next} \ {None}
       /\ run.links[o].next \in Of(run, {"type", "symbol"}) \cup {None}
  BY <1>4, <1>6, ListPointers
<1>12. next \in FreeFrames(run) /\ next.fn = "list" /\ next.at = run.links[o].next
  BY <1>4, <1>8, <1>9, <1>11, NewFreeFrames
<1>13. Taken(next) = {} /\ Holds(run, next) = Reached(run.links, o)
  BY <1>4, <1>11, <1>12, FreeFrameHas
<1>14. LangCalls(run, stack)
  BY <1>4 DEF FreeingLang
<1>15. LangCalls(run, Append(calls, next))
  BY <1>4, <1>12, <1>14, PushLangCall
<1>16. Owning(run, live \ {o}, Append(calls, next), {})
  <2>1. Owning(run, live, Append(calls, call), {})
    BY <1>4 DEF FreeingLang
  <2> QED BY <2>1, <1>4, <1>6, <1>12, <1>13, CallFrees
<1>17. EnteredIn(stack) \subseteq EnteredIn(Append(calls, next))
  <2>1. EnteredIn(Append(calls, call)) = EnteredIn(calls) \cup Taken(call)
    BY <1>4, PushEntered
  <2>2. EnteredIn(Append(calls, next)) = EnteredIn(calls) \cup Taken(next)
    BY <1>4, <1>12, PushEntered
  <2> QED BY <2>1, <2>2, <1>4, <1>6
<1>18. stack' # <<>>
  BY <1>4, <1>10, <1>12
<1>19. FreeingLang'
  <2>1. PICK gone : gone = {o}
    OBVIOUS
  <2>2. /\ gone \subseteq Of(run, {"type", "symbol", "scope"}) /\ live' = live \ gone
        /\ EnteredIn(stack) \subseteq EnteredIn(stack') \cup gone
        /\ LangCalls(run, stack') /\ Owning(run, live', stack', {})
    BY <2>1, <1>6, <1>10, <1>15, <1>16, <1>17 DEF Of
  <2> QED BY <2>2, <1>1, <1>4, <1>10, <1>18, LangKept
<1> QED BY <1>1, <1>4, <1>10, <1>19 DEF DriverInv

\* A call that holds nothing any more returns, and what it has in hand is freed.
LEMMA LangReturns ==
  ASSUME FreeingLang, run \in Runs, NEW calls \in Seq(FreeFrames(run)), NEW call \in FreeFrames(run),
         stack = Append(calls, call), stack # <<>>, Holds(run, call) = {}, call.fn # "lang",
         run' = run, pc' = pc, links' = links, root' = root, live' = live \ Taken(call), stack' = calls
  PROVE  FreeingLang'
<1>1. LangCalls(run, calls) /\ calls # <<>>
  <2>1. LangCalls(run, Append(calls, call))
    BY DEF FreeingLang
  <2> QED BY <2>1, PushLangCall
<1>2. Owning(run, live \ Taken(call), calls, {})
  <2>1. Owning(run, live, Append(calls, call), {})
    BY DEF FreeingLang
  <2> QED BY <2>1, CallReturns
<1>3. EnteredIn(stack) = EnteredIn(calls) \cup Taken(call)
  BY PushEntered
<1>4. Taken(call) \subseteq Of(run, {"type", "symbol", "scope"})
  BY FreeFrameHas DEF Of
<1>5. PICK gone : gone = Taken(call)
  OBVIOUS
<1>6. /\ gone \subseteq Of(run, {"type", "symbol", "scope"}) /\ live' = live \ gone
      /\ EnteredIn(stack) \subseteq EnteredIn(stack') \cup gone
      /\ LangCalls(run, stack') /\ Owning(run, live', stack', {}) /\ stack' # <<>>
  BY <1>1, <1>2, <1>3, <1>4, <1>5
<1> QED BY <1>6, LangKept

\* The loop over a list ends.
LEMMA FreeListEndKeeps == DriverInv /\ FreeListEnd => DriverInv'
<1> SUFFICES ASSUME DriverInv, FreeListEnd PROVE DriverInv'
  OBVIOUS
<1>1. /\ In("list") /\ Top.at = None /\ run' = run /\ pc' = pc /\ stack' = Front(stack)
      /\ links' = links /\ root' = root /\ live' = live /\ status' = status
  BY DEF FreeListEnd
<1>2. PICK calls : calls = Front(stack)
  OBVIOUS
<1>3. PICK call : call = Top
  OBVIOUS
<1>4. /\ FreeingLang /\ run \in Runs /\ status = "running" /\ call.fn = "list"
      /\ calls \in Seq(FreeFrames(run)) /\ call \in FreeFrames(run)
      /\ stack = Append(calls, call) /\ stack # <<>>
  BY <1>1, <1>2, <1>3, InLang
<1>5. Taken(call) = {} /\ Holds(run, call) = {}
  BY <1>1, <1>3, <1>4, FreeFrameHas
<1>6. live' = live \ Taken(call) /\ stack' = calls /\ call.fn # "lang"
  BY <1>1, <1>2, <1>4, <1>5
<1>7. FreeingLang'
  BY <1>1, <1>4, <1>5, <1>6, LangReturns
<1> QED BY <1>1, <1>4, <1>7 DEF DriverInv

\* A scope whose children are freed is freed.
LEMMA FreeScopeItselfKeeps == DriverInv /\ FreeScopeItself => DriverInv'
<1> SUFFICES ASSUME DriverInv, FreeScopeItself PROVE DriverInv'
  OBVIOUS
<1>1. In("scope") /\ Top.at = None /\ run' = run /\ pc' = pc
  BY DEF FreeScopeItself
<1>2. PICK calls : calls = Front(stack)
  OBVIOUS
<1>3. PICK call : call = Top
  OBVIOUS
<1>4. /\ FreeingLang /\ run \in Runs /\ status = "running" /\ call.fn = "scope"
      /\ calls \in Seq(FreeFrames(run)) /\ call \in FreeFrames(run)
      /\ stack = Append(calls, call) /\ stack # <<>>
  BY <1>1, <1>2, <1>3, InLang
<1>5. Taken(call) = {call.scope} /\ Holds(run, call) = {}
  BY <1>1, <1>3, <1>4, FreeFrameHas
<1>6. call.scope \in EnteredIn(stack)
  BY <1>4, <1>5, PushEntered
<1>7. call.scope \in live
  BY <1>4, <1>6, LangStep
<1>8. /\ live' = live \ Taken(call) /\ stack' = calls /\ call.fn # "lang"
      /\ links' = links /\ root' = root /\ status' = status
  BY <1>2, <1>3, <1>4, <1>5, <1>7 DEF FreeScopeItself
<1>9. FreeingLang'
  BY <1>1, <1>4, <1>5, <1>8, LangReturns
<1> QED BY <1>1, <1>4, <1>8, <1>9 DEF DriverInv

\* lang_free_scope is called for a scope that is held: the call starts with the
\* symbols, has the first child to follow, and the caller goes on to the next one.
LEMMA ScopeCalled ==
  ASSUME FreeingLang, run \in Runs, NEW calls \in Seq(FreeFrames(run)), NEW call \in FreeFrames(run),
         stack = Append(calls, call), NEW o \in Of(run, {"scope"}), o # None, HoldsOnly(run, call, o),
         NEW next \in FreeFrames(run), next.fn = call.fn, next.fn # "list",
         Taken(next) = Taken(call), HoldsOnly(run, next, run.links[o].next),
         NEW inner, inner = ScopeFrame(o, run.links[o].childs),
         NEW loop, loop = FreeList(run.links[o].symbols),
         run' = run, pc' = pc, links' = links, root' = root, live' = live,
         stack' = Append(Append(Append(calls, next), inner), loop)
  PROVE  FreeingLang'
<1>0. Holds(run, call) = {o} /\ Holds(run, next) = {run.links[o].next} \ {None}
  BY DEF HoldsOnly
<1>1. /\ Reached(run.links, o) = {run.links[o].childs, run.links[o].next, run.links[o].symbols} \ {None}
      /\ run.links[o].childs \in Of(run, {"scope"}) \cup {None}
      /\ run.links[o].symbols \in Of(run, {"type", "symbol"}) \cup {None}
      /\ run.links[o].childs # None => run.links[o].childs # run.links[o].next
      /\ run.links[o].symbols # None =>
           run.links[o].symbols # run.links[o].next /\ run.links[o].symbols # run.links[o].childs
  BY ScopePointers DEF Of
<1>2. /\ inner \in FreeFrames(run) /\ inner.fn = "scope" /\ inner.scope = o
      /\ inner.at = run.links[o].childs
      /\ loop \in FreeFrames(run) /\ loop.fn = "list" /\ loop.at = run.links[o].symbols
  BY <1>1, NewFreeFrames
<1>3. /\ Taken(inner) = {o} /\ Holds(run, inner) = {run.links[o].childs} \ {None}
      /\ Taken(loop) = {} /\ Holds(run, loop) = {run.links[o].symbols} \ {None}
  BY <1>2, FreeFrameHas
<1>4. PICK middle : middle = Append(calls, next)
  OBVIOUS
<1>5. PICK upper : upper = Append(middle, inner)
  OBVIOUS
<1>6. /\ middle \in Seq(FreeFrames(run)) /\ middle # <<>> /\ Last(middle) = next
      /\ upper \in Seq(FreeFrames(run)) /\ upper # <<>> /\ Last(upper) = inner
  <2>1. /\ middle \in Seq(FreeFrames(run)) /\ middle # <<>>
        /\ Len(middle) = Len(calls) + 1 /\ middle[Len(calls) + 1] = next
    BY <1>4
  <2>2. /\ upper \in Seq(FreeFrames(run)) /\ upper # <<>>
        /\ Len(upper) = Len(middle) + 1 /\ upper[Len(middle) + 1] = inner
    BY <1>2, <1>5, <2>1
  <2> QED BY <2>1, <2>2 DEF Last
<1>7. stack' = Append(upper, loop) /\ stack' # <<>> /\ stack # <<>>
  <2>1. stack' = Append(upper, loop)
    BY <1>4, <1>5
  <2> QED BY <2>1, <1>2, <1>6
<1>8. LangCalls(run, stack')
  <2>1. LangCalls(run, Append(calls, call))
    BY DEF FreeingLang
  <2>2. /\ LangCalls(run, calls) /\ (call.fn = "lang" <=> calls = <<>>)
        /\ calls # <<>> => Last(calls).fn # "list"
    BY <2>1, PushLangCall
  <2>3. LangCalls(run, middle)
    BY <2>2, <1>4, PushLangCall
  <2>4. LangCalls(run, upper)
    BY <2>3, <1>2, <1>5, <1>6, PushLangCall
  <2>5. LangCalls(run, Append(upper, loop))
    BY <2>4, <1>2, <1>6, PushLangCall
  <2> QED BY <2>5, <1>7
<1>9. Owning(run, live, stack', {})
  <2>1. Owning(run, live, Append(calls, call), {})
    BY DEF FreeingLang
  <2>2. o \in Holds(run, call)
    BY <1>0
  <2>3. o \notin Reached(run.links, o)
    <3>1. PICK ofMain : ofMain = {}
      OBVIOUS
    <3>2. Owning(run, live, stack, ofMain) /\ o \in HeldIn(run, stack)
      BY <2>1, <2>2, <3>1, PushHeld
    <3>3. Reached(run.links, o) \cap HeldIn(run, stack) = {}
      BY <3>2, HeldReached
    <3> QED BY <3>2, <3>3
  <2>4. Holds(run, next) \cup Holds(run, inner) \cup Holds(run, loop)
          = (Holds(run, call) \ {o}) \cup Reached(run.links, o)
    <3>1. Holds(run, call) \ {o} = {}
      BY <1>0
    <3>2. PICK childs : childs = run.links[o].childs
      OBVIOUS
    <3>3. PICK symbols : symbols = run.links[o].symbols
      OBVIOUS
    <3>4. PICK after : after = run.links[o].next
      OBVIOUS
    <3>5. /\ Holds(run, next) = {after} \ {None} /\ Holds(run, inner) = {childs} \ {None}
          /\ Holds(run, loop) = {symbols} \ {None}
          /\ Reached(run.links, o) = {childs, after, symbols} \ {None}
      BY <3>2, <3>3, <3>4, <1>0, <1>1, <1>3
    <3> QED BY <3>1, <3>5
  <2>5. Holds(run, next) \cap Holds(run, inner) = {}
    BY <1>0, <1>1, <1>3
  <2>6. Holds(run, loop) \cap (Holds(run, next) \cup Holds(run, inner)) = {}
    BY <1>0, <1>1, <1>3
  <2>7. Divided(run, call, o, next, inner, loop)
    BY <2>4, <2>5, <2>6, <1>3 DEF Divided
  <2>8. PICK ofMain : ofMain = {}
    OBVIOUS
  <2>9. Owning(run, live, Append(Append(Append(calls, next), inner), loop), ofMain)
    <3>1. Owning(run, live, Append(calls, call), ofMain)
      BY <2>1, <2>8
    <3> QED BY <3>1, <2>2, <2>7, <1>2, CallCallsLoop
  <2> QED BY <2>8, <2>9
<1>10. EnteredIn(stack) \subseteq EnteredIn(stack')
  <2>1. EnteredIn(stack) = EnteredIn(calls) \cup Taken(call)
    BY PushEntered
  <2>2. EnteredIn(middle) = EnteredIn(calls) \cup Taken(next)
    BY <1>4, PushEntered
  <2>3. EnteredIn(upper) = EnteredIn(middle) \cup Taken(inner)
    BY <1>2, <1>5, <1>6, PushEntered
  <2>4. EnteredIn(Append(upper, loop)) = EnteredIn(upper) \cup Taken(loop)
    BY <1>2, <1>6, PushEntered
  <2> QED BY <2>1, <2>2, <2>3, <2>4, <1>7
<1>11. PICK gone : gone = {}
  OBVIOUS
<1>12. /\ gone \subseteq Of(run, {"type", "symbol", "scope"}) /\ live' = live \ gone
       /\ EnteredIn(stack) \subseteq EnteredIn(stack') \cup gone
  BY <1>10, <1>11
<1>13. run' = run /\ pc' = pc /\ links' = links /\ root' = root
  OBVIOUS
<1>14. Owning(run, live', stack', {})
  BY <1>9
<1> QED BY <1>7, <1>8, <1>12, <1>13, <1>14, LangKept

\* The types are freed, and the root scope is next.
LEMMA FreeRootScopeKeeps == DriverInv /\ FreeRootScope => DriverInv'
<1> SUFFICES ASSUME DriverInv, FreeRootScope PROVE DriverInv'
  OBVIOUS
<1>1. /\ In("lang") /\ Top.types
      /\ run' = run /\ links' = links /\ root' = root /\ live' = live /\ pc' = pc /\ status' = status
      /\ stack' = <<[Top EXCEPT !.types = FALSE], FreeScope(run.scope),
                    FreeList(links[run.scope].symbols)>>
  BY DEF FreeRootScope
<1>2. PICK calls : calls = Front(stack)
  OBVIOUS
<1>3. PICK call : call = Top
  OBVIOUS
<1>4. /\ FreeingLang /\ run \in Runs /\ status = "running" /\ call.fn = "lang"
      /\ calls \in Seq(FreeFrames(run)) /\ call \in FreeFrames(run)
      /\ stack = Append(calls, call)
  BY <1>1, <1>2, <1>3, InLang
<1>5. PICK o : o = run.scope
  OBVIOUS
<1>6. /\ o \in Of(run, {"scope"}) /\ run.links[o].next = None
      /\ links[o] = run.links[o]
  <2>1. o \in DOMAIN run.links /\ o[1] = "scope" /\ run.links[o].next = None
    BY <1>4, <1>5, HeadFacts
  <2> QED BY <2>1, <1>4, LangStep DEF Of
<1>7. PICK next : next = [call EXCEPT !.types = FALSE]
  OBVIOUS
<1>8. Taken(call) = {} /\ Holds(run, call) = {o} /\ next = TypesGone
  <2>1. call.types
    BY <1>1, <1>3
  <2> QED BY <2>1, <1>4, <1>5, <1>7, FreeFrameHas
<1>9. next \in FreeFrames(run) /\ next.fn = "lang" /\ ~next.types
  BY <1>4, <1>8, NewFreeFrames
<1>10. Taken(next) = {} /\ Holds(run, next) = {}
  BY <1>4, <1>9, FreeFrameHas
<1>11. PICK inner : inner = ScopeFrame(o, run.links[o].childs)
  OBVIOUS
<1>12. PICK loop : loop = FreeList(run.links[o].symbols)
  OBVIOUS
<1>13. calls = <<>>
  <2>1. LangCalls(run, Append(calls, call))
    BY <1>4 DEF FreeingLang
  <2> QED BY <2>1, <1>4, PushLangCall
<1>14. stack' = Append(Append(Append(calls, next), inner), loop)
  <2>1. FreeScope(run.scope) = inner
    BY <1>5, <1>6, <1>11 DEF FreeScope, ScopeFrame
  <2>2. FreeList(links[run.scope].symbols) = loop
    BY <1>5, <1>6, <1>12
  <2>3. stack' = <<next, inner, loop>>
    BY <2>1, <2>2, <1>1, <1>3, <1>7
  <2> QED BY <2>3, <1>13
<1>15. next.fn = call.fn /\ next.fn # "list" /\ Taken(next) = Taken(call)
  BY <1>4, <1>8, <1>9, <1>10
<1>a. o # None /\ HoldsOnly(run, call, o) /\ HoldsOnly(run, next, run.links[o].next)
  <2>1. o # None
    BY <1>4, <1>6, Kinds DEF Of
  <2> QED BY <2>1, <1>6, <1>8, <1>10 DEF HoldsOnly
<1>16. FreeingLang'
  BY <1>1, <1>4, <1>6, <1>9, <1>a, <1>11, <1>12, <1>14, <1>15, ScopeCalled
<1> QED BY <1>1, <1>4, <1>16 DEF DriverInv

\* The next child of a scope.
LEMMA FreeChildScopeKeeps == DriverInv /\ FreeChildScope => DriverInv'
<1> SUFFICES ASSUME DriverInv, FreeChildScope PROVE DriverInv'
  OBVIOUS
<1>1. In("scope") /\ Top.at # None /\ run' = run /\ pc' = pc
  BY DEF FreeChildScope
<1>2. PICK calls : calls = Front(stack)
  OBVIOUS
<1>3. PICK call : call = Top
  OBVIOUS
<1>4. /\ FreeingLang /\ run \in Runs /\ status = "running" /\ call.fn = "scope"
      /\ calls \in Seq(FreeFrames(run)) /\ call \in FreeFrames(run)
      /\ stack = Append(calls, call)
  BY <1>1, <1>2, <1>3, InLang
<1>5. PICK o : o = call.at
  OBVIOUS
<1>6. /\ o # None /\ o \in Of(run, {"scope"}) /\ call.scope \in Of(run, {"scope"})
      /\ call = ScopeFrame(call.scope, o)
      /\ Taken(call) = {call.scope} /\ Holds(run, call) = {o}
  BY <1>1, <1>3, <1>4, <1>5, FreeFrameHas
<1>7. o \in HeldIn(run, stack) /\ call.scope \in EnteredIn(stack)
  BY <1>4, <1>6, PushHeld, PushEntered
<1>8. o \in live /\ call.scope \in live /\ links[o] = run.links[o]
  BY <1>4, <1>6, <1>7, LangStep DEF Of
<1>9. PICK next : next = ScopeFrame(call.scope, run.links[o].next)
  OBVIOUS
<1>10. PICK inner : inner = ScopeFrame(o, run.links[o].childs)
  OBVIOUS
<1>11. PICK loop : loop = FreeList(run.links[o].symbols)
  OBVIOUS
<1>12. /\ stack' = Append(calls, next) \o <<inner, loop>>
       /\ links' = links /\ root' = root /\ live' = live /\ status' = status
  <2>1. {Top.scope, Top.at} \subseteq live
    BY <1>3, <1>5, <1>8
  <2>2. FreeScope(Top.at) = inner /\ FreeList(links[Top.at].symbols) = loop
    BY <1>3, <1>5, <1>8, <1>10, <1>11 DEF FreeScope, ScopeFrame
  <2>3. [Top EXCEPT !.at = links[Top.at].next] = next
    <3>1. PICK scope : scope = call.scope
      OBVIOUS
    <3>2. PICK after : after = run.links[o].next
      OBVIOUS
    <3>3. call = [fn |-> "scope", scope |-> scope, at |-> o]
      BY <3>1, <1>6 DEF ScopeFrame
    <3>4. [call EXCEPT !.at = after] = [fn |-> "scope", scope |-> scope, at |-> after]
      BY <3>3
    <3> QED BY <3>1, <3>2, <3>4, <1>3, <1>5, <1>8, <1>9 DEF ScopeFrame
  <2> QED BY <2>1, <2>2, <2>3, <1>2 DEF FreeChildScope
<1>13. run.links[o].next \in Of(run, {"scope"}) \cup {None}
  BY <1>4, <1>6, ScopePointers
<1>14. /\ next \in FreeFrames(run) /\ next.fn = "scope" /\ next.scope = call.scope
       /\ next.at = run.links[o].next
  BY <1>4, <1>6, <1>9, <1>13, NewFreeFrames
<1>15. /\ Taken(next) = Taken(call) /\ Holds(run, next) = {run.links[o].next} \ {None}
       /\ next.fn = call.fn /\ next.fn # "list"
  BY <1>4, <1>6, <1>14, FreeFrameHas
<1>a. HoldsOnly(run, call, o) /\ HoldsOnly(run, next, run.links[o].next)
  BY <1>6, <1>15 DEF HoldsOnly
<1>16. stack' = Append(Append(Append(calls, next), inner), loop)
  <2>1. PICK outer : outer = Append(calls, next)
    OBVIOUS
  <2>2. outer \in Seq(FreeFrames(run))
    BY <2>1, <1>4, <1>14
  <2>3. outer \o <<inner, loop>> = Append(Append(outer, inner), loop)
    BY <2>2
  <2> QED BY <2>1, <2>3, <1>12
<1>17. FreeingLang'
  <2>1. /\ FreeingLang /\ run \in Runs /\ calls \in Seq(FreeFrames(run)) /\ call \in FreeFrames(run)
        /\ stack = Append(calls, call) /\ o \in Of(run, {"scope"}) /\ o # None
        /\ next \in FreeFrames(run) /\ next.fn = call.fn /\ next.fn # "list"
        /\ Taken(next) = Taken(call)
    BY <1>4, <1>6, <1>14, <1>15
  <2>2. run' = run /\ pc' = pc /\ links' = links /\ root' = root /\ live' = live
    BY <1>1, <1>12
  <2> QED BY <2>1, <2>2, <1>a, <1>10, <1>11, <1>16, ScopeCalled
<1> QED BY <1>1, <1>4, <1>12, <1>17 DEF DriverInv

\* lang itself is last.
LEMMA FreeLangItselfKeeps == DriverInv /\ FreeLangItself => DriverInv'
<1> SUFFICES ASSUME DriverInv, FreeLangItself PROVE DriverInv'
  OBVIOUS
<1>1. /\ In("lang") /\ ~Top.types /\ live' = live \ {The("lang")} /\ stack' = <<>>
      /\ run' = run /\ links' = links /\ root' = root /\ pc' = pc /\ status' = status
  BY DEF FreeLangItself
<1>2. PICK calls : calls = Front(stack)
  OBVIOUS
<1>3. PICK call : call = Top
  OBVIOUS
<1>4. /\ FreeingLang /\ run \in Runs /\ status = "running" /\ call.fn = "lang"
      /\ calls \in Seq(FreeFrames(run)) /\ call \in FreeFrames(run)
      /\ stack = Append(calls, call)
  BY <1>1, <1>2, <1>3, InLang
<1>5. Taken(call) = {} /\ Holds(run, call) = {}
  BY <1>1, <1>3, <1>4, FreeFrameHas
<1>6. calls = <<>> /\ LangCalls(run, calls)
  <2>1. LangCalls(run, Append(calls, call))
    BY <1>4 DEF FreeingLang
  <2> QED BY <2>1, <1>4, PushLangCall
<1>7. Owning(run, live \ Taken(call), calls, {})
  <2>1. Owning(run, live, Append(calls, call), {})
    BY <1>4 DEF FreeingLang
  <2> QED BY <2>1, <1>4, <1>5, CallReturns
<1>8. Owning(run, live, stack', {}) /\ LangCalls(run, stack')
  <2>1. live \ {} = live
    OBVIOUS
  <2> QED BY <2>1, <1>1, <1>5, <1>6, <1>7
<1>9. \A o \in DOMAIN run.links : o # The("lang")
  BY <1>4, Kinds
<1>10. EnteredIn(stack') = {} /\ EnteredIn(stack) = {}
  <2>1. EnteredIn(stack) = EnteredIn(calls) \cup Taken(call)
    BY <1>4, PushEntered
  <2> QED BY <2>1, <1>1, <1>5, <1>6, NoCalls
<1>11. /\ WaitingIn(run, live \ {The("lang")}, stack') = WaitingIn(run, live, stack')
       /\ WaitingIn(run, live, stack') = WaitingIn(run, live, stack)
  BY <1>9, <1>10 DEF WaitingIn
<1>12. Owning(run, live', stack', {})
  BY <1>1, <1>8, <1>10, <1>11 DEF Owning
<1>13. Links'
  BY <1>1, <1>4, <1>11 DEF Links, FreeingLang
<1>14. Rest'
  <2>1. The("generator") # The("lang")
    BY DEF The
  <2>2. pc = "return" /\ Rest
    BY <1>4 DEF FreeingLang
  <2> QED BY <2>1, <2>2, <1>1, <1>9 DEF Rest, Of
<1>15. FreeingLang'
  BY <1>1, <1>4, <1>8, <1>12, <1>13, <1>14 DEF FreeingLang
<1> QED BY <1>1, <1>4, <1>15 DEF DriverInv

-----------------------------------------------------------------------------
(* The theorems.                                                           *)

\* Every step of main and of what it calls keeps the invariant.
LEMMA NextKeeps == DriverInv /\ [Next]_vars => DriverInv'
<1> SUFFICES ASSUME DriverInv, [Next]_vars PROVE DriverInv'
  OBVIOUS
<1>1. status \in {"running", "done", "exit"} /\ (status = "done" => pc = "return" /\ stack = <<>>)
  BY DEF DriverInv
<1>2. CASE Exit
  BY <1>1, <1>2, StatusKeeps DEF Exit
<1>3. CASE Return
  BY <1>1, <1>3, StatusKeeps DEF Return, At
<1>4. CASE Over
  BY <1>1, <1>4, StatusKeeps DEF Over, vars
<1>5. CASE UNCHANGED vars
  BY <1>1, <1>5, StatusKeeps DEF vars
<1>6. CASE \/ get_dgen_language \/ read_file \/ lexer_analyze \/ parser_analyze \/ Release
           \/ sem_validate_node \/ generator_generate
  BY <1>6, GetLanguageKeeps, ReadFileKeeps, LexerKeeps, ParserKeeps, ReleaseKeeps,
     ValidateKeeps, GenerateKeeps
<1>7. CASE FreeAst \/ FreeChild \/ FreeNodeItself
  BY <1>7, FreeAstKeeps, FreeChildKeeps, FreeNodeItselfKeeps
<1>8. CASE \/ FreeLang \/ FreeElement \/ FreeListEnd \/ FreeRootScope \/ FreeChildScope
           \/ FreeScopeItself \/ FreeLangItself
  BY <1>8, FreeLangKeeps, FreeElementKeeps, FreeListEndKeeps, FreeRootScopeKeeps,
     FreeChildScopeKeeps, FreeScopeItselfKeeps, FreeLangItselfKeeps
<1> QED BY <1>2, <1>3, <1>4, <1>5, <1>6, <1>7, <1>8 DEF Next

\* In every state of a run the invariant holds.
THEOREM Invariance == Spec => []DriverInv
<1> QED BY InitBuilds, NextKeeps, PTL DEF Spec

\* What is there while main frees, by the calls under way.
LEMMA FreeingHas ==
  ASSUME DriverInv, ~Building
  PROVE  /\ run \in Runs /\ Rest /\ Links /\ DOMAIN links = DOMAIN run.links
         /\ EnteredIn(stack) \subseteq live
         /\ HeldIn(run, stack) \subseteq live
         /\ WaitingIn(run, live, stack) \subseteq live
         /\ \A s \in Slots(run.links) : s[1] \in WaitingIn(run, live, stack) =>
              Target(run.links, s) \in WaitingIn(run, live, stack) \cup {None}
<1>1. run \in Runs /\ Rest /\ Links /\ DOMAIN links = DOMAIN run.links
  BY DEF DriverInv, FreeingAst, FreeingLang, Links
<1>2. \E ofMain : Owning(run, live, stack, ofMain)
  BY DEF DriverInv, FreeingAst, FreeingLang
<1>3. PICK ofMain : Owning(run, live, stack, ofMain)
  BY <1>2
<1>4. /\ HeldIn(run, stack) \cup ofMain \subseteq WaitingIn(run, live, stack)
      /\ WaitingIn(run, live, stack) \subseteq live
  BY <1>1, <1>3, HeldWait
<1>5. EnteredIn(stack) \subseteq live
  BY <1>3 DEF Owning
<1>6. \A s \in Slots(run.links) : s[1] \in WaitingIn(run, live, stack) =>
        Target(run.links, s) \in WaitingIn(run, live, stack) \cup {None}
  BY <1>3 DEF Owning, Closed
<1> QED BY <1>1, <1>4, <1>5, <1>6

\* No call of a run reads or frees what is freed: main, parser_free_ast, lang_free
\* and lang_free_scope.
THEOREM NoUseAfterFree == Spec => []UsesLive
<1>1. DriverInv => UsesLive
  BY DEF DriverInv, UsesLive
<1> QED BY <1>1, Invariance, PTL

\* The variables have their types, and the calls of the free functions have the
\* objects they take apart.
THEOREM TypeCorrect == Spec => []TypeOK
<1>1. ASSUME DriverInv PROVE TypeOK
  <2>1. run \in Runs /\ status \in {"running", "done", "exit", "fault"}
    BY <1>1 DEF DriverInv
  <2>2. CASE Building
    <3>1. live \subseteq DOMAIN links \cup {The("lang"), The("source"), The("tokens"), The("parser"), The("generator")}
      BY <2>2, <1>1, Parts DEF Building, Before, Calls
    <3>2. DOMAIN stack = {}
      BY <2>2 DEF Building
    <3>3. root \in {None, run.ast}
      BY <2>2 DEF Building
    <3> QED BY <3>1, <3>2, <3>3, <2>1 DEF TypeOK
  <2>3. CASE ~Building
    <3>1. /\ Rest /\ DOMAIN links = DOMAIN run.links /\ EnteredIn(stack) \subseteq live
      BY <2>3, <1>1, FreeingHas
    <3>2. live \subseteq DOMAIN links \cup {The("lang"), The("source"), The("tokens"), The("parser"), The("generator")}
      BY <3>1 DEF Rest
    <3>3. root \in {None, run.ast}
      BY <2>3, <1>1 DEF DriverInv, FreeingAst, FreeingLang
    <3>4. ASSUME NEW i \in DOMAIN stack
          PROVE  /\ stack[i].fn \in {"node", "list", "scope", "lang"}
                 /\ stack[i].fn = "node" => stack[i].node \in live
                 /\ stack[i].fn = "scope" => stack[i].scope \in live
                 /\ stack[i].fn = "lang" => The("lang") \in live
      <4>1. Taken(stack[i]) \subseteq live
        BY <3>1 DEF EnteredIn
      <4>2. stack # <<>>
        <5> SUFFICES ASSUME stack = <<>> PROVE FALSE
          OBVIOUS
        <5>1. DOMAIN stack = {}
          OBVIOUS
        <5> QED BY <5>1
      <4>3. The("lang") \in live
        BY <4>2, <3>1 DEF Rest
      <4>4. stack[i].fn \in {"node", "list", "scope", "lang"}
        <5>1. CASE FreeingAst
          <6>1. stack[i] \in NodeFrames(run)
            BY <5>1 DEF FreeingAst, NodeCalls
          <6> QED BY <6>1, <2>1, FrameHas
        <5>2. CASE FreeingLang
          <6>1. stack[i] \in FreeFrames(run)
            BY <5>2 DEF FreeingLang, LangCalls
          <6> QED BY <6>1, <2>1, FreeFrameHas
        <5> QED BY <5>1, <5>2, <2>3, <1>1 DEF DriverInv
      <4> QED BY <4>1, <4>3, <4>4 DEF Taken
    <3> QED BY <3>2, <3>3, <3>4, <2>1 DEF TypeOK
  <2> QED BY <2>2, <2>3
<1> QED BY <1>1, Invariance, PTL

\* The pointers of a node in hand lead to what its call holds, or to the node of
\* the call inside.
LEMMA HandPointers ==
  ASSUME FreeingAst, run \in Runs, HeldIn(run, stack) \subseteq live, EnteredIn(stack) \subseteq live,
         NEW i \in DOMAIN stack, NEW f \in ToSet(Fields(run.links[stack[i].node].type))
  PROVE  links[stack[i].node][f] \in live \cup {None}
<1>1. NodeCalls(run, stack) /\ FieldsOf(run, links, stack)
  BY DEF FreeingAst
<1>2. stack \in Seq(NodeFrames(run)) /\ stack # <<>> /\ Len(stack) \in Nat /\ DOMAIN stack = 1 .. Len(stack)
  <2>1. stack \in Seq(NodeFrames(run))
    BY <1>1 DEF NodeCalls
  <2> QED BY <2>1
<1>3. stack[i] \in NodeFrames(run) /\ stack[i].fn = "node"
  BY <1>2, FrameHas
<1>4. f \in FieldNames /\ f # "root"
  BY FieldFacts DEF FieldNames
<1>5. ASSUME f \in ToSet(stack[i].left)
      PROVE  run.links[stack[i].node][f] \in live \cup {None}
  <2>1. run.links[stack[i].node][f] \in Holds(run, stack[i]) \cup {None}
    BY <1>3, <1>5 DEF Holds
  <2>2. Holds(run, stack[i]) \subseteq live
    BY DEF HeldIn
  <2> QED BY <2>1, <2>2
<1>6. CASE i = Len(stack)
  <2>1. InHand(run, links, stack[i], "root")
    BY <1>1, <1>2, <1>6 DEF FieldsOf, Last
  <2>2. links[stack[i].node][f] = IF f \in ToSet(stack[i].left) THEN run.links[stack[i].node][f] ELSE None
    BY <2>1, <1>4 DEF InHand
  <2> QED BY <2>2, <1>5
<1>7. CASE i # Len(stack)
  <2>1. i \in 1 .. Len(stack) - 1 /\ i + 1 \in DOMAIN stack /\ i + 1 > 1 /\ (i + 1) - 1 = i
    BY <1>2, <1>7
  <2>2. InHand(run, links, stack[i], stack[i + 1].field)
    BY <2>1, <1>1 DEF FieldsOf, FieldsOutside
  <2>3. Behind(run, stack[(i + 1) - 1], stack[i + 1])
    BY <2>1, <1>1 DEF NodeCalls
  <2>4. run.links[stack[i].node][stack[i + 1].field] = stack[i + 1].node
    BY <2>1, <2>3 DEF Behind
  <2>5. stack[i + 1].node \in live
    <3>1. Taken(stack[i + 1]) = {stack[i + 1].node}
      BY <2>1, <1>2, FrameHas
    <3> QED BY <3>1, <2>1 DEF EnteredIn
  <2>6. links[stack[i].node][f] =
          IF f \in ToSet(stack[i].left) \/ f = stack[i + 1].field
          THEN run.links[stack[i].node][f] ELSE None
    BY <2>2 DEF InHand
  <2> QED BY <2>4, <2>5, <2>6, <1>5
<1> QED BY <1>6, <1>7

\* While the tree is taken apart no pointer in it leads to a freed node.
THEOREM NoneDangles == Spec => []NoDangling
<1>1. ASSUME DriverInv PROVE NoDangling
  <2>1. run \in Runs
    BY <1>1 DEF DriverInv
  <2>2. run.ast \in DOMAIN run.links
    BY <2>1, HeadFacts
  <2>3. CASE Building
    <3> SUFFICES ASSUME pc = "free_ast"
                 PROVE  /\ root \in live \cup {None}
                        /\ \A n \in Kind(live, "node") : \A i \in DOMAIN Children(n) :
                             links[n][Children(n)[i]] \in live \cup {None}
      <4>1. "free_lang" \notin Calls /\ "return" \notin Calls
        BY DEF Calls
      <4> QED BY <4>1, <2>3 DEF NoDangling, Building
    <3>1. links = run.links /\ root = run.ast /\ live = {The("lang"), The("generator")} \cup DOMAIN run.links
      BY <2>3 DEF Building, Before
    <3>2. ASSUME NEW n \in Kind(live, "node"), NEW i \in DOMAIN Children(n)
          PROVE  links[n][Children(n)[i]] \in live \cup {None}
      <4>1. n \in Of(run, {"node"})
        BY <3>1 DEF Kind, Of, The
      <4>2. Children(n)[i] \in ToSet(Fields(run.links[n].type))
        BY <3>1 DEF Children, ToSet
      <4>3. run.links[n][Children(n)[i]] \in Of(run, {"node"}) \cup {None}
        BY <4>1, <4>2, <2>1, NodePointers
      <4> QED BY <4>3, <3>1 DEF Of
    <3> QED BY <3>1, <3>2, <2>2
  <2>4. CASE ~Building
    <3>1. /\ Rest /\ Links /\ EnteredIn(stack) \subseteq live /\ HeldIn(run, stack) \subseteq live
          /\ WaitingIn(run, live, stack) \subseteq live
          /\ \A s \in Slots(run.links) : s[1] \in WaitingIn(run, live, stack) =>
               Target(run.links, s) \in WaitingIn(run, live, stack) \cup {None}
      BY <2>4, <1>1, FreeingHas
    <3>2. FreeingAst \/ FreeingLang
      BY <2>4, <1>1 DEF DriverInv
    <3>3. root \in live \cup {None}
      <4>1. CASE FreeingAst /\ stack # <<>>
        <5>1. root = run.ast /\ NodeCalls(run, stack)
          BY <4>1 DEF FreeingAst
        <5>2. 1 \in DOMAIN stack /\ stack[1] \in NodeFrames(run)
          BY <5>1, <4>1 DEF NodeCalls
        <5>3. stack[1].node = run.ast
          BY <5>1, <5>2 DEF NodeCalls
        <5>4. Taken(stack[1]) = {run.ast}
          BY <5>2, <5>3, <2>1, FrameHas
        <5> QED BY <5>1, <5>2, <5>4, <3>1 DEF EnteredIn
      <4>2. CASE FreeingAst /\ stack = <<>>
        BY <4>2 DEF FreeingAst
      <4>3. CASE FreeingLang
        BY <4>3 DEF FreeingLang
      <4> QED BY <4>1, <4>2, <4>3, <3>2
    <3>4. ASSUME NEW n \in Kind(live, "node"), NEW i \in DOMAIN Children(n)
          PROVE  links[n][Children(n)[i]] \in live \cup {None}
      <4>1. n \in live /\ n[1] = "node"
        BY DEF Kind
      <4>2. n \in DOMAIN run.links
        <5>1. The("lang")[1] # "node" /\ The("generator")[1] # "node"
          BY DEF The
        <5> QED BY <5>1, <4>1, <3>1 DEF Rest
      <4>3. PICK f : f = Children(n)[i]
        OBVIOUS
      <4>4. f \in ToSet(Fields(run.links[n].type))
        <5>1. Children(n) = Fields(run.links[n].type)
          BY <4>1, <4>2, <3>1 DEF Children, Links
        <5> QED BY <5>1, <4>3 DEF ToSet
      <4>5. CASE n \in WaitingIn(run, live, stack)
        <5>1. links[n] = run.links[n]
          BY <4>2, <4>5, <3>1 DEF Links
        <5>2. <<n, f>> \in Slots(run.links)
          BY <4>1, <4>2, <4>4, NodeSlots
        <5>3. Target(run.links, <<n, f>>) = run.links[n][f] /\ <<n, f>>[1] = n
          BY DEF Target
        <5>4. run.links[n][f] \in WaitingIn(run, live, stack) \cup {None}
          BY <5>2, <5>3, <4>5, <3>1
        <5> QED BY <5>1, <5>4, <4>3, <3>1
      <4>6. CASE n \notin WaitingIn(run, live, stack)
        <5>1. n \in EnteredIn(stack)
          BY <4>1, <4>2, <4>6 DEF WaitingIn
        <5>2. PICK j \in DOMAIN stack : n \in Taken(stack[j])
          BY <5>1 DEF EnteredIn
        <5>3. ~FreeingLang
          <6> SUFFICES ASSUME FreeingLang PROVE FALSE
            OBVIOUS
          <6>1. stack[j] \in FreeFrames(run)
            BY <5>2 DEF FreeingLang, LangCalls
          <6>2. n \in Of(run, {"scope"})
            BY <6>1, <5>2, <2>1, FreeFrameHas
          <6> QED BY <6>2, <4>1 DEF Of
        <5>4. FreeingAst
          BY <5>3, <3>2
        <5>5. stack[j] \in NodeFrames(run)
          BY <5>2, <5>4 DEF FreeingAst, NodeCalls
        <5>6. stack[j].node = n
          BY <5>2, <5>5, <2>1, FrameHas
        <5>7. links[stack[j].node][f] \in live \cup {None}
          BY <5>2, <5>4, <5>6, <4>4, <3>1, <2>1, HandPointers
        <5> QED BY <5>6, <5>7, <4>3
      <4> QED BY <4>5, <4>6
    <3> QED BY <3>3, <3>4 DEF NoDangling
  <2> QED BY <2>3, <2>4
<1> QED BY <1>1, Invariance, PTL

\* A run that ends has freed the tree, the types, the scopes and their symbols, all
\* of them; what is lost is the generator and the fields of the structs.
THEOREM AllElseFreed == Spec => []OnlyFieldsAreLost
<1>1. ASSUME DriverInv, status = "done"
      PROVE  live = {The("generator")} \cup Kind(DOMAIN links, "field") /\ root = None
  <2>1. run \in Runs /\ pc = "return" /\ stack = <<>>
    BY <1>1 DEF DriverInv
  <2>2. FreeingLang
    <3>1. "return" \notin Calls
      BY DEF Calls
    <3> QED BY <3>1, <2>1, <1>1 DEF DriverInv, Building, FreeingAst
  <2>3. /\ root = None /\ Rest /\ Links
        /\ Closed(run.links, WaitingIn(run, live, stack), HeldIn(run, stack) \cup {})
    BY <2>2 DEF FreeingLang, Owning
  <2>4. EnteredIn(stack) = {} /\ HeldIn(run, stack) = {}
    BY <2>1, NoCalls
  <2>5. Closed(run.links, WaitingIn(run, live, stack), {})
    BY <2>3, <2>4
  <2>6. WaitingIn(run, live, stack) = {}
    <3>1. WaitingIn(run, live, stack) \subseteq DOMAIN run.links
      BY DEF WaitingIn
    <3> QED BY <3>1, <2>1, <2>5, Finished
  <2>7. \A o \in live \cap DOMAIN run.links : o[1] = "field"
    BY <2>4, <2>6 DEF WaitingIn
  <2>8. /\ live \subseteq DOMAIN run.links \cup {The("lang"), The("generator")}
        /\ The("generator") \in live /\ Of(run, {"field"}) \subseteq live /\ The("lang") \notin live
    BY <2>1, <2>3 DEF Rest
  <2>9. DOMAIN links = DOMAIN run.links
    BY <2>3 DEF Links
  <2> QED BY <2>3, <2>7, <2>8, <2>9 DEF Kind, Of
<1>2. DriverInv => OnlyFieldsAreLost
  BY <1>1 DEF OnlyFieldsAreLost
<1> QED BY <1>2, Invariance, PTL

=============================================================================
