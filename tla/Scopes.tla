------------------------------- MODULE Scopes -------------------------------
(***************************************************************************)
(* The scopes and symbols of a language_t (src/src/lang.c).  Scopes are    *)
(* numbered in the order of their creation, the global scope of            *)
(* lang_create is 1, and 0 is NULL.  Symbols and children are inserted at  *)
(* the front of their lists.                                               *)
(*                                                                         *)
(* lang_find_symbol moves lang->current up, calls itself and puts current  *)
(* back: it is modelled call by call, with the values to put back in       *)
(* search.saved, the outermost call first.                                 *)
(***************************************************************************)

EXTENDS Naturals, Sequences, SequencesExt

VARIABLES
  scopes,   \* the scopes created so far: parent, symbols and children
  current,  \* lang->current
  search    \* the call of lang_find_symbol under way, and then its answer

NewScope(parent) == [parent |-> parent, symbols |-> <<>>, childs |-> <<>>]

Symbol(name, kind, type) == [name |-> name, kind |-> kind, type |-> type]
NoSymbol == Symbol("", "none", "")

\* Operators named Slip... are variants of the definition after them with one
\* plausible mistake in it; no behaviour of the specification uses them.

\* The scope is not linked to its parent.
SlipWithScopeOrphan(scs, at) ==
  Append([scs EXCEPT ![at].childs = <<Len(scs) + 1>> \o @], NewScope(0))

\* The parent forgets the children it has.
SlipWithScopeReplaces(scs, at) ==
  Append([scs EXCEPT ![at].childs = <<Len(scs) + 1>>], NewScope(at))

\* lang_scope_enter: a scope inside the scope at; it becomes the current one.
WithScope(scs, at) ==
  Append([scs EXCEPT ![at].childs = <<Len(scs) + 1>> \o @], NewScope(at))

WithSymbol(scs, at, symbol) == [scs EXCEPT ![at].symbols = <<symbol>> \o @]

\* lang_scope_leave: the global scope is never left.
Outside(at) == IF scopes[at].parent = 0 THEN at ELSE scopes[at].parent

Idle == [phase |-> "idle", name |-> "", symbol |-> NoSymbol, saved |-> <<>>]

\* lang_create
ScopesInit ==
  /\ scopes = <<NewScope(0)>>
  /\ current = 1
  /\ search = Idle

-----------------------------------------------------------------------------
(* lang_find_symbol.                                                       *)

Seek(name) ==
  /\ search.phase = "idle"
  /\ search' = [Idle EXCEPT !.phase = "down", !.name = name]

Matches == {i \in DOMAIN scopes[current].symbols :
              scopes[current].symbols[i].name = search.name}

LookHere ==
  /\ search.phase = "down"
  /\ \E i \in Matches :
       /\ \A j \in Matches : i <= j
       /\ search' = [search EXCEPT !.phase = "up", !.symbol = scopes[current].symbols[i]]
  /\ UNCHANGED <<scopes, current>>

\* The search goes on in the scope created last before this one.
SlipLookOutsideLatest ==
  /\ search.phase = "down" /\ Matches = {} /\ scopes[current].parent # 0
  /\ search' = [search EXCEPT !.saved = Append(@, current)]
  /\ current' = current - 1
  /\ UNCHANGED scopes

LookOutside ==
  /\ search.phase = "down" /\ Matches = {} /\ scopes[current].parent # 0
  /\ search' = [search EXCEPT !.saved = Append(@, current)]
  /\ current' = scopes[current].parent
  /\ UNCHANGED scopes

NotThere ==
  /\ search.phase = "down" /\ Matches = {} /\ scopes[current].parent = 0
  /\ search' = [search EXCEPT !.phase = "up"]
  /\ UNCHANGED <<scopes, current>>

\* An answer is passed on without putting the current scope back.
SlipPutBackNothing ==
  /\ search.phase = "up" /\ search.saved # <<>>
  /\ search' = [search EXCEPT !.saved = Front(@)]
  /\ UNCHANGED <<scopes, current>>

PutBack ==
  /\ search.phase = "up" /\ search.saved # <<>>
  /\ current' = Last(search.saved)
  /\ search' = [search EXCEPT !.saved = Front(@)]
  /\ UNCHANGED scopes

Lookup == LookHere \/ LookOutside \/ NotThere \/ PutBack

\* The outermost call has returned search.symbol, which is NoSymbol for NULL.
Answered == search.phase = "up" /\ search.saved = <<>>
Missing == search.symbol = NoSymbol

\* The scope that is current when no search has moved it.
Home == IF search.saved = <<>> THEN current ELSE Head(search.saved)

=============================================================================
