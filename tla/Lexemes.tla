------------------------------- MODULE Lexemes -------------------------------
(***************************************************************************)
(* What the lexer promises, without its state machine: the text is cut     *)
(* into lexemes from left to right, each taken whole in one step and as    *)
(* long as it can be.  Lexer is shown to implement this module.            *)
(***************************************************************************)

EXTENDS Naturals, Sequences

CONSTANTS Letters, Digits, OperatorChars, PunctuationKind, OperatorNames,
          KeywordNames, Whitespace, Newline, Quote, Other, Sources

VARIABLES
  source,   \* the text
  at,       \* where the rest of the text, not yet cut, starts
  tokens,   \* the tokens found: kind, text and the first and last character
  status    \* "running", "done" or "exit"

vars == <<source, at, tokens, status>>

Span(lo, hi) == [i \in 1 .. hi - lo + 1 |-> source[lo + i - 1]]

All(lo, hi, set) == \A i \in lo .. hi : source[i] \in set

Word == Letters \cup Digits

\* A run of characters of the set that the text continues behind with another
\* character: a run that ends with the text is not cut off but lost.
Run(lo, hi, set) == hi < Len(source) /\ All(lo, hi, set) /\ source[hi + 1] \notin set

OpensComment(lo) ==
  lo < Len(source) /\ source[lo] = "/" /\ source[lo + 1] \in {"/", "*"}

\* The stars in front of a slash are read in pairs, so the slash closes the
\* comment only behind an odd number of them.
ClosesComment(lo, hi) ==
  /\ source[hi] = "/"
  /\ \E stars \in 1 .. hi - lo - 2 :
       /\ stars % 2 = 1
       /\ All(hi - stars, hi - 1, {"*"})
       /\ hi - stars - 1 > lo + 1 => source[hi - stars - 1] # "*"

\* The comment that starts at lo ends at hi; a line comment ends in front of
\* the newline.
Comment(lo, hi) ==
  /\ OpensComment(lo)
  /\ IF source[lo + 1] = "/"
     THEN /\ \A i \in lo .. hi : source[i] # Newline
          /\ hi < Len(source) /\ source[hi + 1] = Newline
     ELSE /\ ClosesComment(lo, hi)
          /\ \A i \in lo + 2 .. hi - 1 : ~ClosesComment(lo, i)

\* The kind of the lexeme that takes lo..hi.
IsString(lo, hi) == /\ source[lo] = Quote /\ hi > lo /\ source[hi] = Quote
                    /\ \A i \in lo + 1 .. hi - 1 : source[i] # Quote
IsNumber(lo, hi) == Run(lo, hi, Digits) /\ source[hi + 1] \notin Letters
IsOperator(lo, hi) == ~OpensComment(lo) /\ Run(lo, hi, OperatorChars)
IsName(lo, hi) == /\ source[lo] \in Letters \cup {Other}
                  /\ All(lo + 1, hi, Word)
                  /\ hi < Len(source) /\ source[hi + 1] \notin Word
IsPunctuation(lo, hi) == lo = hi /\ source[lo] \in DOMAIN PunctuationKind

Lexeme(lo, hi) ==
  \/ IsString(lo, hi) \/ IsNumber(lo, hi) \/ IsOperator(lo, hi)
  \/ IsName(lo, hi) \/ IsPunctuation(lo, hi)

Kind(lo, hi) ==
  IF IsString(lo, hi) THEN "LITERAL_STRING"
  ELSE IF IsNumber(lo, hi) THEN "LITERAL_NUMERIC"
  ELSE IF IsPunctuation(lo, hi) THEN PunctuationKind[source[lo]]
  ELSE IF Span(lo, hi) \in KeywordNames THEN "KEYWORD"
  ELSE IF Span(lo, hi) \in OperatorNames THEN "OPERATOR" ELSE "IDENTIFIER"

Value(lo, hi) == IF IsString(lo, hi) THEN Span(lo + 1, hi - 1) ELSE Span(lo, hi)

-----------------------------------------------------------------------------

Init == source \in Sources /\ at = 1 /\ tokens = <<>> /\ status = "running"

\* White space or a comment is passed over.
Skip ==
  /\ status = "running"
  /\ \E hi \in at .. Len(source) :
       /\ \/ Comment(at, hi)
          \/ hi = at /\ source[at] \in Whitespace
       /\ at' = hi + 1
  /\ UNCHANGED <<source, tokens, status>>

Cut ==
  /\ status = "running"
  /\ \E hi \in at .. Len(source) :
       /\ Lexeme(at, hi)
       /\ IsOperator(at, hi) => Span(at, hi) \in OperatorNames
       /\ tokens' = Append(tokens, [kind |-> Kind(at, hi), text |-> Value(at, hi),
                                    from |-> at, to |-> hi])
       /\ at' = hi + 1
  /\ UNCHANGED <<source, status>>

\* A number that runs into a letter, or an operator nobody declared.
Fail ==
  /\ status = "running"
  /\ \E hi \in at .. Len(source) :
       \/ Run(at, hi, Digits) /\ source[hi + 1] \in Letters
       \/ IsOperator(at, hi) /\ Span(at, hi) \notin OperatorNames
  /\ status' = "exit"
  /\ UNCHANGED <<source, at, tokens>>

\* Nothing else can be cut off: the rest is white space already passed, or a
\* comment, a string, a word or an operator the text ends in.
Finish ==
  /\ status = "running"
  /\ \/ at = Len(source) + 1
     \/ /\ at <= Len(source) /\ source[at] \notin Whitespace
        /\ \A hi \in at .. Len(source) : ~Lexeme(at, hi) /\ ~Comment(at, hi)
        /\ ~\E hi \in at .. Len(source) - 1 : Run(at, hi, Digits)
  /\ status' = "done"
  /\ UNCHANGED <<source, at, tokens>>

Next == Skip \/ Cut \/ Fail \/ Finish

Spec == Init /\ [][Next]_vars

=============================================================================
