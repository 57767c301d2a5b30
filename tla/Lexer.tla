-------------------------------- MODULE Lexer --------------------------------
(***************************************************************************)
(* The lexer (src/src/lexer.c), one call of lexer_analyze: a state machine *)
(* that reads the source character by character, one action per FSM_STATE  *)
(* and outcome.  The ten states that each take one punctuation character   *)
(* are one state here.                                                     *)
(*                                                                         *)
(* The source ends with the NUL of the C string, and the machine runs over *)
(* it: strchr finds NUL in every character set, so NUL is white space, a   *)
(* digit, a letter and an operator character all at once.                  *)
(***************************************************************************)

EXTENDS Naturals, Sequences, FiniteSets

CONSTANTS
  Letters, Digits,          \* IDENTIFIER_DIGITS without and with NUMERIC_DIGITS
  OperatorChars,            \* OPERATORS_DIGITS
  PunctuationKind,          \* the token type of each punctuation character
  OperatorNames,            \* the names in lang->operators, as sequences
  KeywordNames,             \* the names in lang->keywords
  MaxName,                  \* MAX_NAME_SIZE, the length of token.value
  MaxTokens,                \* TOKEN_LIST_SIZE, the length of list->tokens
  Sources                   \* the texts to read

NUL == "NUL"
Newline == "newline"
Quote == "quote"
Other == "other"             \* a character in none of the sets
Whitespace == {"space", Newline}
Punctuation == DOMAIN PunctuationKind
Text == Letters \cup Digits \cup OperatorChars \cup Punctuation
          \cup Whitespace \cup {Quote, Other}

ASSUME CharsAssumption ==
  /\ NUL \notin Text
  /\ {Quote, Other, Newline, "space"} \cap (Letters \cup Digits \cup OperatorChars \cup Punctuation) = {}
  /\ {"/", "*"} \subseteq OperatorChars
  /\ Letters \cap (Digits \cup OperatorChars \cup Punctuation) = {}
  /\ Digits \cap (OperatorChars \cup Punctuation) = {}
  /\ OperatorChars \cap Punctuation = {}

ASSUME PunctuationAssumption ==
  \A c \in Punctuation :
    PunctuationKind[c] \notin {"UNKNOWN", "END_OF_FILE", "OPERATOR", "KEYWORD", "IDENTIFIER"}

ASSUME NamesAssumption ==
  <<>> \notin OperatorNames /\ OperatorNames \cap KeywordNames = {}

ASSUME LimitsAssumption == MaxName \in Nat \ {0} /\ MaxTokens \in Nat \ {0}

ASSUME SourcesAssumption == Sources \subseteq Seq(Text)

VARIABLES
  source,   \* the text
  cur,      \* the position of the next character
  state,    \* the FSM state
  line,     \* the line the lexer believes cur is on
  token,    \* the token being built; from stands for its line and column
  tokens,   \* list->tokens
  status    \* "running", "done", "exit" or, after a write past an array, "overflow"

vars == <<source, cur, state, line, token, tokens, status>>

End == Len(source) + 2

At(p) == IF p <= Len(source) THEN source[p] ELSE NUL

\* strchr(set, c)
In(c, set) == c \in set \cup {NUL}

LineAfter(c) == IF c = Newline THEN line + 1 ELSE line

\* Operators named Slip... are variants of the definition after them with one
\* plausible mistake in it; no behaviour of the specification uses them.  They
\* show that each property notices the mistake it is there for.

Init ==
  /\ source \in Sources
  /\ cur = 1
  /\ state = "NEW_TOKEN"
  /\ line = 1
  /\ token = [kind |-> "UNKNOWN", text |-> <<>>, from |-> 1, line |-> 1]
  /\ tokens = <<>>
  /\ status = "running"

-----------------------------------------------------------------------------
(* One iteration of the loop, by state.                                    *)

Running(s) == status = "running" /\ cur < End /\ state = s

\* *tok++ = *cur++: the character goes to the value, if there is room for it
\* and the zero bytes behind it.
Take(zeros) ==
  /\ token' = [token EXCEPT !.text = Append(@, At(cur))]
  /\ cur' = cur + 1
  /\ status' = IF Len(token'.text) + zeros > MaxName THEN "overflow" ELSE "running"

Goto(s) == state' = s

Fresh == [kind |-> "UNKNOWN", text |-> <<>>, from |-> cur, line |-> line]

\* A token starts.  White space is skipped; a slash starts a comment if the
\* next character makes it one; whatever no set contains starts an identifier.
NewBlank ==
  /\ Running("NEW_TOKEN") /\ In(At(cur), Whitespace)
  /\ token' = Fresh
  /\ line' = LineAfter(At(cur))
  /\ cur' = cur + 1
  /\ UNCHANGED <<source, state, tokens, status>>

NewComment ==
  /\ Running("NEW_TOKEN") /\ At(cur) = "/"
  /\ token' = Fresh
  /\ \/ /\ At(cur + 1) = "*"
        /\ cur' = cur + 2 /\ Goto("COMMENT_MULTILINE")
     \/ /\ At(cur + 1) = "/"
        /\ cur' = cur + 1 /\ Goto("COMMENT_SINGLELINE")
  /\ UNCHANGED <<source, line, tokens, status>>

NewString ==
  /\ Running("NEW_TOKEN") /\ At(cur) = Quote
  /\ token' = Fresh
  /\ cur' = cur + 1 /\ Goto("STRING_LITERAL")
  /\ UNCHANGED <<source, line, tokens, status>>

NewOther ==
  /\ Running("NEW_TOKEN")
  /\ At(cur) \in OperatorChars \cup Punctuation
  /\ At(cur) = "/" => At(cur + 1) \notin {"*", "/"}
  /\ token' = Fresh
  /\ Goto(IF At(cur) \in OperatorChars THEN "OPERATOR" ELSE "PUNCTUATION")
  /\ UNCHANGED <<source, cur, line, tokens, status>>

NewWord ==
  /\ Running("NEW_TOKEN") /\ At(cur) \in Digits \cup Letters \cup {Other}
  /\ token' = [Fresh EXCEPT !.text = <<At(cur)>>]
  /\ cur' = cur + 1
  /\ Goto(IF At(cur) \in Digits THEN "NUMERIC_LITERAL" ELSE "IDENTIFIER")
  /\ UNCHANGED <<source, line, tokens, status>>

\* A string runs to the next quote; a newline in it is not counted.
StringChar ==
  /\ Running("STRING_LITERAL") /\ At(cur) # Quote
  /\ Take(0)
  /\ UNCHANGED <<source, state, line, tokens>>

StringEnd ==
  /\ Running("STRING_LITERAL") /\ At(cur) = Quote
  /\ token' = [token EXCEPT !.kind = "LITERAL_STRING"]
  /\ cur' = cur + 1 /\ Goto("COMPLETE_TOKEN")
  /\ UNCHANGED <<source, line, tokens, status>>

NumberChar ==
  /\ Running("NUMERIC_LITERAL") /\ In(At(cur), Digits)
  /\ Take(0)
  /\ UNCHANGED <<source, state, line, tokens>>

NumberEnd ==
  /\ Running("NUMERIC_LITERAL") /\ ~In(At(cur), Digits)
  /\ IF In(At(cur), Letters)
       THEN status' = "exit" /\ UNCHANGED <<token, state>>
       ELSE /\ token' = [token EXCEPT !.kind = "LITERAL_NUMERIC"]
            /\ Goto("COMPLETE_TOKEN") /\ UNCHANGED status
  /\ UNCHANGED <<source, cur, line, tokens>>

\* The longer name is built but the shorter one is looked up again, so op_next
\* is op and an operator character is always added to the value.
OperatorChar ==
  /\ Running("OPERATOR") /\ In(At(cur), OperatorChars)
  /\ LET op == token.text \in OperatorNames
         op_next == token.text \in OperatorNames
     IN IF op_next \/ ~op
        THEN Take(1) /\ UNCHANGED state
        ELSE /\ token' = [token EXCEPT !.kind = "OPERATOR"]
             /\ Goto("COMPLETE_TOKEN") /\ UNCHANGED <<cur, status>>
  /\ UNCHANGED <<source, line, tokens>>

\* The name is not looked up when the operator ends.
SlipOperatorUnchecked ==
  /\ Running("OPERATOR") /\ ~In(At(cur), OperatorChars)
  /\ token' = [token EXCEPT !.kind = "OPERATOR"]
  /\ Goto("COMPLETE_TOKEN")
  /\ UNCHANGED <<source, cur, line, tokens, status>>

OperatorEnd ==
  /\ Running("OPERATOR") /\ ~In(At(cur), OperatorChars)
  /\ IF token.text \in OperatorNames
       THEN /\ token' = [token EXCEPT !.kind = "OPERATOR"]
            /\ Goto("COMPLETE_TOKEN") /\ UNCHANGED status
       ELSE status' = "exit" /\ UNCHANGED <<token, state>>
  /\ UNCHANGED <<source, cur, line, tokens>>

\* The character is copied and cur is not moved.
SlipPunctuationStays ==
  /\ Running("PUNCTUATION")
  /\ token' = [token EXCEPT !.text = Append(@, At(cur)), !.kind = PunctuationKind[At(cur)]]
  /\ Goto("COMPLETE_TOKEN")
  /\ UNCHANGED <<source, cur, line, tokens, status>>

PunctuationChar ==
  /\ Running("PUNCTUATION")
  /\ token' = [token EXCEPT !.text = Append(@, At(cur)), !.kind = PunctuationKind[At(cur)]]
  /\ cur' = cur + 1 /\ Goto("COMPLETE_TOKEN")
  /\ UNCHANGED <<source, line, tokens, status>>

\* The newline is taken with the comment, uncounted; the comment never moves on.
SlipCommentLineTakesNewline ==
  /\ Running("COMMENT_SINGLELINE")
  /\ Goto(IF At(cur) = Newline THEN "NEW_TOKEN" ELSE state)
  /\ cur' = cur + 1
  /\ UNCHANGED <<source, line, token, tokens, status>>

SlipCommentLineStays ==
  /\ Running("COMMENT_SINGLELINE")
  /\ Goto(IF At(cur) = Newline THEN "NEW_TOKEN" ELSE state)
  /\ UNCHANGED <<source, cur, line, token, tokens, status>>

CommentLine ==
  /\ Running("COMMENT_SINGLELINE")
  /\ IF At(cur) = Newline THEN Goto("NEW_TOKEN") /\ UNCHANGED cur
                          ELSE cur' = cur + 1 /\ UNCHANGED state
  /\ UNCHANGED <<source, line, token, tokens, status>>

CommentBlock ==
  /\ Running("COMMENT_MULTILINE")
  /\ Goto(IF At(cur) = "*" THEN "COMMENT_MULTILINE_END" ELSE "COMMENT_MULTILINE")
  /\ line' = LineAfter(At(cur))
  /\ cur' = cur + 1
  /\ UNCHANGED <<source, token, tokens, status>>

\* Another character than a slash is read again; a character too many is taken.
SlipCommentStarRereads ==
  /\ Running("COMMENT_MULTILINE_END")
  /\ Goto(IF At(cur) = "/" THEN "NEW_TOKEN" ELSE "COMMENT_MULTILINE")
  /\ cur' = IF At(cur) = "/" THEN cur + 1 ELSE cur
  /\ UNCHANGED <<source, line, token, tokens, status>>

SlipCommentStarTakesTwo ==
  /\ Running("COMMENT_MULTILINE_END")
  /\ Goto(IF At(cur) = "/" THEN "NEW_TOKEN" ELSE "COMMENT_MULTILINE")
  /\ cur' = cur + 2
  /\ UNCHANGED <<source, line, token, tokens, status>>

\* The character behind a star is consumed whatever it is, uncounted.
CommentStar ==
  /\ Running("COMMENT_MULTILINE_END")
  /\ Goto(IF At(cur) = "/" THEN "NEW_TOKEN" ELSE "COMMENT_MULTILINE")
  /\ cur' = cur + 1
  /\ UNCHANGED <<source, line, token, tokens, status>>

IdentifierChar ==
  /\ Running("IDENTIFIER") /\ In(At(cur), Letters \cup Digits)
  /\ Take(1)
  /\ UNCHANGED <<source, state, line, tokens>>

IdentifierEnd ==
  /\ Running("IDENTIFIER") /\ ~In(At(cur), Letters \cup Digits)
  /\ token' = [token EXCEPT !.kind = IF token.text \in KeywordNames THEN "KEYWORD"
                                     ELSE IF token.text \in OperatorNames THEN "OPERATOR"
                                     ELSE "IDENTIFIER"]
  /\ Goto("COMPLETE_TOKEN")
  /\ UNCHANGED <<source, cur, line, tokens, status>>

\* The token is copied to the list, if there is room, and its value cleared.
Emit(kind) ==
  /\ tokens' = Append(tokens, [kind |-> kind, text |-> token.text, from |-> token.from,
                               to |-> cur - 1, line |-> token.line])
  /\ token' = [token EXCEPT !.text = <<>>]

Overruns == Len(token.text) >= MaxName \/ Len(tokens) >= MaxTokens

Complete ==
  /\ Running("COMPLETE_TOKEN")
  /\ Emit(token.kind)
  /\ Goto("NEW_TOKEN")
  /\ status' = IF Overruns THEN "overflow" ELSE "running"
  /\ UNCHANGED <<source, cur, line>>

\* The last token keeps the kind it had.
SlipEndOfFileUntyped ==
  /\ status = "running" /\ cur = End
  /\ Emit(token.kind)
  /\ status' = IF Overruns THEN "overflow" ELSE "done"
  /\ UNCHANGED <<source, cur, state, line>>

\* The text is used up, whatever state it leaves the machine in: the token
\* being built becomes the end of file.
EndOfFile ==
  /\ status = "running" /\ cur = End
  /\ Emit("END_OF_FILE")
  /\ status' = IF Overruns THEN "overflow" ELSE "done"
  /\ UNCHANGED <<source, cur, state, line>>

Over == status # "running" /\ UNCHANGED vars

Next ==
  \/ NewBlank \/ NewComment \/ NewString \/ NewOther \/ NewWord
  \/ StringChar \/ StringEnd \/ NumberChar \/ NumberEnd
  \/ OperatorChar \/ OperatorEnd \/ PunctuationChar
  \/ CommentLine \/ CommentBlock \/ CommentStar
  \/ IdentifierChar \/ IdentifierEnd \/ Complete \/ EndOfFile \/ Over

Spec == Init /\ [][Next]_vars

\* One thread, which runs until it is done.
FairSpec == Spec /\ WF_vars(Next)

-----------------------------------------------------------------------------
(* What is expected of a call.                                             *)

States == {"NEW_TOKEN", "STRING_LITERAL", "NUMERIC_LITERAL", "IDENTIFIER", "OPERATOR",
           "PUNCTUATION", "COMMENT_SINGLELINE", "COMMENT_MULTILINE",
           "COMMENT_MULTILINE_END", "COMPLETE_TOKEN"}

TokenKinds == {"LITERAL_STRING", "LITERAL_NUMERIC", "IDENTIFIER", "KEYWORD", "OPERATOR",
               "END_OF_FILE"} \cup {PunctuationKind[c] : c \in Punctuation}

\* The types of the variables.
TypeOK ==
  /\ source \in Seq(Text)
  /\ cur \in 1 .. End
  /\ state \in States
  /\ line \in Nat \ {0}
  /\ token \in [kind : TokenKinds \cup {"UNKNOWN"}, text : Seq(Text \cup {NUL}),
                from : 1 .. End, line : Nat \ {0}]
  /\ tokens \in Seq([kind : TokenKinds, text : Seq(Text \cup {NUL}),
                     from : 1 .. End, to : 0 .. End, line : Nat \ {0}])
  /\ status \in {"running", "done", "exit", "overflow"}

\* The parser looks the name of an operator or keyword token up again and uses
\* what it finds (parse_operator, parse_keyword in src/src/parser.c); an
\* identifier must not be a name of either table.
TokensInTables ==
  \A i \in DOMAIN tokens :
    LET t == tokens[i] IN
    /\ t.kind = "OPERATOR" => t.text \in OperatorNames \ KeywordNames
    /\ t.kind = "KEYWORD" => t.text \in KeywordNames
    /\ t.kind = "IDENTIFIER" => t.text \notin OperatorNames \cup KeywordNames

\* The list ends with an end of file when the lexer is done and has none
\* before: the parser's loops stop at the first one and nowhere else.
EndsWithEndOfFile ==
  /\ \A i \in 1 .. Len(tokens) - 1 : tokens[i].kind # "END_OF_FILE"
  /\ tokens # <<>> /\ status # "overflow" =>
       (status = "done" <=> tokens[Len(tokens)].kind = "END_OF_FILE")

NewlinesBefore(p) == {i \in 1 .. p - 1 : At(i) = Newline}

\* A newline that the lexer may fail to count: behind a star, which may be in a
\* comment, or with a quote somewhere before it, which may be in a string.
MayBeMissed(i) ==
  \/ i > 1 /\ At(i - 1) = "*"
  \/ \E j \in 1 .. i - 1 : At(j) = Quote

\* The line reported for a token (in every error message) is never beyond the
\* line it is on, and is that line if no newline before it may be missed.
LinesCount ==
  \A i \in DOMAIN tokens :
    LET t == tokens[i]
        before == NewlinesBefore(t.from)
    IN /\ t.line <= 1 + Cardinality(before)
       /\ (\A n \in before : ~MayBeMissed(n)) => t.line = 1 + Cardinality(before)

\* Neither array is checked when it is written.  They cannot be overrun by a text
\* that leaves room for one more token, as every token but the end of file takes
\* a character, and for two more characters in a value: the NUL of the text,
\* which a word or an operator may take in, and the NUL behind the value.
ShortTextsFit ==
  Len(source) + 1 < MaxName /\ Len(source) < MaxTokens => status # "overflow"

\* Every call ends.
Terminates == <>(status # "running")

\* The lexer cuts the text as Lexemes says.  What has been cut off is what lies
\* before the token or comment being read; the NUL at the end is no part of it.
Cuts == INSTANCE Lexemes WITH
  at <- IF state # "NEW_TOKEN" THEN token.from
        ELSE IF cur > Len(source) THEN Len(source) + 1 ELSE cur,
  tokens <- LET found == IF status = "done" THEN Len(tokens) - 1 ELSE Len(tokens)
            IN [i \in 1 .. found |-> [kind |-> tokens[i].kind, text |-> tokens[i].text,
                                      from |-> tokens[i].from, to |-> tokens[i].to]]

ImplementsLexemes == Cuts!Spec

=============================================================================
