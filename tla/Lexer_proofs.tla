----------------------------- MODULE Lexer_proofs -----------------------------
(***************************************************************************)
(* Theorems about the lexer, for every text, every pair of tables and      *)
(* every size of the arrays.                                               *)
(***************************************************************************)

EXTENDS Lexer, SequenceTheorems, FiniteSetTheorems, TLAPS

Chars == Text \cup {NUL}

TokenType == [kind : TokenKinds \cup {"UNKNOWN"}, text : Seq(Chars),
              from : 1 .. End, line : Nat \ {0}]

ListType == [kind : TokenKinds, text : Seq(Chars), from : 1 .. End,
             to : 0 .. End, line : Nat \ {0}]

\* What the states leave for each other: a punctuation character that is about
\* to be taken is there, and a token that is complete has its kind.
Handover ==
  /\ status = "running" /\ state = "PUNCTUATION" =>
       cur <= Len(source) /\ source[cur] \in Punctuation
  /\ state = "COMPLETE_TOKEN" => token.kind \in TokenKinds \ {"END_OF_FILE"}

TypeInv == TypeOK /\ Handover

\* What the parser may rely on in a token of this kind.
Tabled(kind, text) ==
  /\ kind = "OPERATOR" => text \in OperatorNames \ KeywordNames
  /\ kind = "KEYWORD" => text \in KeywordNames
  /\ kind = "IDENTIFIER" => text \notin OperatorNames \cup KeywordNames

Tables ==
  /\ \A i \in DOMAIN tokens : Tabled(tokens[i].kind, tokens[i].text)
  /\ status = "running" /\ state = "COMPLETE_TOKEN" => Tabled(token.kind, token.text)

\* Where an end of file may be in the list, by status.
NoneBefore(n) == \A i \in 1 .. n : tokens[i].kind # "END_OF_FILE"

Marked ==
  /\ status \in {"running", "exit"} => NoneBefore(Len(tokens))
  /\ status = "overflow" => NoneBefore(Len(tokens) - 1)
  /\ status = "done" =>
       /\ tokens # <<>> /\ tokens[Len(tokens)].kind = "END_OF_FILE"
       /\ NoneBefore(Len(tokens) - 1)

\* The character that pays for the token being built has been read.
Paid ==
  \/ state \in {"STRING_LITERAL", "NUMERIC_LITERAL", "IDENTIFIER", "COMPLETE_TOKEN"}
  \/ state = "OPERATOR" /\ token.text # <<>>

\* Each token and each character of the value took a character of the text.
Sizes ==
  /\ status = "running" =>
       /\ Len(token.text) + 1 <= cur
       /\ Len(tokens) + 1 <= cur
       /\ Len(tokens) <= Len(source)
       /\ Paid => Len(tokens) + 2 <= cur
  /\ ShortTextsFit

LexInv == TypeInv /\ Tables /\ Marked /\ Sizes

-----------------------------------------------------------------------------

\* A character of the text or the NUL behind it; only the latter is no text.
LEMMA AtType ==
  ASSUME source \in Seq(Text), NEW p \in Nat \ {0}
  PROVE  /\ At(p) \in Chars
         /\ At(p) # NUL => p <= Len(source) /\ At(p) = source[p] /\ At(p) \in Text
<1>1. Len(source) \in Nat
  OBVIOUS
<1>2. CASE p <= Len(source)
  <2>1. source[p] \in Text
    BY <1>1, <1>2, ElementOfSeq
  <2>. QED
    BY <1>2, <2>1 DEF At, Chars
<1>3. CASE ~(p <= Len(source))
  BY <1>3 DEF At, Chars
<1>. QED
  BY <1>2, <1>3

\* No character that starts something is the NUL.
LEMMA CharsAreText ==
  /\ NUL \notin Letters \cup Digits \cup OperatorChars \cup Punctuation \cup {Quote, Other}
  /\ NUL # "/" /\ NUL # "*"
BY CharsAssumption DEF Text, Quote, Other, NUL

\* A token that is begun has its type, whatever its first character.
LEMMA FreshType ==
  ASSUME TypeOK
  PROVE  /\ Fresh \in TokenType
         /\ At(cur) \in Chars => [Fresh EXCEPT !.text = <<At(cur)>>] \in TokenType
<1>1. cur \in 1 .. End /\ line \in Nat \ {0}
  BY DEF TypeOK
<1>2. <<>> \in Seq(Chars)
  OBVIOUS
<1>3. At(cur) \in Chars => <<At(cur)>> \in Seq(Chars)
  OBVIOUS
<1>. QED
  BY <1>1, <1>2, <1>3 DEF Fresh, TokenType

\* Taking a character makes the value one longer.
LEMMA TakeType ==
  ASSUME TypeOK, cur < End, NEW zeros \in Nat, Take(zeros)
  PROVE  /\ token' \in TokenType
         /\ token'.text = Append(token.text, At(cur)) /\ token'.kind = token.kind
         /\ Len(token'.text) = Len(token.text) + 1
         /\ cur' = cur + 1 /\ cur' \in 1 .. End
         /\ status' \in {"running", "overflow"}
<1>1. /\ cur \in 1 .. End /\ End \in Nat /\ token \in TokenType /\ source \in Seq(Text)
  <2>1. Len(source) \in Nat
    BY DEF TypeOK
  <2>. QED
    BY <2>1 DEF TypeOK, End, TokenType, Chars
<1>2. token.text \in Seq(Chars)
  BY <1>1 DEF TokenType
<1>3. At(cur) \in Chars
  BY <1>1, AtType
<1>4. Append(token.text, At(cur)) \in Seq(Chars) /\ Len(Append(token.text, At(cur))) = Len(token.text) + 1
  BY <1>2, <1>3, AppendProperties
<1>5. token' = [token EXCEPT !.text = Append(token.text, At(cur))]
  BY DEF Take
<1>6. /\ token' \in TokenType /\ token'.text = Append(token.text, At(cur))
      /\ token'.kind = token.kind
  BY <1>1, <1>4, <1>5 DEF TokenType
<1>7. cur' = cur + 1 /\ cur' \in 1 .. End
  BY <1>1 DEF Take
<1>8. status' \in {"running", "overflow"}
  BY DEF Take
<1>. QED
  BY <1>4, <1>6, <1>7, <1>8

\* Emitting makes the list one longer and clears the value.
LEMMA EmitType ==
  ASSUME TypeOK, NEW kind \in TokenKinds, Emit(kind)
  PROVE  /\ tokens' \in Seq(ListType) /\ token' \in TokenType
         /\ Len(tokens') = Len(tokens) + 1
         /\ \A i \in 1 .. Len(tokens) : tokens'[i] = tokens[i]
         /\ tokens'[Len(tokens) + 1].kind = kind
         /\ tokens'[Len(tokens) + 1].text = token.text
         /\ token'.text = <<>> /\ token'.kind = token.kind
<1>1. /\ cur \in 1 .. End /\ End \in Nat /\ token \in TokenType /\ tokens \in Seq(ListType)
  <2>1. Len(source) \in Nat
    BY DEF TypeOK
  <2>. QED
    BY <2>1 DEF TypeOK, End, TokenType, ListType, Chars
<1>. DEFINE t == [kind |-> kind, text |-> token.text, from |-> token.from,
                  to |-> cur - 1, line |-> token.line]
<1>2. cur - 1 \in 0 .. End
  BY <1>1
<1>3. t \in ListType /\ t.kind = kind /\ t.text = token.text
  BY <1>1, <1>2 DEF TokenType, ListType
<1>4. tokens' = Append(tokens, t)
  BY DEF Emit
<1>. HIDE DEF t
<1>5. /\ tokens' \in Seq(ListType) /\ Len(tokens') = Len(tokens) + 1
      /\ \A i \in 1 .. Len(tokens) : tokens'[i] = tokens[i]
      /\ tokens'[Len(tokens) + 1] = t
  BY <1>1, <1>3, <1>4, AppendProperties
<1>6. <<>> \in Seq(Chars)
  OBVIOUS
<1>7. token' \in TokenType /\ token'.text = <<>> /\ token'.kind = token.kind
  BY <1>1, <1>6 DEF Emit, TokenType
<1>. QED
  BY <1>3, <1>5, <1>7

-----------------------------------------------------------------------------
(* The types.                                                              *)

\* The machine starts at the first character with an empty token.
LEMMA InitTypeInv == Init => TypeInv
<1>. SUFFICES ASSUME Init PROVE TypeInv
  OBVIOUS
<1>1. source \in Seq(Text) /\ Len(source) \in Nat
  BY SourcesAssumption DEF Init
<1>2. 1 \in 1 .. End
  BY <1>1 DEF End
<1>3. token \in TokenType
  <2>1. <<>> \in Seq(Chars)
    OBVIOUS
  <2>. QED
    BY <1>2, <2>1 DEF Init, TokenType
<1>4. tokens \in Seq(ListType)
  BY DEF Init
<1>. QED
  BY <1>1, <1>2, <1>3, <1>4 DEF Init, TypeInv, TypeOK, Handover, States, TokenType, ListType, Chars

\* Every state of the machine hands the next one what it relies on.
LEMMA NextTypeInv == TypeInv /\ [Next]_vars => TypeInv'
<1>. SUFFICES ASSUME TypeInv, [Next]_vars PROVE TypeInv'
  OBVIOUS
<1>1. /\ TypeOK /\ Handover
      /\ source \in Seq(Text) /\ Len(source) \in Nat /\ End = Len(source) + 2 /\ End \in Nat
      /\ cur \in 1 .. End /\ line \in Nat \ {0}
      /\ token \in TokenType /\ tokens \in Seq(ListType)
      /\ state \in States /\ status \in {"running", "done", "exit", "overflow"}
  <2>1. source \in Seq(Text) /\ Len(source) \in Nat
    BY DEF TypeInv, TypeOK
  <2>. QED
    BY <2>1 DEF TypeInv, TypeOK, End, TokenType, ListType, Chars
<1>2. SUFFICES /\ source' = source
               /\ cur' \in 1 .. End /\ line' \in Nat \ {0}
               /\ token' \in TokenType /\ tokens' \in Seq(ListType)
               /\ state' \in States /\ status' \in {"running", "done", "exit", "overflow"}
               /\ Handover'
  BY <1>1 DEF TypeInv, TypeOK, End, TokenType, ListType, Chars
<1>3. ASSUME cur < End
      PROVE  cur + 1 \in 1 .. End /\ At(cur) \in Chars
  BY <1>1, <1>3, AtType
<1>4. LineAfter(At(cur)) \in Nat \ {0}
  BY <1>1 DEF LineAfter
<1>5. CASE NewBlank
  BY <1>1, <1>3, <1>4, <1>5, FreshType DEF NewBlank, Running, Handover
<1>6. CASE NewComment
  <2>1. At(cur + 1) = "*" => cur + 2 \in 1 .. End
    BY <1>1, AtType, CharsAreText
  <2>. QED
    BY <1>1, <1>3, <1>6, <2>1, FreshType DEF NewComment, Running, Goto, States, Handover
<1>7. CASE NewString
  BY <1>1, <1>3, <1>7, FreshType DEF NewString, Running, Goto, States, Handover
<1>8. CASE NewOther
  <2>1. At(cur) \in Punctuation => cur <= Len(source) /\ source[cur] \in Punctuation
    BY <1>1, AtType, CharsAreText
  <2>2. At(cur) \in OperatorChars \/ At(cur) \in Punctuation
    BY <1>8 DEF NewOther
  <2>. QED
    BY <1>1, <1>8, <2>1, <2>2, FreshType DEF NewOther, Running, Goto, States, Handover
<1>9. CASE NewWord
  BY <1>1, <1>3, <1>9, FreshType DEF NewWord, Running, Goto, States, Handover
<1>10. CASE StringChar \/ NumberChar \/ IdentifierChar
  BY <1>1, <1>10, TakeType DEF StringChar, NumberChar, IdentifierChar, Running, Handover
<1>11. CASE StringEnd
  BY <1>1, <1>3, <1>11 DEF StringEnd, Running, Goto, States, Handover, TokenType, TokenKinds
<1>12. CASE NumberEnd
  BY <1>1, <1>12 DEF NumberEnd, Running, Goto, States, Handover, TokenType, TokenKinds
<1>13. CASE OperatorChar
  BY <1>1, <1>13, TakeType DEF OperatorChar, Running, Handover
<1>14. CASE OperatorEnd
  BY <1>1, <1>14 DEF OperatorEnd, Running, Goto, States, Handover, TokenType, TokenKinds
<1>15. CASE PunctuationChar
  <2>. DEFINE k == PunctuationKind[At(cur)]
  <2>1. At(cur) \in Punctuation /\ At(cur) \in Chars /\ cur < End
    BY <1>1, <1>3, <1>15 DEF PunctuationChar, Running, Handover, At
  <2>2. k \in TokenKinds /\ k # "END_OF_FILE"
    BY <2>1, PunctuationAssumption DEF TokenKinds
  <2>. HIDE DEF k
  <2>3. Append(token.text, At(cur)) \in Seq(Chars)
    BY <1>1, <2>1, AppendProperties DEF TokenType
  <2>4. token' = [token EXCEPT !.text = Append(token.text, At(cur)), !.kind = k]
    BY <1>15 DEF PunctuationChar, k
  <2>5. token' \in TokenType /\ token'.kind = k
    BY <1>1, <2>2, <2>3, <2>4 DEF TokenType
  <2>. QED
    BY <1>1, <1>3, <1>15, <2>2, <2>5 DEF PunctuationChar, Running, Goto, States, Handover
<1>16. CASE CommentLine \/ CommentStar
  BY <1>1, <1>3, <1>16 DEF CommentLine, CommentStar, Running, Goto, States, Handover
<1>17. CASE CommentBlock
  BY <1>1, <1>3, <1>4, <1>17 DEF CommentBlock, Running, Goto, States, Handover
<1>18. CASE IdentifierEnd
  BY <1>1, <1>18 DEF IdentifierEnd, Running, Goto, States, Handover, TokenType, TokenKinds
<1>19. CASE Complete
  <2>1. token.kind \in TokenKinds /\ Emit(token.kind)
    BY <1>1, <1>19 DEF Complete, Running, Handover
  <2>2. tokens' \in Seq(ListType) /\ token' \in TokenType
    BY <1>1, <2>1, EmitType
  <2>. QED
    BY <1>1, <1>19, <2>2 DEF Complete, Goto, States, Handover
<1>20. CASE EndOfFile
  <2>1. "END_OF_FILE" \in TokenKinds /\ Emit("END_OF_FILE")
    BY <1>20 DEF EndOfFile, TokenKinds
  <2>2. tokens' \in Seq(ListType) /\ token' \in TokenType /\ token'.kind = token.kind
    BY <1>1, <2>1, EmitType
  <2>. QED
    BY <1>1, <1>20, <2>2 DEF EndOfFile, Handover
<1>21. CASE Over \/ UNCHANGED vars
  BY <1>1, <1>21 DEF Over, vars, Handover
<1>. QED
  BY <1>5, <1>6, <1>7, <1>8, <1>9, <1>10, <1>11, <1>12, <1>13, <1>14, <1>15, <1>16, <1>17,
     <1>18, <1>19, <1>20, <1>21 DEF Next

-----------------------------------------------------------------------------
(* What every step does to the list: only two of them write it, and only   *)
(* the end of file ends the run well.                                      *)

\* What the types say of the sequences, for the provers.
LEMMA Types ==
  ASSUME TypeInv
  PROVE  /\ source \in Seq(Text) /\ Len(source) \in Nat /\ End = Len(source) + 2
         /\ cur \in 1 .. End /\ state \in States
         /\ token \in TokenType /\ token.text \in Seq(Chars) /\ Len(token.text) \in Nat
         /\ tokens \in Seq(ListType) /\ Len(tokens) \in Nat
         /\ DOMAIN tokens = 1 .. Len(tokens)
<1>1. source \in Seq(Text) /\ Len(source) \in Nat
  BY DEF TypeInv, TypeOK
<1>2. tokens \in Seq(ListType) /\ token \in TokenType
  BY <1>1 DEF TypeInv, TypeOK, End, TokenType, ListType, Chars
<1>3. token.text \in Seq(Chars)
  BY <1>2 DEF TokenType
<1>. QED
  BY <1>1, <1>2, <1>3 DEF TypeInv, TypeOK, End

Reads ==
  \/ NewBlank \/ NewComment \/ NewString \/ NewOther \/ NewWord
  \/ StringChar \/ StringEnd \/ NumberChar \/ NumberEnd
  \/ OperatorChar \/ OperatorEnd \/ PunctuationChar
  \/ CommentLine \/ CommentBlock \/ CommentStar
  \/ IdentifierChar \/ IdentifierEnd

\* A step reads, writes a token or the end of file, or stutters.
LEMMA NextIsReadOrWrite ==
  ASSUME [Next]_vars
  PROVE  Reads \/ Complete \/ EndOfFile \/ UNCHANGED vars
BY DEF Next, Reads, Over

\* A step that reads leaves the list as it is, and is not the last.
LEMMA ReadsKeepTheList ==
  ASSUME TypeInv, Reads
  PROVE  /\ tokens' = tokens /\ source' = source
         /\ status = "running" /\ cur < End
         /\ status' \in {"running", "exit", "overflow"}
<1>1. CASE NewBlank \/ NewComment \/ NewString \/ NewOther \/ NewWord
  BY <1>1 DEF NewBlank, NewComment, NewString, NewOther, NewWord, Running
<1>2. CASE StringChar \/ NumberChar \/ OperatorChar \/ IdentifierChar
  BY <1>2 DEF StringChar, NumberChar, OperatorChar, IdentifierChar, Take, Running
<1>3. CASE StringEnd \/ NumberEnd \/ OperatorEnd \/ PunctuationChar
  BY <1>3 DEF StringEnd, NumberEnd, OperatorEnd, PunctuationChar, Running
<1>4. CASE CommentLine \/ CommentBlock \/ CommentStar \/ IdentifierEnd
  BY <1>4 DEF CommentLine, CommentBlock, CommentStar, IdentifierEnd, Running
<1>. QED
  BY <1>1, <1>2, <1>3, <1>4 DEF Reads

\* A complete token is put behind the others as it is.
LEMMA CompleteWrites ==
  ASSUME TypeInv, Complete
  PROVE  /\ Len(tokens') = Len(tokens) + 1 /\ DOMAIN tokens' = 1 .. Len(tokens) + 1
         /\ \A i \in 1 .. Len(tokens) : tokens'[i] = tokens[i]
         /\ tokens'[Len(tokens) + 1].kind = token.kind /\ token.kind # "END_OF_FILE"
         /\ tokens'[Len(tokens) + 1].text = token.text
         /\ token'.text = <<>>
         /\ status = "running" /\ status' \in {"running", "overflow"}
         /\ state = "COMPLETE_TOKEN" /\ state' = "NEW_TOKEN"
<1>1. /\ status = "running" /\ state = "COMPLETE_TOKEN" /\ state' = "NEW_TOKEN"
      /\ Emit(token.kind) /\ status' \in {"running", "overflow"}
  BY DEF Complete, Running, Goto
<1>2. token.kind \in TokenKinds /\ token.kind # "END_OF_FILE" /\ TypeOK
  BY <1>1 DEF TypeInv, Handover
<1>3. /\ tokens' \in Seq(ListType) /\ Len(tokens') = Len(tokens) + 1
      /\ \A i \in 1 .. Len(tokens) : tokens'[i] = tokens[i]
      /\ tokens'[Len(tokens) + 1].kind = token.kind
      /\ tokens'[Len(tokens) + 1].text = token.text /\ token'.text = <<>>
  BY <1>1, <1>2, EmitType
<1>. QED
  BY <1>1, <1>2, <1>3, LenProperties

\* The end of file is put behind the others, and the run is over.
LEMMA EndOfFileWrites ==
  ASSUME TypeInv, EndOfFile
  PROVE  /\ Len(tokens') = Len(tokens) + 1 /\ DOMAIN tokens' = 1 .. Len(tokens) + 1
         /\ \A i \in 1 .. Len(tokens) : tokens'[i] = tokens[i]
         /\ tokens'[Len(tokens) + 1].kind = "END_OF_FILE"
         /\ status = "running" /\ status' \in {"done", "overflow"}
<1>1. status = "running" /\ Emit("END_OF_FILE") /\ status' \in {"done", "overflow"}
  BY DEF EndOfFile
<1>2. "END_OF_FILE" \in TokenKinds /\ TypeOK
  BY DEF TokenKinds, TypeInv
<1>3. /\ tokens' \in Seq(ListType) /\ Len(tokens') = Len(tokens) + 1
      /\ \A i \in 1 .. Len(tokens) : tokens'[i] = tokens[i]
      /\ tokens'[Len(tokens) + 1].kind = "END_OF_FILE"
  BY <1>1, <1>2, EmitType
<1>. QED
  BY <1>1, <1>3, LenProperties

-----------------------------------------------------------------------------
(* The tables.                                                             *)

\* A complete token comes from a lookup, and its text from there.
LEMMA NextTables == TypeInv /\ Tables /\ [Next]_vars => Tables'
<1>. SUFFICES ASSUME TypeInv, Tables, [Next]_vars PROVE Tables'
  OBVIOUS
<1>1. CASE Reads
  <2>1. tokens' = tokens /\ status = "running"
    BY <1>1, ReadsKeepTheList
  <2>2. SUFFICES ASSUME status' = "running", state' = "COMPLETE_TOKEN"
                 PROVE  Tabled(token'.kind, token'.text)
    BY <2>1 DEF Tables
  <2>3. token \in TokenType
    BY Types
  <2>4. CASE NewBlank \/ NewComment \/ NewString \/ NewOther \/ NewWord
    BY <2>2, <2>4 DEF NewBlank, NewComment, NewString, NewOther, NewWord, Running, Goto
  <2>5. CASE StringChar \/ NumberChar \/ IdentifierChar
    BY <2>2, <2>5 DEF StringChar, NumberChar, IdentifierChar, Running
  <2>6. CASE StringEnd \/ NumberEnd
    BY <2>2, <2>3, <2>6 DEF StringEnd, NumberEnd, Running, Tabled, TokenType
  <2>7. CASE OperatorChar
    BY <2>2, <2>7 DEF OperatorChar, Running
  <2>8. CASE OperatorEnd
    BY <2>2, <2>3, <2>8, NamesAssumption DEF OperatorEnd, Running, Tabled, TokenType
  <2>9. CASE PunctuationChar
    <3>1. status = "running" /\ state = "PUNCTUATION"
          /\ token'.kind = PunctuationKind[At(cur)]
      BY <2>3, <2>9 DEF PunctuationChar, Running, TokenType
    <3>2. At(cur) \in Punctuation
      BY <3>1 DEF TypeInv, Handover, At
    <3>3. token'.kind \notin {"OPERATOR", "KEYWORD", "IDENTIFIER"}
      BY <3>1, <3>2, PunctuationAssumption
    <3>. QED
      BY <3>3 DEF Tabled
  <2>10. CASE CommentLine \/ CommentBlock \/ CommentStar
    BY <2>2, <2>10 DEF CommentLine, CommentBlock, CommentStar, Running, Goto
  <2>11. CASE IdentifierEnd
    BY <2>3, <2>11, NamesAssumption DEF IdentifierEnd, Tabled, TokenType
  <2>. QED
    BY <1>1, <2>4, <2>5, <2>6, <2>7, <2>8, <2>9, <2>10, <2>11 DEF Reads
<1>2. CASE Complete
  <2>1. Tabled(token.kind, token.text)
    BY <1>2, CompleteWrites DEF Tables
  <2>2. \A i \in 1 .. Len(tokens) + 1 : Tabled(tokens'[i].kind, tokens'[i].text)
    <3>. TAKE i \in 1 .. Len(tokens) + 1
    <3>1. CASE i = Len(tokens) + 1
      BY <1>2, <2>1, <3>1, CompleteWrites
    <3>2. CASE i # Len(tokens) + 1
      <4>1. i \in 1 .. Len(tokens)
        BY <3>2, Types
      <4>. QED
        BY <1>2, <4>1, CompleteWrites, Types DEF Tables
    <3>. QED
      BY <3>1, <3>2
  <2>. QED
    BY <1>2, <2>2, CompleteWrites DEF Tables
<1>3. CASE EndOfFile
  <2>1. \A i \in 1 .. Len(tokens) + 1 : Tabled(tokens'[i].kind, tokens'[i].text)
    <3>. TAKE i \in 1 .. Len(tokens) + 1
    <3>1. CASE i = Len(tokens) + 1
      BY <1>3, <3>1, EndOfFileWrites DEF Tabled
    <3>2. CASE i # Len(tokens) + 1
      <4>1. i \in 1 .. Len(tokens)
        BY <3>2, Types
      <4>. QED
        BY <1>3, <4>1, EndOfFileWrites, Types DEF Tables
    <3>. QED
      BY <3>1, <3>2
  <2>. QED
    BY <1>3, <2>1, EndOfFileWrites DEF Tables
<1>4. CASE UNCHANGED vars
  BY <1>4 DEF vars, Tables
<1>. QED
  BY <1>1, <1>2, <1>3, <1>4, NextIsReadOrWrite

-----------------------------------------------------------------------------
(* The end of file.                                                        *)

\* Only the last step writes an end of file.
LEMMA NextMarked == TypeInv /\ Marked /\ [Next]_vars => Marked'
<1>. SUFFICES ASSUME TypeInv, Marked, [Next]_vars PROVE Marked'
  OBVIOUS
<1>1. CASE Reads
  <2>1. /\ tokens' = tokens /\ status = "running" /\ status' \in {"running", "exit", "overflow"}
        /\ Len(tokens) \in Nat
    BY <1>1, ReadsKeepTheList, Types
  <2>2. NoneBefore(Len(tokens)) /\ NoneBefore(Len(tokens) - 1)
    BY <2>1 DEF Marked, NoneBefore
  <2>. QED
    BY <2>1, <2>2 DEF Marked, NoneBefore
<1>2. CASE Complete
  <2>1. /\ status = "running" /\ status' \in {"running", "overflow"} /\ Len(tokens) \in Nat
        /\ Len(tokens') = Len(tokens) + 1
        /\ \A i \in 1 .. Len(tokens) : tokens'[i] = tokens[i]
        /\ tokens'[Len(tokens) + 1].kind # "END_OF_FILE"
    BY <1>2, CompleteWrites, Types
  <2>2. \A i \in 1 .. Len(tokens) + 1 : tokens'[i].kind # "END_OF_FILE"
    <3>. TAKE i \in 1 .. Len(tokens) + 1
    <3>1. i = Len(tokens) + 1 \/ i \in 1 .. Len(tokens)
      BY <2>1
    <3>. QED
      BY <2>1, <3>1 DEF Marked, NoneBefore
  <2>. QED
    BY <2>1, <2>2 DEF Marked, NoneBefore
<1>3. CASE EndOfFile
  <2>1. /\ status = "running" /\ status' \in {"done", "overflow"} /\ Len(tokens) \in Nat
        /\ Len(tokens') = Len(tokens) + 1
        /\ \A i \in 1 .. Len(tokens) : tokens'[i] = tokens[i]
        /\ tokens'[Len(tokens) + 1].kind = "END_OF_FILE"
    BY <1>3, EndOfFileWrites, Types
  <2>2. \A i \in 1 .. Len(tokens) : tokens'[i].kind # "END_OF_FILE"
    BY <2>1 DEF Marked, NoneBefore
  <2>3. tokens' # <<>>
    BY <2>1
  <2>. QED
    BY <2>1, <2>2, <2>3 DEF Marked, NoneBefore
<1>4. CASE UNCHANGED vars
  BY <1>4 DEF vars, Marked, NoneBefore
<1>. QED
  BY <1>1, <1>2, <1>3, <1>4, NextIsReadOrWrite

-----------------------------------------------------------------------------
(* The sizes.  ShortTextsFit is a part of the invariant: a write that      *)
(* overruns an array is one step after the sizes it follows from.          *)

Short == Len(source) + 1 < MaxName /\ Len(source) < MaxTokens

\* A character added to the value is one more character read.
LEMMA TakeFits ==
  ASSUME TypeInv, Sizes, status = "running", cur < End,
         NEW zeros \in {0, 1}, Take(zeros), source' = source, tokens' = tokens
  PROVE  /\ Len(token'.text) + 1 <= cur' /\ Len(tokens) + 2 <= cur'
         /\ token'.text # <<>>
         /\ Short => status' = "running"
<1>1. /\ TypeOK /\ Len(source) \in Nat /\ End = Len(source) + 2 /\ cur \in 1 .. End
      /\ Len(token.text) \in Nat /\ Len(tokens) \in Nat
  BY Types DEF TypeInv
<1>2. cur' = cur + 1 /\ Len(token'.text) = Len(token.text) + 1
  BY <1>1, TakeType
<1>3. Len(token.text) + 1 <= cur /\ Len(tokens) + 1 <= cur
  BY DEF Sizes
<1>4. token'.text # <<>>
  BY <1>1, <1>2
<1>5. status' = IF Len(token'.text) + zeros > MaxName THEN "overflow" ELSE "running"
  BY DEF Take
<1>6. Short => Len(token'.text) + zeros <= MaxName
  BY <1>1, <1>2, <1>3, LimitsAssumption DEF Short
<1>7. Short => status' = "running"
  BY <1>1, <1>2, <1>5, <1>6, LimitsAssumption
<1>. QED
  BY <1>1, <1>2, <1>3, <1>4, <1>7

\* A token is paid for with the characters that were read for it.
LEMMA NextSizes == TypeInv /\ Sizes /\ [Next]_vars => Sizes'
<1>. SUFFICES ASSUME TypeInv, Sizes, [Next]_vars PROVE Sizes'
  OBVIOUS
<1>1. /\ Len(source) \in Nat /\ End = Len(source) + 2 /\ cur \in 1 .. End
      /\ token \in TokenType /\ token.text \in Seq(Chars)
      /\ Len(token.text) \in Nat /\ Len(tokens) \in Nat
  BY Types
<1>2. CASE Reads
  <2>1. tokens' = tokens /\ source' = source /\ status = "running" /\ cur < End
    BY <1>2, ReadsKeepTheList
  <2>2. /\ Len(token.text) + 1 <= cur /\ Len(tokens) + 1 <= cur
        /\ Len(tokens) <= Len(source)
        /\ Paid => Len(tokens) + 2 <= cur
    BY <2>1 DEF Sizes
  <2>3. SUFFICES /\ Short => status' # "overflow"
                 /\ status' = "running" =>
                      /\ Len(token'.text) + 1 <= cur'
                      /\ Len(tokens) + 1 <= cur'
                      /\ Paid' => Len(tokens) + 2 <= cur'
    BY <2>1, <2>2 DEF Sizes, ShortTextsFit, Short
  <2>4. CASE NewBlank \/ NewComment \/ NewString \/ NewOther
    <3>1. token' = Fresh /\ status' = status /\ cur' \in {cur, cur + 1, cur + 2}
      BY <2>4 DEF NewBlank, NewComment, NewString, NewOther
    <3>2. token'.text = <<>> /\ Len(token'.text) = 0
      BY <3>1 DEF Fresh
    <3>3. Paid' => state' = "STRING_LITERAL" /\ cur' = cur + 1
      BY <2>4, <3>2 DEF NewBlank, NewComment, NewString, NewOther, Running, Goto, Paid
    <3>. QED
      BY <1>1, <2>1, <2>2, <3>1, <3>2, <3>3
  <2>5. CASE NewWord
    <3>1. token' = [Fresh EXCEPT !.text = <<At(cur)>>] /\ status' = status /\ cur' = cur + 1
      BY <2>5 DEF NewWord
    <3>2. Len(token'.text) = 1
      BY <3>1 DEF Fresh
    <3>. QED
      BY <1>1, <2>1, <2>2, <3>1, <3>2
  <2>6. CASE StringChar \/ NumberChar \/ OperatorChar \/ IdentifierChar
    <3>1. PICK zeros \in {0, 1} : Take(zeros)
      BY <2>6 DEF StringChar, NumberChar, OperatorChar, IdentifierChar
    <3>2. /\ Len(token'.text) + 1 <= cur' /\ Len(tokens) + 2 <= cur'
          /\ Short => status' = "running"
      BY <2>1, <3>1, TakeFits
    <3>3. cur' = cur + 1
      BY <3>1 DEF Take
    <3>. QED
      BY <1>1, <2>2, <3>2, <3>3
  <2>7. CASE StringEnd
    <3>1. token'.text = token.text /\ status' = status /\ cur' = cur + 1
      BY <1>1, <2>7 DEF StringEnd, TokenType
    <3>. QED
      BY <1>1, <2>1, <2>2, <3>1
  <2>8. CASE NumberEnd \/ IdentifierEnd
    <3>1. token'.text = token.text /\ status' \in {status, "exit"} /\ cur' = cur /\ Paid
      BY <1>1, <2>8 DEF NumberEnd, IdentifierEnd, Running, TokenType, Paid
    <3>. QED
      BY <1>1, <2>1, <2>2, <3>1
  <2>9. CASE OperatorEnd
    <3>1. token'.text = token.text /\ status' \in {status, "exit"} /\ cur' = cur
      BY <1>1, <2>9 DEF OperatorEnd, TokenType
    <3>2. status' = "running" => token.text # <<>> /\ state = "OPERATOR"
      BY <2>9, NamesAssumption DEF OperatorEnd, Running
    <3>. QED
      BY <1>1, <2>1, <2>2, <3>1, <3>2 DEF Paid
  <2>10. CASE PunctuationChar
    <3>1. At(cur) \in Chars
      BY <1>1, AtType, Types
    <3>2. Append(token.text, At(cur)) \in Seq(Chars)
          /\ Len(Append(token.text, At(cur))) = Len(token.text) + 1
      BY <1>1, <3>1, AppendProperties
    <3>3. token'.text = Append(token.text, At(cur)) /\ status' = status /\ cur' = cur + 1
      BY <1>1, <2>10 DEF PunctuationChar, TokenType
    <3>. QED
      BY <1>1, <2>1, <2>2, <3>2, <3>3
  <2>11. CASE CommentLine \/ CommentBlock \/ CommentStar
    <3>1. token' = token /\ status' = status /\ cur' \in {cur, cur + 1} /\ ~Paid'
      BY <2>11 DEF CommentLine, CommentBlock, CommentStar, Running, Goto, Paid
    <3>. QED
      BY <1>1, <2>1, <2>2, <3>1
  <2>. QED
    BY <1>2, <2>4, <2>5, <2>6, <2>7, <2>8, <2>9, <2>10, <2>11 DEF Reads
<1>3. CASE Complete
  <2>1. /\ source' = source /\ cur' = cur /\ cur < End
        /\ status' = IF Overruns THEN "overflow" ELSE "running"
    BY <1>3 DEF Complete, Running
  <2>2. /\ Len(tokens') = Len(tokens) + 1 /\ token'.text = <<>>
        /\ status = "running" /\ state = "COMPLETE_TOKEN" /\ state' = "NEW_TOKEN"
    BY <1>3, CompleteWrites
  <2>3. Len(token.text) + 1 <= cur /\ Len(tokens) + 2 <= cur
    BY <2>2 DEF Sizes, Paid
  <2>4. ~Paid'
    BY <2>2 DEF Paid
  <2>5. Short => ~Overruns
    BY <1>1, <2>1, <2>3, LimitsAssumption DEF Short, Overruns
  <2>6. ShortTextsFit'
    BY <2>1, <2>5 DEF ShortTextsFit, Short
  <2>7. Len(token'.text) + 1 <= cur' /\ Len(tokens') + 1 <= cur' /\ Len(tokens') <= Len(source')
    BY <1>1, <2>1, <2>2, <2>3
  <2>. QED
    BY <2>4, <2>6, <2>7 DEF Sizes
<1>4. CASE EndOfFile
  <2>1. /\ source' = source /\ cur = End /\ status = "running"
        /\ status' = IF Overruns THEN "overflow" ELSE "done"
    BY <1>4 DEF EndOfFile
  <2>2. Len(token.text) + 1 <= cur /\ Len(tokens) <= Len(source)
    BY <2>1 DEF Sizes
  <2>3. Short => ~Overruns
    BY <1>1, <2>1, <2>2, LimitsAssumption DEF Short, Overruns
  <2>. QED
    BY <2>1, <2>3 DEF Sizes, ShortTextsFit, Short
<1>5. CASE UNCHANGED vars
  BY <1>5 DEF vars, Sizes, ShortTextsFit, Paid
<1>. QED
  BY <1>2, <1>3, <1>4, <1>5, NextIsReadOrWrite

-----------------------------------------------------------------------------
(* The lines.                                                              *)

\* What a line number that is claimed for a position is worth.
Counted(n, p) ==
  /\ n <= 1 + Cardinality(NewlinesBefore(p))
  /\ (\A i \in NewlinesBefore(p) : ~MayBeMissed(i)) => n = 1 + Cardinality(NewlinesBefore(p))

\* A newline is passed uncounted only behind a quote or behind a star.
Passing ==
  /\ state = "STRING_LITERAL" => token.from < cur /\ At(token.from) = Quote
  /\ state = "COMMENT_MULTILINE_END" => 1 < cur /\ At(cur - 1) = "*"

LinesInv ==
  /\ status = "running" => Counted(line, cur) /\ Counted(token.line, token.from) /\ Passing
  /\ LinesCount

\* The newlines in front of a position, and what the next character adds.
LEMMA NewlinesGrow ==
  ASSUME source \in Seq(Text), NEW p \in Nat \ {0}
  PROVE  /\ IsFiniteSet(NewlinesBefore(p)) /\ Cardinality(NewlinesBefore(p)) \in Nat
         /\ At(p) # Newline => NewlinesBefore(p + 1) = NewlinesBefore(p)
         /\ At(p) = Newline =>
              /\ NewlinesBefore(p + 1) = NewlinesBefore(p) \cup {p}
              /\ Cardinality(NewlinesBefore(p + 1)) = Cardinality(NewlinesBefore(p)) + 1
<1>1. IsFiniteSet(1 .. p - 1)
  BY FS_Interval
<1>2. NewlinesBefore(p) \subseteq 1 .. p - 1
  BY DEF NewlinesBefore
<1>3. IsFiniteSet(NewlinesBefore(p))
  BY <1>1, <1>2, FS_Subset
<1>4. Cardinality(NewlinesBefore(p)) \in Nat
  BY <1>3, FS_CardinalityType
<1>5. (p + 1) - 1 = p /\ 1 .. p = (1 .. p - 1) \cup {p} /\ p \notin 1 .. p - 1
  OBVIOUS
<1>6. At(p) # Newline => NewlinesBefore(p + 1) = NewlinesBefore(p)
  BY <1>5 DEF NewlinesBefore
<1>7. At(p) = Newline => NewlinesBefore(p + 1) = NewlinesBefore(p) \cup {p}
  BY <1>5 DEF NewlinesBefore
<1>8. Cardinality(NewlinesBefore(p) \cup {p}) = Cardinality(NewlinesBefore(p)) + 1
  <2>1. p \notin NewlinesBefore(p)
    BY <1>2, <1>5
  <2>. QED
    BY <1>3, <2>1, FS_AddElement
<1>. QED
  BY <1>3, <1>4, <1>6, <1>7, <1>8

\* Passing a character that is no newline, one that is counted, one that is not.
LEMMA PassCharacter ==
  ASSUME source \in Seq(Text), NEW p \in Nat \ {0}, NEW n \in Nat, Counted(n, p)
  PROVE  /\ At(p) # Newline => Counted(n, p + 1)
         /\ At(p) = Newline => Counted(n + 1, p + 1)
         /\ At(p) = Newline /\ MayBeMissed(p) => Counted(n, p + 1)
<1>1. CASE At(p) # Newline
  BY <1>1, NewlinesGrow DEF Counted
<1>2. CASE At(p) = Newline
  <2>1. /\ Cardinality(NewlinesBefore(p)) \in Nat
        /\ NewlinesBefore(p + 1) = NewlinesBefore(p) \cup {p}
        /\ Cardinality(NewlinesBefore(p + 1)) = Cardinality(NewlinesBefore(p)) + 1
    BY <1>2, NewlinesGrow
  <2>2. (\A i \in NewlinesBefore(p + 1) : ~MayBeMissed(i)) =>
          (\A i \in NewlinesBefore(p) : ~MayBeMissed(i)) /\ ~MayBeMissed(p)
    BY <2>1
  <2>. QED
    BY <1>2, <2>1, <2>2 DEF Counted
<1>. QED
  BY <1>1, <1>2

\* No character of a word, an operator or a bracket is a newline, nor is NUL.
LEMMA OnlyBlanksBreak ==
  /\ \A c \in Letters \cup Digits \cup OperatorChars \cup Punctuation \cup {Quote, Other, NUL} :
       c # Newline
  /\ "/" # Newline /\ "*" # Newline /\ "/" # "*"
  /\ \A c : In(c, Letters \cup Digits) \/ In(c, Letters) \/ In(c, Digits) \/ In(c, OperatorChars)
              => c # Newline
BY CharsAssumption DEF Text, Whitespace, Newline, Quote, Other, NUL, In

\* Every step keeps the claims, and those already in the list.
LEMMA NextLinesInv == TypeInv /\ LinesInv /\ [Next]_vars => LinesInv'
<1>. SUFFICES ASSUME TypeInv, LinesInv, [Next]_vars PROVE LinesInv'
  OBVIOUS
<1>1. /\ source \in Seq(Text) /\ Len(source) \in Nat /\ End = Len(source) + 2
      /\ cur \in 1 .. End /\ cur \in Nat \ {0} /\ line \in Nat /\ token \in TokenType
      /\ token.from \in Nat \ {0} /\ token.line \in Nat
      /\ tokens \in Seq(ListType) /\ Len(tokens) \in Nat
  BY Types DEF TypeInv, TypeOK, TokenType
<1>. USE OnlyBlanksBreak
<1>2. CASE Reads
  <2>1. tokens' = tokens /\ source' = source /\ status = "running" /\ cur < End
    BY <1>2, ReadsKeepTheList
  <2>2. Counted(line, cur) /\ Counted(token.line, token.from) /\ Passing
    BY <2>1 DEF LinesInv
  <2>. DEFINE Next1 == /\ Counted(line', cur') /\ Counted(token'.line, token'.from)
                       /\ state' = "STRING_LITERAL" => token'.from < cur' /\ At(token'.from) = Quote
                       /\ state' = "COMMENT_MULTILINE_END" => 1 < cur' /\ At(cur' - 1) = "*"
  <2>3. SUFFICES Next1
    <3>1. LinesCount'
      BY <2>1 DEF LinesInv, LinesCount, NewlinesBefore, MayBeMissed, At
    <3>2. Next1 => (Counted(line, cur) /\ Counted(token.line, token.from) /\ Passing)'
      BY <2>1 DEF Counted, NewlinesBefore, MayBeMissed, At, Passing
    <3>. QED
      BY <3>1, <3>2 DEF LinesInv
  <2>4. Counted(Fresh.line, Fresh.from) /\ Fresh.from = cur
    BY <2>2 DEF Fresh
  <2>5. /\ At(cur) # Newline => Counted(line, cur + 1)
        /\ Counted(LineAfter(At(cur)), cur + 1)
        /\ MayBeMissed(cur) => Counted(line, cur + 1)
    BY <1>1, <2>2, PassCharacter DEF LineAfter
  <2>6. CASE NewBlank
    BY <2>4, <2>5, <2>6 DEF NewBlank, Running
  <2>7. CASE NewComment
    <3>1. CASE cur' = cur + 2 /\ At(cur + 1) = "*"
      <4>1. Counted(line, cur + 1) /\ cur + 1 \in Nat \ {0} /\ cur + 2 = (cur + 1) + 1
        BY <1>1, <2>5, <2>7 DEF NewComment
      <4>2. Counted(line, (cur + 1) + 1)
        BY <1>1, <3>1, <4>1, PassCharacter
      <4>. QED
        BY <2>4, <2>7, <3>1, <4>1, <4>2 DEF NewComment, Goto
    <3>2. CASE cur' = cur + 1 /\ state' = "COMMENT_SINGLELINE"
      BY <2>4, <2>5, <2>7, <3>2 DEF NewComment
    <3>3. CASE cur' = cur + 2 /\ state' = "COMMENT_MULTILINE" /\ At(cur + 1) = "*"
      BY <3>1, <3>3
    <3>. QED
      BY <2>7, <3>2, <3>3 DEF NewComment, Goto
  <2>8. CASE NewString
    <3>1. token' = Fresh /\ line' = line /\ cur' = cur + 1 /\ At(cur) = Quote
      BY <2>8 DEF NewString
    <3>. QED
      BY <1>1, <2>4, <2>5, <2>8, <3>1 DEF NewString, Goto
  <2>9. CASE NewOther
    BY <2>2, <2>4, <2>9 DEF NewOther, Goto
  <2>10. CASE NewWord
    <3>1. token'.line = line /\ token'.from = cur /\ line' = line /\ cur' = cur + 1
      BY <2>10 DEF NewWord, Fresh
    <3>. QED
      BY <2>2, <2>5, <2>10, <3>1 DEF NewWord, Goto
  <2>11. CASE StringChar
    <3>1. /\ token' = [token EXCEPT !.text = Append(@, At(cur))] /\ cur' = cur + 1
          /\ line' = line /\ state' = state /\ state = "STRING_LITERAL"
      BY <2>11 DEF StringChar, Take, Running
    <3>2. token'.line = token.line /\ token'.from = token.from
      BY <1>1, <3>1 DEF TokenType
    <3>3. MayBeMissed(cur)
      <4>1. token.from \in 1 .. cur - 1 /\ At(token.from) = Quote
        BY <1>1, <2>2, <3>1 DEF Passing
      <4>. QED
        BY <4>1 DEF MayBeMissed
    <3>. QED
      BY <1>1, <2>2, <2>5, <3>1, <3>2, <3>3 DEF Passing
  <2>12. CASE NumberChar \/ OperatorChar \/ IdentifierChar
    <3>1. /\ token' = [token EXCEPT !.text = Append(@, At(cur))] /\ cur' = cur + 1
          /\ line' = line /\ state' = state /\ At(cur) # Newline
          /\ state \in {"NUMERIC_LITERAL", "OPERATOR", "IDENTIFIER"}
      BY <2>12 DEF NumberChar, OperatorChar, IdentifierChar, Take, Running
    <3>2. token'.line = token.line /\ token'.from = token.from
      BY <1>1, <3>1 DEF TokenType
    <3>. QED
      BY <1>1, <2>2, <2>5, <3>1, <3>2
  <2>13. CASE StringEnd
    <3>1. /\ token' = [token EXCEPT !.kind = "LITERAL_STRING"] /\ cur' = cur + 1 /\ line' = line
          /\ state' = "COMPLETE_TOKEN" /\ At(cur) # Newline
      BY <2>13 DEF StringEnd, Goto
    <3>2. token'.line = token.line /\ token'.from = token.from
      BY <1>1, <3>1 DEF TokenType
    <3>. QED
      BY <2>2, <2>5, <3>1, <3>2
  <2>14. CASE NumberEnd \/ OperatorEnd \/ IdentifierEnd
    <3>1. token'.line = token.line /\ token'.from = token.from
      BY <1>1, <2>14 DEF NumberEnd, OperatorEnd, IdentifierEnd, TokenType
    <3>2. cur' = cur /\ line' = line /\ state' \in {state, "COMPLETE_TOKEN"}
          /\ state \in {"NUMERIC_LITERAL", "OPERATOR", "IDENTIFIER"}
      BY <2>14 DEF NumberEnd, OperatorEnd, IdentifierEnd, Goto, Running
    <3>. QED
      BY <2>2, <3>1, <3>2
  <2>15. CASE PunctuationChar
    <3>1. At(cur) # Newline
      BY <2>15 DEF PunctuationChar, Running, TypeInv, Handover, At
    <3>2. token'.line = token.line /\ token'.from = token.from
      BY <1>1, <2>15 DEF PunctuationChar, TokenType
    <3>. QED
      BY <2>2, <2>5, <2>15, <3>1, <3>2 DEF PunctuationChar, Goto
  <2>16. CASE CommentLine
    BY <2>2, <2>5, <2>16 DEF CommentLine, Goto, Running
  <2>17. CASE CommentBlock
    <3>1. /\ token' = token /\ line' = LineAfter(At(cur)) /\ cur' = cur + 1
          /\ state' # "STRING_LITERAL"
          /\ state' = "COMMENT_MULTILINE_END" => At(cur) = "*"
      BY <2>17 DEF CommentBlock, Goto
    <3>2. cur' - 1 = cur /\ 1 < cur'
      BY <1>1, <3>1
    <3>. QED
      BY <2>2, <2>5, <3>1, <3>2
  <2>18. CASE CommentStar
    <3>1. /\ token' = token /\ line' = line /\ cur' = cur + 1
          /\ state' \notin {"STRING_LITERAL", "COMMENT_MULTILINE_END"}
          /\ state = "COMMENT_MULTILINE_END"
      BY <2>18 DEF CommentStar, Goto, Running
    <3>2. MayBeMissed(cur)
      BY <2>2, <3>1 DEF Passing, MayBeMissed
    <3>. QED
      BY <2>2, <2>5, <3>1, <3>2
  <2>. QED
    BY <1>2, <2>6, <2>7, <2>8, <2>9, <2>10, <2>11, <2>12, <2>13, <2>14, <2>15, <2>16, <2>17,
       <2>18 DEF Reads
<1>3. ASSUME Complete \/ EndOfFile PROVE LinesInv'
  <2>1. /\ status = "running" /\ source' = source /\ cur' = cur /\ line' = line
        /\ state' \in {state, "NEW_TOKEN"}
    BY <1>3 DEF Complete, EndOfFile, Running, Goto
  <2>2. /\ Len(tokens') = Len(tokens) + 1 /\ DOMAIN tokens' = 1 .. Len(tokens) + 1
        /\ \A i \in 1 .. Len(tokens) : tokens'[i] = tokens[i]
    BY <1>3, CompleteWrites, EndOfFileWrites
  <2>3. /\ Counted(line, cur) /\ Counted(token.line, token.from) /\ Passing /\ LinesCount
        /\ DOMAIN tokens = 1 .. Len(tokens)
    BY <1>1, <2>1 DEF LinesInv
  <2>4. PICK k : Emit(k)
    BY <1>3 DEF Complete, EndOfFile
  <2>5. /\ tokens'[Len(tokens) + 1].from = token.from
        /\ tokens'[Len(tokens) + 1].line = token.line
        /\ token'.from = token.from /\ token'.line = token.line
    BY <1>1, <2>4 DEF Emit, TokenType
  <2>6. \A i \in 1 .. Len(tokens) + 1 : Counted(tokens'[i].line, tokens'[i].from)
    <3>. TAKE i \in 1 .. Len(tokens) + 1
    <3>1. CASE i = Len(tokens) + 1
      BY <2>3, <2>5, <3>1
    <3>2. CASE i # Len(tokens) + 1
      <4>1. i \in 1 .. Len(tokens) /\ tokens'[i] = tokens[i]
        BY <1>1, <2>2, <3>2
      <4>. QED
        BY <2>3, <4>1 DEF LinesCount, Counted
    <3>. QED
      BY <3>1, <3>2
  <2>7. LinesCount'
    BY <2>1, <2>2, <2>6 DEF LinesCount, Counted, NewlinesBefore, MayBeMissed, At
  <2>8. Counted(line', cur') /\ Counted(token'.line, token'.from)
    BY <2>1, <2>3, <2>5
  <2>9. (Counted(line, cur) /\ Counted(token.line, token.from))'
    BY <2>1, <2>8 DEF Counted, NewlinesBefore, MayBeMissed, At
  <2>10. Passing'
    BY <2>1, <2>3, <2>5 DEF Passing, At
  <2>. QED
    BY <2>7, <2>9, <2>10 DEF LinesInv
<1>4. CASE UNCHANGED vars
  BY <1>4 DEF vars, LinesInv, LinesCount, Counted, NewlinesBefore, MayBeMissed, At, Passing
<1>. QED
  BY <1>2, <1>3, <1>4, NextIsReadOrWrite

-----------------------------------------------------------------------------
(* The refinement: what the lexer has read of a lexeme that it has begun.  *)

\* The last character of the text in front of position p.
Last(p) == IF p > Len(source) THEN Len(source) ELSE p - 1

\* Where the rest of the text starts and what has been found, for Lexemes.
Rest == IF state # "NEW_TOKEN" THEN token.from
        ELSE IF cur > Len(source) THEN Len(source) + 1 ELSE cur

Found ==
  LET found == IF status = "done" THEN Len(tokens) - 1 ELSE Len(tokens)
  IN [i \in 1 .. found |-> [kind |-> tokens[i].kind, text |-> tokens[i].text,
                            from |-> tokens[i].from, to |-> tokens[i].to]]

\* The value is what the text has there, unless the NUL has been taken, too.
Holds(text, lo, p) == p <= Len(source) + 1 => text = Cuts!Span(lo, p - 1)

InString(lo, p, text) ==
  /\ source[lo] = Quote /\ lo < p
  /\ \A i \in lo + 1 .. Last(p) : source[i] # Quote
  /\ Holds(text, lo + 1, p)

InNumber(lo, p, text) ==
  /\ source[lo] \in Digits /\ lo < p
  /\ \A i \in lo .. Last(p) : source[i] \in Digits
  /\ Holds(text, lo, p)

InName(lo, p, text) ==
  /\ source[lo] \in Letters \cup {Other} /\ lo < p
  /\ \A i \in lo + 1 .. Last(p) : source[i] \in Letters \cup Digits
  /\ Holds(text, lo, p)

InOperator(lo, p, text) ==
  /\ source[lo] \in OperatorChars /\ ~Cuts!OpensComment(lo) /\ lo <= p
  /\ \A i \in lo .. Last(p) : source[i] \in OperatorChars
  /\ Holds(text, lo, p)

AtPunctuation(lo, p, text) == source[lo] \in Punctuation /\ lo = p /\ text = <<>>

InLine(lo, p) ==
  /\ Cuts!OpensComment(lo) /\ source[lo + 1] = "/" /\ lo < p
  /\ \A i \in lo .. Last(p) : source[i] # Newline

\* The characters in front of p in the comment from lo end in so many stars.
StarsBefore(lo, p, stars) ==
  /\ stars \in 0 .. p - lo - 2
  /\ \A i \in p - stars .. p - 1 : source[i] = "*"
  /\ p - stars - 1 > lo + 1 => source[p - stars - 1] # "*"

\* In a comment the machine knows whether the number of stars is even.
InBlock(lo, p, parity) ==
  /\ Cuts!OpensComment(lo) /\ source[lo + 1] = "*" /\ lo + 2 <= p
  /\ \A i \in lo + 2 .. Last(p) : ~Cuts!ClosesComment(lo, i)
  /\ p <= Len(source) + 1 => \E stars \in Nat : StarsBefore(lo, p, stars) /\ stars % 2 = parity

Recognised(lo, p, kind, text) ==
  /\ lo < p /\ p <= Len(source) + 1
  /\ Cuts!Lexeme(lo, p - 1)
  /\ kind = Cuts!Kind(lo, p - 1) /\ text = Cuts!Value(lo, p - 1)
  /\ Cuts!IsOperator(lo, p - 1) => Cuts!Span(lo, p - 1) \in OperatorNames

\* What the machine knows in state s of the token that begins at lo.
Begun(s, lo, p, kind, text) ==
  /\ s # "NEW_TOKEN" => lo <= Len(source)
  /\ s = "STRING_LITERAL" => InString(lo, p, text)
  /\ s = "NUMERIC_LITERAL" => InNumber(lo, p, text)
  /\ s = "IDENTIFIER" => InName(lo, p, text)
  /\ s = "OPERATOR" => InOperator(lo, p, text)
  /\ s = "PUNCTUATION" => AtPunctuation(lo, p, text)
  /\ s = "COMMENT_SINGLELINE" => InLine(lo, p)
  /\ s = "COMMENT_MULTILINE" => InBlock(lo, p, 0)
  /\ s = "COMMENT_MULTILINE_END" => InBlock(lo, p, 1)
  /\ s = "COMPLETE_TOKEN" => Recognised(lo, p, kind, text)

CutInv == status = "running" => Begun(state, token.from, cur, token.kind, token.text)

\* The classes of characters are distinct.
LEMMA Classes ==
  /\ \A c \in Letters : c \notin Digits \cup OperatorChars \cup Punctuation \cup Whitespace \cup {Quote, Other, NUL}
  /\ \A c \in Digits : c \notin OperatorChars \cup Punctuation \cup Whitespace \cup {Quote, Other, NUL}
  /\ \A c \in OperatorChars : c \notin Punctuation \cup Whitespace \cup {Quote, Other, NUL}
  /\ \A c \in Punctuation : c \notin Whitespace \cup {Quote, Other, NUL}
  /\ \A c \in Whitespace : c \notin {Quote, Other, NUL}
  /\ Quote # Other /\ Quote # NUL /\ Other # NUL /\ Newline # NUL /\ Newline \in Whitespace
  /\ "/" \in OperatorChars /\ "*" \in OperatorChars /\ "/" # "*"
BY CharsAssumption DEF Text, Whitespace, Newline, Quote, Other, NUL

\* The character at a position of the text, and behind it.
LEMMA AtText ==
  ASSUME source \in Seq(Text), NEW p \in Nat \ {0}
  PROVE  /\ p <= Len(source) <=> At(p) # NUL
         /\ p <= Len(source) => At(p) = source[p]
<1>1. Len(source) \in Nat
  OBVIOUS
<1>2. ASSUME p <= Len(source) PROVE source[p] # NUL
  <2>1. source[p] \in Text
    BY <1>1, <1>2, ElementOfSeq
  <2>. QED
    BY <2>1, CharsAssumption
<1>. QED
  BY <1>1, <1>2 DEF At

\* What has been read grows by the character at p.
LEMMA LastGrows ==
  ASSUME source \in Seq(Text), NEW p \in Nat \ {0}, NEW lo \in Nat, lo <= p
  PROVE  /\ Last(p) \in Nat
         /\ p <= Len(source) => Last(p + 1) = p /\ lo .. Last(p + 1) = (lo .. Last(p)) \cup {p}
         /\ p > Len(source) => Last(p + 1) = Last(p)
<1>1. Len(source) \in Nat
  OBVIOUS
<1>. QED
  BY <1>1 DEF Last

\* The value grows by the character at p.
LEMMA HoldsGrows ==
  ASSUME source \in Seq(Text), NEW p \in Nat \ {0}, NEW lo \in Nat \ {0}, lo <= p,
         NEW text, Holds(text, lo, p)
  PROVE  Holds(Append(text, At(p)), lo, p + 1)
<1>1. Len(source) \in Nat
  OBVIOUS
<1>. SUFFICES ASSUME p <= Len(source) PROVE Append(text, At(p)) = Cuts!Span(lo, p)
  BY <1>1 DEF Holds
<1>2. text = Cuts!Span(lo, p - 1)
  BY <1>1 DEF Holds
<1>3. \A i \in 1 .. Len(source) : source[i] \in Text
  BY ElementOfSeq
<1>4. text = [i \in 1 .. p - lo |-> source[lo + i - 1]]
  BY <1>2 DEF Cuts!Span
<1>5. \A i \in 1 .. p - lo : source[lo + i - 1] \in Text
  BY <1>1, <1>3
<1>6. text \in Seq(Text) /\ Len(text) = p - lo
  BY <1>4, <1>5
<1>7. At(p) = source[p] /\ At(p) \in Text
  BY <1>1, <1>3 DEF At
<1>8. /\ Append(text, At(p)) \in Seq(Text) /\ Len(Append(text, At(p))) = p - lo + 1
      /\ \A i \in 1 .. p - lo : Append(text, At(p))[i] = text[i]
      /\ Append(text, At(p))[p - lo + 1] = At(p)
  BY <1>6, <1>7, AppendProperties
<1>. DEFINE s == [i \in 1 .. p - lo + 1 |-> source[lo + i - 1]]
<1>9. \A i \in 1 .. p - lo + 1 : source[lo + i - 1] \in Text
  BY <1>1, <1>3
<1>10. s \in Seq(Text) /\ Len(s) = p - lo + 1
  BY <1>9
<1>11. \A i \in 1 .. p - lo + 1 : Append(text, At(p))[i] = s[i]
  <2>. TAKE i \in 1 .. p - lo + 1
  <2>1. CASE i = p - lo + 1
    BY <1>7, <1>8, <2>1
  <2>2. CASE i # p - lo + 1
    BY <1>4, <1>8, <2>2
  <2>. QED
    BY <2>1, <2>2
<1>12. Append(text, At(p)) = s
  BY <1>8, <1>10, <1>11, SeqEqual
<1>. QED
  BY <1>12 DEF Cuts!Span

\* Nothing has been read yet; one character has.
LEMMA HoldsStart ==
  ASSUME source \in Seq(Text), NEW lo \in Nat \ {0}
  PROVE  /\ Holds(<<>>, lo, lo)
         /\ lo <= Len(source) => Holds(<<At(lo)>>, lo, lo + 1)
<1>1. Cuts!Span(lo, lo - 1) = <<>>
  <2>1. (lo - 1) - lo + 1 = 0
    OBVIOUS
  <2>2. Cuts!Span(lo, lo - 1) = [i \in 1 .. 0 |-> source[lo + i - 1]]
    BY <2>1 DEF Cuts!Span
  <2>. DEFINE s == [i \in 1 .. 0 |-> source[lo + i - 1]]
  <2>4. s \in Seq(Text) /\ Len(s) = 0
    OBVIOUS
  <2>. HIDE DEF s
  <2>5. s = <<>>
    BY <2>4, EmptySeq
  <2>. QED
    BY <2>2, <2>5 DEF s
<1>2. Holds(<<>>, lo, lo)
  BY <1>1 DEF Holds
<1>3. Holds(Append(<<>>, At(lo)), lo, lo + 1)
  <2>1. lo <= lo
    OBVIOUS
  <2>. QED
    BY <1>2, <2>1, HoldsGrows, Zenon
<1>4. Append(<<>>, At(lo)) = <<At(lo)>>
  OBVIOUS
<1>. QED
  BY <1>2, <1>3, <1>4

-----------------------------------------------------------------------------
(* What a character that is read adds.                                     *)

\* Another character of a string, a number, a name or an operator.
LEMMA CharRead ==
  ASSUME source \in Seq(Text), NEW lo \in Nat \ {0}, lo <= Len(source),
         NEW p \in Nat \ {0}, NEW text
  PROVE  /\ InString(lo, p, text) /\ At(p) # Quote => InString(lo, p + 1, Append(text, At(p)))
         /\ InNumber(lo, p, text) /\ In(At(p), Digits) => InNumber(lo, p + 1, Append(text, At(p)))
         /\ InName(lo, p, text) /\ In(At(p), Letters \cup Digits) =>
              InName(lo, p + 1, Append(text, At(p)))
         /\ InOperator(lo, p, text) /\ In(At(p), OperatorChars) =>
              InOperator(lo, p + 1, Append(text, At(p)))
<1>1. Len(source) \in Nat
  OBVIOUS
<1>2. /\ p <= Len(source) <=> At(p) # NUL
      /\ p <= Len(source) => At(p) = source[p]
  BY AtText
<1>3. ASSUME InString(lo, p, text), At(p) # Quote PROVE InString(lo, p + 1, Append(text, At(p)))
  <2>1. lo + 1 <= p /\ Holds(text, lo + 1, p) /\ lo + 1 \in Nat \ {0}
    BY <1>3 DEF InString
  <2>2. Holds(Append(text, At(p)), lo + 1, p + 1)
    BY <2>1, HoldsGrows
  <2>3. \A i \in lo + 1 .. Last(p + 1) : source[i] # Quote
    <3>1. \/ lo + 1 .. Last(p + 1) = lo + 1 .. Last(p)
          \/ lo + 1 .. Last(p + 1) = (lo + 1 .. Last(p)) \cup {p} /\ source[p] = At(p) /\ At(p) # NUL
      <4>1. lo + 1 <= p /\ lo + 1 \in Nat /\ (p <= Len(source) \/ p > Len(source))
        BY <1>1, <2>1
      <4>. QED
        BY <1>2, <4>1, LastGrows
    <3>. QED
      BY <1>3, <3>1 DEF InString
  <2>4. lo < p + 1
    BY <1>3 DEF InString
  <2>. QED
    BY <1>3, <2>1, <2>2, <2>3, <2>4, Zenon DEF InString
<1>4. ASSUME InNumber(lo, p, text), In(At(p), Digits) PROVE InNumber(lo, p + 1, Append(text, At(p)))
  <2>1. Holds(Append(text, At(p)), lo, p + 1)
    BY <1>4, HoldsGrows DEF InNumber
  <2>2. \A i \in lo .. Last(p + 1) : source[i] \in Digits
    <3>1. \/ lo .. Last(p + 1) = lo .. Last(p)
          \/ lo .. Last(p + 1) = (lo .. Last(p)) \cup {p} /\ source[p] = At(p) /\ At(p) # NUL
      <4>1. lo <= p /\ lo \in Nat /\ (p <= Len(source) \/ p > Len(source))
        BY <1>1, <1>4 DEF InNumber
      <4>. QED
        BY <1>2, <4>1, LastGrows
    <3>. QED
      BY <1>4, <3>1 DEF InNumber, In
  <2>4. lo < p + 1
    BY <1>4 DEF InNumber
  <2>. QED
    BY <1>4, <2>1, <2>2, <2>4, Zenon DEF InNumber
<1>5. ASSUME InName(lo, p, text), In(At(p), Letters \cup Digits) PROVE InName(lo, p + 1, Append(text, At(p)))
  <2>1. lo + 1 <= p /\ lo <= p /\ Holds(text, lo, p)
    BY <1>5 DEF InName
  <2>2. Holds(Append(text, At(p)), lo, p + 1)
    BY <2>1, HoldsGrows
  <2>3. \A i \in lo + 1 .. Last(p + 1) : source[i] \in Letters \cup Digits
    <3>1. \/ lo + 1 .. Last(p + 1) = lo + 1 .. Last(p)
          \/ lo + 1 .. Last(p + 1) = (lo + 1 .. Last(p)) \cup {p} /\ source[p] = At(p) /\ At(p) # NUL
      <4>1. lo + 1 <= p /\ lo + 1 \in Nat /\ (p <= Len(source) \/ p > Len(source))
        BY <1>1, <2>1
      <4>. QED
        BY <1>2, <4>1, LastGrows
    <3>. QED
      BY <1>5, <3>1 DEF InName, In
  <2>4. lo < p + 1
    BY <1>5 DEF InName
  <2>. QED
    BY <1>5, <2>1, <2>2, <2>3, <2>4, Zenon DEF InName
<1>6. ASSUME InOperator(lo, p, text), In(At(p), OperatorChars) PROVE InOperator(lo, p + 1, Append(text, At(p)))
  <2>1. Holds(Append(text, At(p)), lo, p + 1)
    BY <1>6, HoldsGrows DEF InOperator
  <2>2. \A i \in lo .. Last(p + 1) : source[i] \in OperatorChars
    <3>1. \/ lo .. Last(p + 1) = lo .. Last(p)
          \/ lo .. Last(p + 1) = (lo .. Last(p)) \cup {p} /\ source[p] = At(p) /\ At(p) # NUL
      <4>1. lo <= p /\ lo \in Nat /\ (p <= Len(source) \/ p > Len(source))
        BY <1>1, <1>6 DEF InOperator
      <4>. QED
        BY <1>2, <4>1, LastGrows
    <3>. QED
      BY <1>6, <3>1 DEF InOperator, In
  <2>4. lo <= p + 1
    BY <1>6 DEF InOperator
  <2>. QED
    BY <1>6, <2>1, <2>2, <2>4, Zenon DEF InOperator
<1>. QED
  BY <1>3, <1>4, <1>5, <1>6

\* The number of stars in front of a position is one number.
LEMMA StarsUnique ==
  ASSUME NEW lo \in Nat, NEW p \in Nat, NEW a \in Nat, NEW b \in Nat,
         StarsBefore(lo, p, a), StarsBefore(lo, p, b)
  PROVE  a = b
<1>1. \A c, d \in Nat : StarsBefore(lo, p, c) /\ StarsBefore(lo, p, d) => ~(c < d)
  <2>. SUFFICES ASSUME NEW c \in Nat, NEW d \in Nat, StarsBefore(lo, p, c),
                       StarsBefore(lo, p, d), c < d
                PROVE  FALSE
    OBVIOUS
  <2>1. p - c - 1 \in p - d .. p - 1 /\ p - c - 1 > lo + 1
    BY DEF StarsBefore
  <2>. QED
    BY <2>1 DEF StarsBefore
<1>. QED
  BY <1>1

\* A slash closes a comment exactly when the number of stars before it is odd.
LEMMA ClosesIffOdd ==
  ASSUME source \in Seq(Text), NEW lo \in Nat \ {0}, NEW p \in Nat \ {0}, lo + 2 <= p,
         NEW stars \in Nat, StarsBefore(lo, p, stars)
  PROVE  Cuts!ClosesComment(lo, p) <=> source[p] = "/" /\ stars % 2 = 1
<1>1. ASSUME source[p] = "/", stars % 2 = 1 PROVE Cuts!ClosesComment(lo, p)
  <2>1. stars \in 1 .. p - lo - 2
    BY <1>1 DEF StarsBefore
  <2>. QED
    BY <1>1, <2>1 DEF StarsBefore, Cuts!ClosesComment, Cuts!All
<1>2. ASSUME Cuts!ClosesComment(lo, p) PROVE source[p] = "/" /\ stars % 2 = 1
  <2>1. PICK k \in 1 .. p - lo - 2 :
          /\ k % 2 = 1
          /\ \A i \in p - k .. p - 1 : source[i] \in {"*"}
          /\ p - k - 1 > lo + 1 => source[p - k - 1] # "*"
    BY <1>2 DEF Cuts!ClosesComment, Cuts!All
  <2>2. StarsBefore(lo, p, k) /\ k \in Nat
    BY <2>1 DEF StarsBefore
  <2>3. k = stars
    BY <2>2, StarsUnique
  <2>. QED
    BY <1>2, <2>1, <2>3 DEF Cuts!ClosesComment
<1>. QED
  BY <1>1, <1>2

\* A star is one more star; any other character ends the row.
LEMMA StarsGrow ==
  ASSUME NEW lo \in Nat \ {0}, NEW p \in Nat \ {0}, lo + 2 <= p,
         NEW stars \in Nat, StarsBefore(lo, p, stars)
  PROVE  /\ source[p] = "*" => StarsBefore(lo, p + 1, stars + 1)
         /\ source[p] # "*" => StarsBefore(lo, p + 1, 0)
<1>1. ASSUME source[p] = "*" PROVE StarsBefore(lo, p + 1, stars + 1)
  <2>1. stars + 1 \in 0 .. (p + 1) - lo - 2
    BY DEF StarsBefore
  <2>2. \A i \in (p + 1) - (stars + 1) .. (p + 1) - 1 : i \in p - stars .. p - 1 \/ i = p
    OBVIOUS
  <2>3. (p + 1) - (stars + 1) - 1 = p - stars - 1
    OBVIOUS
  <2>. QED
    BY <1>1, <2>1, <2>2, <2>3 DEF StarsBefore
<1>2. ASSUME source[p] # "*" PROVE StarsBefore(lo, p + 1, 0)
  <2>1. 0 \in 0 .. (p + 1) - lo - 2 /\ (p + 1) - 0 - 1 = p
    OBVIOUS
  <2>2. \A i \in (p + 1) - 0 .. (p + 1) - 1 : FALSE
    OBVIOUS
  <2>. QED
    BY <1>2, <2>1, <2>2 DEF StarsBefore
<1>. QED
  BY <1>1, <1>2

\* Odd and even numbers alternate.
LEMMA Parity ==
  ASSUME NEW n \in Nat
  PROVE  /\ 0 % 2 = 0 /\ n % 2 \in {0, 1}
         /\ n % 2 = 0 => (n + 1) % 2 = 1
         /\ n % 2 = 1 => (n + 1) % 2 = 0
OBVIOUS

\* A character of a comment that is not its end.
LEMMA BlockRead ==
  ASSUME source \in Seq(Text), NEW lo \in Nat \ {0}, lo <= Len(source),
         NEW p \in Nat \ {0}, p <= Len(source) + 1,
         NEW parity \in {0, 1}, InBlock(lo, p, parity),
         parity = 1 => At(p) # "/"
  PROVE  InBlock(lo, p + 1, IF At(p) = "*" /\ parity = 0 THEN 1 ELSE 0)
<1>1. /\ Len(source) \in Nat /\ Cuts!OpensComment(lo) /\ source[lo + 1] = "*" /\ lo + 2 <= p
      /\ lo + 2 \in Nat /\ lo + 2 <= p + 1
  BY DEF InBlock
<1>2. CASE p > Len(source)
  <2>1. Last(p + 1) = Last(p) /\ ~(p + 1 <= Len(source) + 1)
    BY <1>1, <1>2, LastGrows
  <2>2. \A i \in lo + 2 .. Last(p + 1) : ~Cuts!ClosesComment(lo, i)
    BY <2>1 DEF InBlock
  <2>. QED
    BY <1>1, <2>1, <2>2 DEF InBlock
<1>3. CASE p <= Len(source)
  <2>1. PICK stars \in Nat : StarsBefore(lo, p, stars) /\ stars % 2 = parity
    BY <1>1, <1>3 DEF InBlock
  <2>2. At(p) = source[p]
    BY <1>3, AtText
  <2>3. ~Cuts!ClosesComment(lo, p)
    <3>1. Cuts!ClosesComment(lo, p) => source[p] = "/" /\ parity = 1
      BY <1>1, <2>1, ClosesIffOdd
    <3>. QED
      BY <2>2, <3>1
  <2>4. \A i \in lo + 2 .. Last(p + 1) : ~Cuts!ClosesComment(lo, i)
    <3>1. lo + 2 .. Last(p + 1) = (lo + 2 .. Last(p)) \cup {p}
      BY <1>1, <1>3, LastGrows
    <3>. QED
      BY <2>3, <3>1 DEF InBlock
  <2>5. CASE At(p) = "*"
    <3>1. StarsBefore(lo, p + 1, stars + 1)
      BY <1>1, <2>1, <2>2, <2>5, StarsGrow
    <3>2. (stars + 1) % 2 = (IF parity = 0 THEN 1 ELSE 0) /\ stars + 1 \in Nat
      BY <2>1, Parity
    <3>. QED
      BY <1>1, <2>4, <2>5, <3>1, <3>2 DEF InBlock
  <2>6. CASE At(p) # "*"
    <3>1. StarsBefore(lo, p + 1, 0)
      BY <1>1, <2>1, <2>2, <2>6, StarsGrow
    <3>2. 0 % 2 = 0 /\ 0 \in Nat
      BY Parity
    <3>. QED
      BY <1>1, <2>4, <2>6, <3>1, <3>2 DEF InBlock
  <2>. QED
    BY <2>5, <2>6
<1>. QED
  BY <1>1, <1>2, <1>3

-----------------------------------------------------------------------------
(* Where a lexeme ends.                                                    *)

\* The first character of a lexeme tells what it can be.
LEMMA FirstTells ==
  ASSUME NEW lo \in Nat, NEW hi \in Nat, lo <= hi
  PROVE  /\ Cuts!IsString(lo, hi) => source[lo] = Quote
         /\ Cuts!IsNumber(lo, hi) => source[lo] \in Digits
         /\ Cuts!IsOperator(lo, hi) => source[lo] \in OperatorChars
         /\ Cuts!IsName(lo, hi) => source[lo] \in Letters \cup {Other}
         /\ Cuts!IsPunctuation(lo, hi) => source[lo] \in Punctuation
         /\ Cuts!Comment(lo, hi) => source[lo] = "/"
<1>1. lo \in lo .. hi
  OBVIOUS
<1>. QED
  BY <1>1 DEF Cuts!IsString, Cuts!IsNumber, Cuts!IsOperator, Cuts!IsName, Cuts!IsPunctuation,
              Cuts!Comment, Cuts!OpensComment, Cuts!Run, Cuts!All, Punctuation

\* A character that is not in a set with NUL is one of the text.
LEMMA NotIn ==
  ASSUME source \in Seq(Text), NEW p \in Nat \ {0}, NEW set, ~In(At(p), set)
  PROVE  p <= Len(source) /\ At(p) = source[p] /\ source[p] \notin set /\ Last(p) = p - 1
<1>1. At(p) # NUL
  BY DEF In
<1>2. p <= Len(source) /\ At(p) = source[p] /\ Len(source) \in Nat
  BY <1>1, AtText
<1>. QED
  BY <1>2 DEF In, Last

\* At its end each kind of lexeme is one of Lexemes, with its kind and value:
\* a string behind its second quote,
LEMMA StringEnds ==
  ASSUME source \in Seq(Text), NEW lo \in Nat \ {0}, NEW p \in Nat \ {0}, NEW text,
         InString(lo, p, text), At(p) = Quote
  PROVE  Recognised(lo, p + 1, "LITERAL_STRING", text)
<1>1. p <= Len(source) /\ source[p] = Quote /\ Len(source) \in Nat
  BY AtText, Classes
<1>2. source[lo] = Quote /\ lo < p /\ Last(p) = p - 1 /\ (p + 1) - 1 = p
  BY <1>1 DEF InString, Last
<1>3. Cuts!IsString(lo, p)
  BY <1>1, <1>2 DEF InString, Cuts!IsString
<1>4. text = Cuts!Span(lo + 1, p - 1)
  BY <1>1 DEF InString, Holds
<1>5. ~Cuts!IsOperator(lo, p)
  BY <1>2, FirstTells, Classes
<1>. QED
  BY <1>1, <1>2, <1>3, <1>4, <1>5 DEF Recognised, Cuts!Lexeme, Cuts!Kind, Cuts!Value

\* a number in front of a character that is no digit, which must not be a letter,
LEMMA NumberEnds ==
  ASSUME source \in Seq(Text), NEW lo \in Nat \ {0}, NEW p \in Nat \ {0}, NEW text,
         InNumber(lo, p, text), ~In(At(p), Digits)
  PROVE  /\ p - 1 \in lo .. Len(source) /\ Cuts!Run(lo, p - 1, Digits) /\ source[p] = At(p)
         /\ ~In(At(p), Letters) => Recognised(lo, p, "LITERAL_NUMERIC", text)
<1>1. /\ p <= Len(source) /\ At(p) = source[p] /\ source[p] \notin Digits /\ Last(p) = p - 1
      /\ Len(source) \in Nat /\ p - 1 \in Nat /\ (p - 1) + 1 = p /\ lo <= p - 1 /\ lo < p
      /\ source[lo] \in Digits
  BY NotIn DEF InNumber
<1>2. Cuts!Run(lo, p - 1, Digits)
  BY <1>1 DEF InNumber, Cuts!Run, Cuts!All
<1>3. ASSUME ~In(At(p), Letters) PROVE Recognised(lo, p, "LITERAL_NUMERIC", text)
  <2>1. source[p] \notin Letters
    BY <1>1, <1>3 DEF In
  <2>2. Cuts!IsNumber(lo, p - 1)
    BY <1>1, <1>2, <2>1 DEF Cuts!IsNumber
  <2>3. ~Cuts!IsString(lo, p - 1) /\ ~Cuts!IsOperator(lo, p - 1)
    BY <1>1, FirstTells, Classes
  <2>4. text = Cuts!Span(lo, p - 1)
    BY <1>1 DEF InNumber, Holds
  <2>5. p <= Len(source) + 1
    BY <1>1
  <2>. QED
    BY <1>1, <2>2, <2>3, <2>4, <2>5 DEF Recognised, Cuts!Lexeme, Cuts!Kind, Cuts!Value
<1>. QED
  BY <1>1, <1>2, <1>3

\* an operator, whether or not anybody has declared it,
LEMMA OperatorEnds ==
  ASSUME source \in Seq(Text), NEW lo \in Nat \ {0}, NEW p \in Nat \ {0}, NEW text,
         InOperator(lo, p, text), ~In(At(p), OperatorChars)
  PROVE  /\ p - 1 \in lo .. Len(source) /\ Cuts!IsOperator(lo, p - 1)
         /\ text = Cuts!Span(lo, p - 1)
         /\ text \in OperatorNames => Recognised(lo, p, "OPERATOR", text)
<1>1. /\ p <= Len(source) /\ source[p] \notin OperatorChars /\ Last(p) = p - 1
      /\ source[lo] \in OperatorChars /\ lo <= p /\ Len(source) \in Nat
  BY NotIn DEF InOperator
<1>2. lo # p
  BY <1>1
<1>3. p - 1 \in Nat /\ (p - 1) + 1 = p /\ lo <= p - 1 /\ lo < p /\ p <= Len(source) + 1
  BY <1>1, <1>2
<1>4. Cuts!IsOperator(lo, p - 1)
  BY <1>1, <1>3 DEF InOperator, Cuts!IsOperator, Cuts!Run, Cuts!All
<1>5. text = Cuts!Span(lo, p - 1)
  BY <1>3 DEF InOperator, Holds
<1>6. ~Cuts!IsString(lo, p - 1) /\ ~Cuts!IsNumber(lo, p - 1) /\ ~Cuts!IsPunctuation(lo, p - 1)
  BY <1>1, <1>3, FirstTells, Classes
<1>7. ASSUME text \in OperatorNames PROVE Recognised(lo, p, "OPERATOR", text)
  <2>1. text \notin KeywordNames
    BY <1>7, NamesAssumption
  <2>. QED
    BY <1>3, <1>4, <1>5, <1>6, <1>7, <2>1 DEF Recognised, Cuts!Lexeme, Cuts!Kind, Cuts!Value
<1>. QED
  BY <1>1, <1>3, <1>4, <1>5, <1>7

\* a name, be it a keyword, an operator spelled with letters or an identifier,
LEMMA NameEnds ==
  ASSUME source \in Seq(Text), NEW lo \in Nat \ {0}, NEW p \in Nat \ {0}, NEW text,
         InName(lo, p, text), ~In(At(p), Letters \cup Digits)
  PROVE  Recognised(lo, p, IF text \in KeywordNames THEN "KEYWORD"
                          ELSE IF text \in OperatorNames THEN "OPERATOR"
                          ELSE "IDENTIFIER", text)
<1>1. /\ p <= Len(source) /\ source[p] \notin Letters \cup Digits /\ Last(p) = p - 1
      /\ source[lo] \in Letters \cup {Other} /\ lo < p /\ Len(source) \in Nat
  BY NotIn DEF InName
<1>2. p - 1 \in Nat /\ (p - 1) + 1 = p /\ lo <= p - 1 /\ p <= Len(source) + 1
  BY <1>1
<1>3. Cuts!IsName(lo, p - 1)
  BY <1>1, <1>2 DEF InName, Cuts!IsName, Cuts!All, Cuts!Word
<1>4. text = Cuts!Span(lo, p - 1)
  BY <1>2 DEF InName, Holds
<1>5. /\ ~Cuts!IsString(lo, p - 1) /\ ~Cuts!IsNumber(lo, p - 1)
      /\ ~Cuts!IsPunctuation(lo, p - 1) /\ ~Cuts!IsOperator(lo, p - 1)
  BY <1>1, <1>2, FirstTells, Classes
<1>. QED
  BY <1>1, <1>2, <1>3, <1>4, <1>5 DEF Recognised, Cuts!Lexeme, Cuts!Kind, Cuts!Value

\* a punctuation character, which is taken alone,
LEMMA PunctuationEnds ==
  ASSUME source \in Seq(Text), NEW lo \in Nat \ {0}, lo <= Len(source), NEW p, NEW text,
         AtPunctuation(lo, p, text)
  PROVE  Recognised(lo, p + 1, PunctuationKind[At(p)], Append(text, At(p)))
<1>1. /\ p = lo /\ text = <<>> /\ source[lo] \in Punctuation /\ At(lo) = source[lo]
      /\ Len(source) \in Nat /\ (lo + 1) - 1 = lo /\ lo < lo + 1 /\ lo + 1 <= Len(source) + 1
      /\ lo <= lo
  BY AtText DEF AtPunctuation
<1>2. Cuts!IsPunctuation(lo, lo)
  BY <1>1 DEF Cuts!IsPunctuation, Punctuation
<1>3. ~Cuts!IsString(lo, lo) /\ ~Cuts!IsNumber(lo, lo) /\ ~Cuts!IsOperator(lo, lo)
  BY <1>1, FirstTells, Classes
<1>4. Append(text, At(p)) = Cuts!Span(lo, lo)
  <2>1. Holds(<<>>, lo, lo)
    BY HoldsStart
  <2>2. Holds(text, lo, lo)
    BY <1>1, <2>1, Zenon
  <2>3. Holds(Append(text, At(lo)), lo, lo + 1)
    BY <1>1, <2>2, HoldsGrows
  <2>. QED
    BY <1>1, <2>3 DEF Holds
<1>. DEFINE t == Append(text, At(p))
<1>5. t = Cuts!Span(lo, lo)
  BY <1>4
<1>. HIDE DEF t
<1>6. Recognised(lo, lo + 1, PunctuationKind[source[lo]], t)
  BY <1>1, <1>2, <1>3, <1>5 DEF Recognised, Cuts!Lexeme, Cuts!Kind, Cuts!Value
<1>. QED
  BY <1>1, <1>6, Zenon DEF t

\* and both kinds of comment.
LEMMA CommentEnds ==
  ASSUME source \in Seq(Text), NEW lo \in Nat \ {0}, NEW p \in Nat \ {0}
  PROVE  /\ InLine(lo, p) /\ At(p) = Newline =>
              p - 1 \in lo .. Len(source) /\ Cuts!Comment(lo, p - 1)
         /\ InBlock(lo, p, 1) /\ At(p) = "/" =>
              p \in lo .. Len(source) /\ Cuts!Comment(lo, p)
<1>1. Len(source) \in Nat
  OBVIOUS
<1>2. ASSUME InLine(lo, p), At(p) = Newline
      PROVE  p - 1 \in lo .. Len(source) /\ Cuts!Comment(lo, p - 1)
  <2>1. p <= Len(source) /\ source[p] = Newline /\ lo < p /\ (p - 1) + 1 = p
    BY <1>2, AtText, Classes DEF InLine
  <2>2. Last(p) = p - 1
    BY <1>1, <2>1 DEF Last
  <2>. QED
    BY <1>1, <1>2, <2>1, <2>2 DEF InLine, Cuts!Comment
<1>3. ASSUME InBlock(lo, p, 1), At(p) = "/"
      PROVE  p \in lo .. Len(source) /\ Cuts!Comment(lo, p)
  <2>1. p <= Len(source) /\ source[p] = "/" /\ lo + 2 <= p
    BY <1>3, AtText, Classes DEF InBlock
  <2>2. Last(p) = p - 1 /\ p <= Len(source) + 1
    BY <1>1, <2>1 DEF Last
  <2>3. PICK stars \in Nat : StarsBefore(lo, p, stars) /\ stars % 2 = 1
    BY <1>3, <2>2 DEF InBlock
  <2>4. Cuts!ClosesComment(lo, p)
    BY <2>1, <2>3, ClosesIffOdd
  <2>. QED
    BY <1>1, <1>3, <2>1, <2>2, <2>4, Classes DEF InBlock, Cuts!Comment
<1>. QED
  BY <1>2, <1>3

\* What the text ends in before it is complete is nothing that can be cut off.
LEMMA NeverEnds ==
  ASSUME source \in Seq(Text), NEW lo \in Nat \ {0}, NEW s \in States \ {"NEW_TOKEN"},
         NEW kind, NEW text, Begun(s, lo, Len(source) + 2, kind, text)
  PROVE  /\ lo <= Len(source) /\ source[lo] \notin Whitespace
         /\ \A hi \in lo .. Len(source) : ~Cuts!Lexeme(lo, hi) /\ ~Cuts!Comment(lo, hi)
         /\ ~\E hi \in lo .. Len(source) - 1 : Cuts!Run(lo, hi, Digits)
<1>. DEFINE n == Len(source)
<1>1. /\ n \in Nat /\ lo <= n /\ Last(n + 2) = n /\ lo \in lo .. n /\ lo # n + 2
  BY DEF Begun, Last
<1>2. s \notin {"PUNCTUATION", "COMPLETE_TOKEN"}
  BY <1>1 DEF Begun, AtPunctuation, Recognised
<1>3. /\ \A hi \in lo .. n : hi \in Nat /\ lo <= hi /\ lo \in lo .. hi /\ lo + 1 <= n + 1
      /\ \A hi \in lo .. n : hi < n => hi + 1 \in lo + 1 .. n /\ hi + 1 \in lo .. n
      /\ \A hi \in lo .. n : hi > lo => hi \in lo + 1 .. n
      /\ \A hi \in lo .. n - 1 : hi \in lo .. n /\ hi < n
  BY <1>1
<1>4. ASSUME NEW hi \in lo .. n, Cuts!Run(lo, hi, Digits) PROVE source[lo] \in Digits
  BY <1>3, <1>4 DEF Cuts!Run, Cuts!All
<1>. HIDE DEF n
<1>5. CASE s = "STRING_LITERAL"
  <2>1. /\ source[lo] = Quote
        /\ \A i \in lo + 1 .. n : source[i] # Quote
    BY <1>1, <1>5 DEF Begun, InString, n
  <2>2. \A hi \in lo .. n : ~Cuts!IsString(lo, hi)
    BY <1>3, <2>1 DEF Cuts!IsString
  <2>. QED
    BY <1>1, <1>3, <1>4, <2>1, <2>2, FirstTells, Classes DEF Cuts!Lexeme, n
<1>6. CASE s = "NUMERIC_LITERAL"
  <2>1. source[lo] \in Digits /\ \A i \in lo .. n : source[i] \in Digits
    BY <1>1, <1>6 DEF Begun, InNumber, n
  <2>2. \A hi \in lo .. n : ~Cuts!Run(lo, hi, Digits)
    BY <1>3, <2>1 DEF Cuts!Run, n
  <2>3. \A hi \in lo .. n : ~Cuts!IsNumber(lo, hi)
    BY <2>2 DEF Cuts!IsNumber
  <2>. QED
    BY <1>1, <1>3, <2>1, <2>2, <2>3, FirstTells, Classes DEF Cuts!Lexeme, n
<1>7. CASE s = "IDENTIFIER"
  <2>1. /\ source[lo] \in Letters \cup {Other}
        /\ \A i \in lo + 1 .. n : source[i] \in Letters \cup Digits
    BY <1>1, <1>7 DEF Begun, InName, n
  <2>2. \A hi \in lo .. n : ~Cuts!IsName(lo, hi)
    BY <1>3, <2>1 DEF Cuts!IsName, Cuts!Word, n
  <2>. QED
    BY <1>1, <1>3, <1>4, <2>1, <2>2, FirstTells, Classes DEF Cuts!Lexeme, n
<1>8. CASE s = "OPERATOR"
  <2>1. /\ source[lo] \in OperatorChars /\ ~Cuts!OpensComment(lo)
        /\ \A i \in lo .. n : source[i] \in OperatorChars
    BY <1>1, <1>8 DEF Begun, InOperator, n
  <2>2. \A hi \in lo .. n : ~Cuts!IsOperator(lo, hi)
    BY <1>3, <2>1 DEF Cuts!IsOperator, Cuts!Run, n
  <2>3. \A hi \in lo .. n : ~Cuts!Comment(lo, hi)
    BY <2>1 DEF Cuts!Comment
  <2>. QED
    BY <1>1, <1>3, <1>4, <2>1, <2>2, <2>3, FirstTells, Classes DEF Cuts!Lexeme, n
<1>9. CASE s \in {"COMMENT_SINGLELINE", "COMMENT_MULTILINE", "COMMENT_MULTILINE_END"}
  <2>1. Cuts!OpensComment(lo) /\ source[lo] = "/"
    BY <1>9 DEF Begun, InLine, InBlock, Cuts!OpensComment
  <2>2. \A hi \in lo .. n : ~Cuts!IsOperator(lo, hi)
    BY <2>1 DEF Cuts!IsOperator
  <2>3. \A hi \in lo .. n : ~Cuts!Comment(lo, hi)
    <3>1. CASE s = "COMMENT_SINGLELINE"
      <4>1. source[lo + 1] = "/" /\ \A i \in lo .. n : source[i] # Newline
        BY <1>1, <3>1 DEF Begun, InLine, n
      <4>. QED
        BY <1>3, <4>1 DEF Cuts!Comment, n
    <3>2. CASE s # "COMMENT_SINGLELINE"
      <4>1. source[lo + 1] = "*" /\ \A i \in lo + 2 .. n : ~Cuts!ClosesComment(lo, i)
        BY <1>1, <1>9, <3>2 DEF Begun, InBlock, n
      <4>2. \A hi \in lo .. n : Cuts!ClosesComment(lo, hi) => hi \in lo + 2 .. n
        BY <1>1 DEF Cuts!ClosesComment
      <4>. QED
        BY <4>1, <4>2, Classes DEF Cuts!Comment
    <3>. QED
      BY <3>1, <3>2
  <2>. QED
    BY <1>1, <1>3, <1>4, <2>1, <2>2, <2>3, FirstTells, Classes DEF Cuts!Lexeme, n
<1>. QED
  BY <1>2, <1>5, <1>6, <1>7, <1>8, <1>9 DEF States

-----------------------------------------------------------------------------
(* The steps.                                                              *)

\* A step that reads a character leaves what its next state needs.
LEMMA ReadsCutInv ==
  ASSUME TypeInv, CutInv, Reads
  PROVE  status' = "running" => Begun(state', token'.from, cur', token'.kind, token'.text)
<1>. SUFFICES ASSUME status' = "running"
              PROVE  Begun(state', token'.from, cur', token'.kind, token'.text)
  OBVIOUS
<1>1. /\ source \in Seq(Text) /\ Len(source) \in Nat /\ End = Len(source) + 2
      /\ cur \in 1 .. End /\ cur \in Nat \ {0} /\ token \in TokenType
      /\ token.from \in Nat \ {0} /\ token.text \in Seq(Chars)
  BY Types DEF TokenType
<1>2. /\ source' = source /\ status = "running" /\ cur < End
  BY ReadsKeepTheList
<1>3. Begun(state, token.from, cur, token.kind, token.text)
  BY <1>2 DEF CutInv
<1>4. /\ cur <= Len(source) <=> At(cur) # NUL
      /\ cur <= Len(source) => At(cur) = source[cur]
  BY <1>1, AtText
<1>5. Fresh.from = cur /\ Fresh.text = <<>> /\ Fresh \in [kind : {"UNKNOWN"}, text : {<<>>}, from : {cur}, line : {line}]
  BY DEF Fresh
<1>6. CASE NewBlank
  BY <1>6 DEF NewBlank, Running, Begun
<1>7. CASE NewComment
  <2>1. At(cur) = "/" /\ token'.from = cur /\ cur <= Len(source) /\ source[cur] = "/"
    BY <1>4, <1>5, <1>7, Classes DEF NewComment
  <2>2. /\ cur + 1 <= Len(source) <=> At(cur + 1) # NUL
        /\ cur + 1 <= Len(source) => At(cur + 1) = source[cur + 1]
    BY <1>1, AtText
  <2>3. CASE At(cur + 1) = "*" /\ cur' = cur + 2 /\ state' = "COMMENT_MULTILINE"
    <3>1. cur + 1 <= Len(source) /\ source[cur + 1] = "*" /\ Cuts!OpensComment(cur)
      BY <1>1, <2>1, <2>2, <2>3, Classes DEF Cuts!OpensComment
    <3>2. StarsBefore(cur, cur + 2, 0) /\ 0 % 2 = 0 /\ 0 \in Nat
      BY <1>1, Parity DEF StarsBefore
    <3>3. \A i \in cur + 2 .. Last(cur + 2) : FALSE
      BY <1>1, <3>1 DEF Last
    <3>4. InBlock(cur, cur + 2, 0)
      BY <1>1, <3>1, <3>2, <3>3 DEF InBlock
    <3>. QED
      BY <2>1, <2>3, <3>4 DEF Begun
  <2>4. CASE At(cur + 1) = "/" /\ cur' = cur + 1 /\ state' = "COMMENT_SINGLELINE"
    <3>1. cur + 1 <= Len(source) /\ source[cur + 1] = "/" /\ Cuts!OpensComment(cur)
      BY <1>1, <2>1, <2>2, <2>4, Classes DEF Cuts!OpensComment
    <3>2. \A i \in cur .. Last(cur + 1) : i = cur
      BY <1>1, <2>1 DEF Last
    <3>3. InLine(cur, cur + 1)
      BY <1>1, <2>1, <3>1, <3>2, OnlyBlanksBreak DEF InLine
    <3>. QED
      BY <2>1, <2>4, <3>3 DEF Begun
  <2>. QED
    BY <1>7, <2>3, <2>4 DEF NewComment, Goto
<1>8. CASE NewString
  <2>1. /\ At(cur) = Quote /\ token'.from = cur /\ token'.text = <<>> /\ cur' = cur + 1
        /\ state' = "STRING_LITERAL" /\ cur <= Len(source) /\ source[cur] = Quote
    BY <1>4, <1>5, <1>8, Classes DEF NewString, Goto
  <2>2. \A i \in cur + 1 .. Last(cur + 1) : FALSE
    BY <1>1, <2>1 DEF Last
  <2>3. Holds(<<>>, cur + 1, cur + 1)
    <3>1. cur + 1 \in Nat \ {0}
      BY <1>1
    <3>. QED
      BY <1>1, <3>1, HoldsStart, Zenon
  <2>4. InString(cur, cur + 1, <<>>)
    BY <1>1, <2>1, <2>2, <2>3 DEF InString
  <2>. QED
    BY <2>1, <2>4 DEF Begun
<1>9. CASE NewOther
  <2>1. /\ token' = Fresh /\ token'.from = cur /\ token'.text = <<>> /\ cur' = cur
        /\ cur <= Len(source) /\ source[cur] = At(cur)
        /\ At(cur) \in OperatorChars \cup Punctuation
    BY <1>4, <1>5, <1>9, Classes DEF NewOther
  <2>2. CASE At(cur) \in OperatorChars /\ state' = "OPERATOR"
    <3>1. ~Cuts!OpensComment(cur)
      <4>1. cur < Len(source) => At(cur + 1) = source[cur + 1]
        BY <1>1, AtText
      <4>. QED
        BY <1>9, <2>1, <4>1 DEF NewOther, Cuts!OpensComment
    <3>2. \A i \in cur .. Last(cur) : FALSE
      BY <1>1, <2>1 DEF Last
    <3>3. Holds(<<>>, cur, cur)
      BY <1>1, HoldsStart
    <3>4. InOperator(cur, cur, <<>>)
      BY <1>1, <2>1, <2>2, <3>1, <3>2, <3>3 DEF InOperator
    <3>. QED
      BY <2>1, <2>2, <3>4 DEF Begun
  <2>3. CASE At(cur) \in Punctuation /\ state' = "PUNCTUATION"
    BY <2>1, <2>3 DEF Begun, AtPunctuation
  <2>. QED
    BY <1>9, <2>1, <2>2, <2>3 DEF NewOther, Goto
<1>10. CASE NewWord
  <2>1. /\ token' = [Fresh EXCEPT !.text = <<At(cur)>>] /\ cur' = cur + 1
        /\ At(cur) \in Digits \cup Letters \cup {Other}
        /\ state' = IF At(cur) \in Digits THEN "NUMERIC_LITERAL" ELSE "IDENTIFIER"
    BY <1>10 DEF NewWord, Goto
  <2>2. token'.from = cur /\ token'.text = <<At(cur)>>
    BY <2>1 DEF Fresh
  <2>3. cur <= Len(source) /\ source[cur] = At(cur)
    BY <1>4, <2>1, Classes
  <2>4. Holds(<<At(cur)>>, cur, cur + 1)
    BY <1>1, <2>3, HoldsStart
  <2>5. /\ \A i \in cur .. Last(cur + 1) : i = cur
        /\ \A i \in cur + 1 .. Last(cur + 1) : FALSE
        /\ cur < cur + 1
    BY <1>1, <2>3 DEF Last
  <2>. DEFINE t == <<At(cur)>>
  <2>. HIDE DEF t
  <2>6. Holds(t, cur, cur + 1) /\ token'.text = t
    BY <2>2, <2>4, Zenon DEF t
  <2>7. At(cur) \in Digits => InNumber(cur, cur + 1, t)
    BY <2>3, <2>5, <2>6 DEF InNumber
  <2>8. At(cur) \notin Digits => InName(cur, cur + 1, t)
    BY <2>1, <2>3, <2>5, <2>6 DEF InName
  <2>. QED
    BY <2>1, <2>2, <2>3, <2>6, <2>7, <2>8 DEF Begun
<1>11. CASE StringChar \/ NumberChar \/ OperatorChar \/ IdentifierChar
  <2>1. /\ token' = [token EXCEPT !.text = Append(token.text, At(cur))] /\ cur' = cur + 1
        /\ state' = state
    BY <1>11 DEF StringChar, NumberChar, OperatorChar, IdentifierChar, Take
  <2>2. token'.from = token.from /\ token'.text = Append(token.text, At(cur))
    BY <1>1, <2>1 DEF TokenType
  <2>3. /\ StringChar => state = "STRING_LITERAL" /\ At(cur) # Quote
        /\ NumberChar => state = "NUMERIC_LITERAL" /\ In(At(cur), Digits)
        /\ OperatorChar => state = "OPERATOR" /\ In(At(cur), OperatorChars)
        /\ IdentifierChar => state = "IDENTIFIER" /\ In(At(cur), Letters \cup Digits)
    BY DEF StringChar, NumberChar, OperatorChar, IdentifierChar, Running
  <2>4. /\ token.from <= Len(source)
        /\ state = "STRING_LITERAL" => InString(token.from, cur, token.text)
        /\ state = "NUMERIC_LITERAL" => InNumber(token.from, cur, token.text)
        /\ state = "OPERATOR" => InOperator(token.from, cur, token.text)
        /\ state = "IDENTIFIER" => InName(token.from, cur, token.text)
    BY <1>3, <1>11, <2>3 DEF Begun
  <2>. DEFINE t == Append(token.text, At(cur))
  <2>5. /\ StringChar => InString(token.from, cur + 1, t)
        /\ NumberChar => InNumber(token.from, cur + 1, t)
        /\ OperatorChar => InOperator(token.from, cur + 1, t)
        /\ IdentifierChar => InName(token.from, cur + 1, t)
    BY <1>1, <2>3, <2>4, CharRead, Zenon
  <2>6. token'.text = t
    BY <2>2
  <2>. HIDE DEF t
  <2>. QED
    BY <1>11, <2>1, <2>2, <2>3, <2>4, <2>5, <2>6 DEF Begun
<1>12. CASE StringEnd
  <2>1. /\ token' = [token EXCEPT !.kind = "LITERAL_STRING"] /\ cur' = cur + 1
        /\ state' = "COMPLETE_TOKEN" /\ state = "STRING_LITERAL" /\ At(cur) = Quote
    BY <1>12 DEF StringEnd, Goto, Running
  <2>2. token'.from = token.from /\ token'.text = token.text /\ token'.kind = "LITERAL_STRING"
    BY <1>1, <2>1 DEF TokenType
  <2>3. token.from <= Len(source) /\ InString(token.from, cur, token.text)
    BY <1>3, <2>1 DEF Begun
  <2>4. Recognised(token.from, cur + 1, "LITERAL_STRING", token.text)
    BY <1>1, <2>1, <2>3, StringEnds
  <2>. QED
    BY <2>1, <2>2, <2>3, <2>4 DEF Begun
<1>13. CASE NumberEnd
  <2>1. /\ token' = [token EXCEPT !.kind = "LITERAL_NUMERIC"] /\ cur' = cur
        /\ state' = "COMPLETE_TOKEN" /\ state = "NUMERIC_LITERAL"
        /\ ~In(At(cur), Digits) /\ ~In(At(cur), Letters)
    BY <1>13 DEF NumberEnd, Goto, Running
  <2>2. token'.from = token.from /\ token'.text = token.text /\ token'.kind = "LITERAL_NUMERIC"
    BY <1>1, <2>1 DEF TokenType
  <2>3. token.from <= Len(source) /\ InNumber(token.from, cur, token.text)
    BY <1>3, <2>1 DEF Begun
  <2>4. Recognised(token.from, cur, "LITERAL_NUMERIC", token.text)
    BY <1>1, <2>1, <2>3, NumberEnds
  <2>. QED
    BY <2>1, <2>2, <2>3, <2>4 DEF Begun
<1>14. CASE OperatorEnd
  <2>1. /\ token' = [token EXCEPT !.kind = "OPERATOR"] /\ cur' = cur
        /\ state' = "COMPLETE_TOKEN" /\ state = "OPERATOR"
        /\ ~In(At(cur), OperatorChars) /\ token.text \in OperatorNames
    BY <1>14 DEF OperatorEnd, Goto, Running
  <2>2. token'.from = token.from /\ token'.text = token.text /\ token'.kind = "OPERATOR"
    BY <1>1, <2>1 DEF TokenType
  <2>3. token.from <= Len(source) /\ InOperator(token.from, cur, token.text)
    BY <1>3, <2>1 DEF Begun
  <2>4. Recognised(token.from, cur, "OPERATOR", token.text)
    BY <1>1, <2>1, <2>3, OperatorEnds
  <2>. QED
    BY <2>1, <2>2, <2>3, <2>4 DEF Begun
<1>15. CASE IdentifierEnd
  <2>. DEFINE k == IF token.text \in KeywordNames THEN "KEYWORD"
                   ELSE IF token.text \in OperatorNames THEN "OPERATOR" ELSE "IDENTIFIER"
  <2>1. /\ token' = [token EXCEPT !.kind = k] /\ cur' = cur
        /\ state' = "COMPLETE_TOKEN" /\ state = "IDENTIFIER"
        /\ ~In(At(cur), Letters \cup Digits)
    BY <1>15 DEF IdentifierEnd, Goto, Running
  <2>2. token.from <= Len(source) /\ InName(token.from, cur, token.text)
    BY <1>3, <2>1 DEF Begun
  <2>3. Recognised(token.from, cur, k, token.text)
    BY <1>1, <2>1, <2>2, NameEnds
  <2>. HIDE DEF k
  <2>4. token'.from = token.from /\ token'.text = token.text /\ token'.kind = k
    BY <1>1, <2>1 DEF TokenType
  <2>. QED
    BY <2>1, <2>2, <2>3, <2>4 DEF Begun
<1>16. CASE PunctuationChar
  <2>. DEFINE k == PunctuationKind[At(cur)]
              t == Append(token.text, At(cur))
  <2>1. /\ token' = [token EXCEPT !.text = t, !.kind = k] /\ cur' = cur + 1
        /\ state' = "COMPLETE_TOKEN" /\ state = "PUNCTUATION"
    BY <1>16 DEF PunctuationChar, Goto, Running
  <2>2. token.from <= Len(source) /\ AtPunctuation(token.from, cur, token.text)
    BY <1>3, <2>1 DEF Begun
  <2>3. Recognised(token.from, cur + 1, k, t)
    BY <1>1, <2>2, PunctuationEnds, Zenon
  <2>. HIDE DEF k, t
  <2>4. token'.from = token.from /\ token'.text = t /\ token'.kind = k
    BY <1>1, <2>1 DEF TokenType
  <2>. QED
    BY <2>1, <2>2, <2>3, <2>4 DEF Begun
<1>17. CASE CommentLine
  <2>1. /\ token' = token /\ state = "COMMENT_SINGLELINE"
        /\ \/ state' = "NEW_TOKEN"
           \/ state' = state /\ cur' = cur + 1 /\ At(cur) # Newline
    BY <1>17 DEF CommentLine, Goto, Running
  <2>2. token.from <= Len(source) /\ InLine(token.from, cur)
    BY <1>3, <2>1 DEF Begun
  <2>3. At(cur) # Newline => InLine(token.from, cur + 1)
    <3>. SUFFICES ASSUME At(cur) # Newline PROVE InLine(token.from, cur + 1)
      OBVIOUS
    <3>1. token.from <= cur /\ token.from < cur + 1 /\ token.from \in Nat
      BY <1>1, <2>2 DEF InLine
    <3>2. \/ token.from .. Last(cur + 1) = token.from .. Last(cur)
          \/ /\ token.from .. Last(cur + 1) = (token.from .. Last(cur)) \cup {cur}
             /\ source[cur] = At(cur)
      <4>1. cur <= Len(source) \/ cur > Len(source)
        BY <1>1
      <4>. QED
        BY <1>1, <1>4, <3>1, <4>1, LastGrows
    <3>. QED
      BY <2>2, <3>1, <3>2 DEF InLine
  <2>. QED
    BY <2>1, <2>2, <2>3 DEF Begun
<1>18. CASE CommentBlock
  <2>1. /\ token' = token /\ state = "COMMENT_MULTILINE" /\ cur' = cur + 1
        /\ state' = IF At(cur) = "*" THEN "COMMENT_MULTILINE_END" ELSE "COMMENT_MULTILINE"
    BY <1>18 DEF CommentBlock, Goto, Running
  <2>2. token.from <= Len(source) /\ InBlock(token.from, cur, 0) /\ cur <= Len(source) + 1
    BY <1>1, <1>2, <1>3, <2>1 DEF Begun
  <2>3. InBlock(token.from, cur + 1, IF At(cur) = "*" /\ 0 = 0 THEN 1 ELSE 0)
    BY <1>1, <2>2, BlockRead
  <2>. QED
    BY <2>1, <2>2, <2>3 DEF Begun
<1>19. CASE CommentStar
  <2>1. /\ token' = token /\ state = "COMMENT_MULTILINE_END" /\ cur' = cur + 1
        /\ state' = IF At(cur) = "/" THEN "NEW_TOKEN" ELSE "COMMENT_MULTILINE"
    BY <1>19 DEF CommentStar, Goto, Running
  <2>2. token.from <= Len(source) /\ InBlock(token.from, cur, 1) /\ cur <= Len(source) + 1
    BY <1>1, <1>2, <1>3, <2>1 DEF Begun
  <2>3. At(cur) # "/" => InBlock(token.from, cur + 1, IF At(cur) = "*" /\ 1 = 0 THEN 1 ELSE 0)
    BY <1>1, <2>2, BlockRead
  <2>. QED
    BY <2>1, <2>2, <2>3 DEF Begun
<1>. QED
  BY <1>6, <1>7, <1>8, <1>9, <1>10, <1>11, <1>12, <1>13, <1>14, <1>15, <1>16, <1>17, <1>18,
     <1>19 DEF Reads

\* The steps that read keep it, and the others do not begin anything.
LEMMA NextCutInv == TypeInv /\ CutInv /\ [Next]_vars => CutInv'
<1>. SUFFICES ASSUME TypeInv, CutInv, [Next]_vars PROVE CutInv'
  OBVIOUS
<1>1. ASSUME source' = source,
             status' = "running" => Begun(state', token'.from, cur', token'.kind, token'.text)
      PROVE  CutInv'
  <2>. SUFFICES ASSUME status' = "running"
                PROVE  Begun(state, token.from, cur, token.kind, token.text)'
    BY DEF CutInv
  <2>1. state' = "STRING_LITERAL" => (InString(token.from, cur, token.text))'
    <3>1. state' = "STRING_LITERAL" => InString(token'.from, cur', token'.text)
      BY <1>1 DEF Begun
    <3>. QED
      BY <1>1, <3>1 DEF InString, Holds, Last, Cuts!Span
  <2>2. state' = "NUMERIC_LITERAL" => (InNumber(token.from, cur, token.text))'
    <3>1. state' = "NUMERIC_LITERAL" => InNumber(token'.from, cur', token'.text)
      BY <1>1 DEF Begun
    <3>. QED
      BY <1>1, <3>1 DEF InNumber, Holds, Last, Cuts!Span
  <2>3. state' = "IDENTIFIER" => (InName(token.from, cur, token.text))'
    <3>1. state' = "IDENTIFIER" => InName(token'.from, cur', token'.text)
      BY <1>1 DEF Begun
    <3>. QED
      BY <1>1, <3>1 DEF InName, Holds, Last, Cuts!Span
  <2>4. state' = "OPERATOR" => (InOperator(token.from, cur, token.text))'
    <3>1. state' = "OPERATOR" => InOperator(token'.from, cur', token'.text)
      BY <1>1 DEF Begun
    <3>. QED
      BY <1>1, <3>1 DEF InOperator, Holds, Last, Cuts!Span, Cuts!OpensComment
  <2>5. state' = "PUNCTUATION" => (AtPunctuation(token.from, cur, token.text))'
    <3>1. state' = "PUNCTUATION" => AtPunctuation(token'.from, cur', token'.text)
      BY <1>1 DEF Begun
    <3>. QED
      BY <1>1, <3>1 DEF AtPunctuation
  <2>6. state' = "COMMENT_SINGLELINE" => (InLine(token.from, cur))'
    <3>1. state' = "COMMENT_SINGLELINE" => InLine(token'.from, cur')
      BY <1>1 DEF Begun
    <3>. QED
      BY <1>1, <3>1 DEF InLine, Last, Cuts!OpensComment
  <2>7. state' = "COMMENT_MULTILINE" => (InBlock(token.from, cur, 0))'
    <3>1. state' = "COMMENT_MULTILINE" => InBlock(token'.from, cur', 0)
      BY <1>1 DEF Begun
    <3>. QED
      BY <1>1, <3>1 DEF InBlock, Last, StarsBefore, Cuts!OpensComment,
             Cuts!ClosesComment, Cuts!All
  <2>8. state' = "COMMENT_MULTILINE_END" => (InBlock(token.from, cur, 1))'
    <3>1. state' = "COMMENT_MULTILINE_END" => InBlock(token'.from, cur', 1)
      BY <1>1 DEF Begun
    <3>. QED
      BY <1>1, <3>1 DEF InBlock, Last, StarsBefore, Cuts!OpensComment,
             Cuts!ClosesComment, Cuts!All
  <2>9. state' = "COMPLETE_TOKEN" => (Recognised(token.from, cur, token.kind, token.text))'
    <3>1. state' = "COMPLETE_TOKEN" => Recognised(token'.from, cur', token'.kind, token'.text)
      BY <1>1 DEF Begun
    <3>. QED
      BY <1>1, <3>1 DEF Recognised, Cuts!Lexeme, Cuts!Kind, Cuts!Value,
             Cuts!Span, Cuts!IsString, Cuts!IsNumber, Cuts!IsOperator, Cuts!IsName,
             Cuts!IsPunctuation, Cuts!OpensComment, Cuts!Run, Cuts!All, Cuts!Word
  <2>. QED
    BY <1>1, <2>1, <2>2, <2>3, <2>4, <2>5, <2>6, <2>7, <2>8, <2>9 DEF Begun
<1>2. CASE Reads
  BY <1>1, <1>2, ReadsKeepTheList, ReadsCutInv
<1>3. CASE Complete
  BY <1>3 DEF Complete, Goto, CutInv, Begun
<1>4. CASE EndOfFile
  BY <1>4 DEF EndOfFile, CutInv
<1>5. CASE UNCHANGED vars
  BY <1>1, <1>5 DEF vars, CutInv
<1>. QED
  BY <1>2, <1>3, <1>4, <1>5, NextIsReadOrWrite

-----------------------------------------------------------------------------
(* Each step is a step of Lexemes or leaves what it speaks of unchanged.   *)

\* While nothing is written, what has been found stays.
LEMMA FoundStays ==
  ASSUME tokens' = tokens, status # "done", status' # "done"
  PROVE  Found' = Found
BY DEF Found

\* The steps of Lexemes, in terms of Rest and Found.
LEMMA Stutters ==
  ASSUME source' = source, Rest' = Rest, Found' = Found, status' = status
  PROVE  [Cuts!Next]_(Cuts!vars)
BY DEF Cuts!vars, Rest, Found

\* White space or a comment is passed over,
LEMMA Skips ==
  ASSUME status = "running", source' = source, Found' = Found, status' = status,
         NEW hi \in Rest .. Len(source), Rest' = hi + 1,
         Cuts!Comment(Rest, hi) \/ (hi = Rest /\ source[Rest] \in Whitespace)
  PROVE  Cuts!Next
<1>1. Cuts!Skip
  BY DEF Cuts!Skip, Rest, Found
<1>. QED
  BY <1>1 DEF Cuts!Next

\* a lexeme is cut off,
LEMMA CutsOff ==
  ASSUME status = "running", source' = source, status' = status,
         NEW hi \in Rest .. Len(source), Rest' = hi + 1, Cuts!Lexeme(Rest, hi),
         Cuts!IsOperator(Rest, hi) => Cuts!Span(Rest, hi) \in OperatorNames,
         Found' = Append(Found, [kind |-> Cuts!Kind(Rest, hi), text |-> Cuts!Value(Rest, hi),
                                 from |-> Rest, to |-> hi])
  PROVE  Cuts!Next
<1>1. Cuts!Cut
  BY DEF Cuts!Cut, Rest, Found
<1>. QED
  BY <1>1 DEF Cuts!Next

\* the text has a number or an operator that cannot be,
LEMMA Fails ==
  ASSUME status = "running", source' = source, Found' = Found, Rest' = Rest, status' = "exit",
         NEW hi \in Rest .. Len(source),
         \/ Cuts!Run(Rest, hi, Digits) /\ source[hi + 1] \in Letters
         \/ Cuts!IsOperator(Rest, hi) /\ Cuts!Span(Rest, hi) \notin OperatorNames
  PROVE  Cuts!Next
<1>1. Cuts!Fail
  BY DEF Cuts!Fail, Rest, Found
<1>. QED
  BY <1>1 DEF Cuts!Next

\* and nothing else is left.
LEMMA Finishes ==
  ASSUME status = "running", source' = source, Found' = Found, Rest' = Rest, status' = "done",
         \/ Rest = Len(source) + 1
         \/ /\ Rest <= Len(source) /\ source[Rest] \notin Whitespace
            /\ \A hi \in Rest .. Len(source) : ~Cuts!Lexeme(Rest, hi) /\ ~Cuts!Comment(Rest, hi)
            /\ ~\E hi \in Rest .. Len(source) - 1 : Cuts!Run(Rest, hi, Digits)
  PROVE  Cuts!Next
<1>1. Cuts!Finish
  BY DEF Cuts!Finish, Rest, Found
<1>. QED
  BY <1>1 DEF Cuts!Next

\* A token that is added to the list is added to what has been found.
LEMMA FoundGrows ==
  ASSUME TypeInv, NEW kind, Emit(kind), status # "done"
  PROVE  /\ status' # "done" =>
              Found' = Append(Found, [kind |-> kind, text |-> token.text,
                                      from |-> token.from, to |-> cur - 1])
         /\ status' = "done" => Found' = Found
<1>. DEFINE t == [kind |-> kind, text |-> token.text, from |-> token.from,
                  to |-> cur - 1, line |-> token.line]
            u == [kind |-> kind, text |-> token.text, from |-> token.from, to |-> cur - 1]
            Cut(ts) == [i \in 1 .. Len(ts) |-> [kind |-> ts[i].kind, text |-> ts[i].text,
                                                from |-> ts[i].from, to |-> ts[i].to]]
            n == Len(tokens)
<1>1. n \in Nat /\ tokens \in Seq(ListType)
  BY Types
<1>2. tokens' = Append(tokens, t) /\ t.kind = u.kind /\ t.text = u.text /\ t.from = u.from /\ t.to = u.to
  BY DEF Emit
<1>3. Len(tokens') = n + 1 /\ tokens'[n + 1] = t /\ \A i \in 1 .. n : tokens'[i] = tokens[i]
  BY <1>1, <1>2
<1>4. Found = Cut(tokens)
  BY DEF Found
<1>5. ASSUME status' = "done" PROVE Found' = Found
  <2>1. Found' = [i \in 1 .. n |-> [kind |-> tokens'[i].kind, text |-> tokens'[i].text,
                                    from |-> tokens'[i].from, to |-> tokens'[i].to]]
    BY <1>1, <1>3, <1>5 DEF Found
  <2>. QED
    BY <1>3, <1>4, <2>1
<1>6. ASSUME status' # "done" PROVE Found' = Append(Found, u)
  <2>1. Found' = [i \in 1 .. n + 1 |-> [kind |-> tokens'[i].kind, text |-> tokens'[i].text,
                                        from |-> tokens'[i].from, to |-> tokens'[i].to]]
    BY <1>1, <1>3, <1>6 DEF Found
  <2>2. \A i \in 1 .. n + 1 : i = n + 1 \/ i \in 1 .. n
    BY <1>1
  <2>. DEFINE c == Cut(tokens)
  <2>3. Append(c, u) = [i \in 1 .. n + 1 |-> IF i = n + 1 THEN u ELSE c[i]]
    <3>1. Len(c) = n
      BY <1>1
    <3>. QED
      BY <1>1, <3>1
  <2>4. \A i \in 1 .. n + 1 :
          [kind |-> tokens'[i].kind, text |-> tokens'[i].text, from |-> tokens'[i].from,
           to |-> tokens'[i].to] = IF i = n + 1 THEN u ELSE c[i]
    BY <1>1, <1>2, <1>3, <2>2
  <2>5. Found = c
    BY <1>4
  <2>. HIDE DEF c, u
  <2>6. Found' = Append(c, u)
    BY <2>1, <2>3, <2>4
  <2>. QED
    BY <2>5, <2>6
<1>. QED
  BY <1>5, <1>6

\* The sizes of arrays that no text overruns.
TextsFit == \A s \in Sources : Len(s) + 1 < MaxName /\ Len(s) < MaxTokens

\* No lexeme is taken apart: a step begins one, reads on, or cuts it off whole.
LEMMA StepCuts ==
  TypeInv /\ CutInv /\ status' # "overflow" /\ [Next]_vars => [Cuts!Next]_(Cuts!vars)
<1>. SUFFICES ASSUME TypeInv, CutInv, status' # "overflow", [Next]_vars
              PROVE  [Cuts!Next]_(Cuts!vars)
  OBVIOUS
<1>1. /\ source \in Seq(Text) /\ Len(source) \in Nat /\ End = Len(source) + 2
      /\ cur \in 1 .. End /\ cur \in Nat \ {0} /\ token \in TokenType /\ state \in States
      /\ token.from \in Nat \ {0}
  BY Types DEF TokenType
<1>2. /\ cur <= Len(source) <=> At(cur) # NUL
      /\ cur <= Len(source) => At(cur) = source[cur]
  BY <1>1, AtText
<1>3. Fresh.from = cur
  BY DEF Fresh
<1>4. status = "running" => Begun(state, token.from, cur, token.kind, token.text)
  BY DEF CutInv
<1>5. CASE Reads
  <2>1. /\ tokens' = tokens /\ source' = source /\ status = "running" /\ cur < End
        /\ status' \in {"running", "exit"}
    BY <1>5, ReadsKeepTheList
  <2>2. Found' = Found
    BY <2>1, FoundStays
  <2>3. Begun(state, token.from, cur, token.kind, token.text)
    BY <1>4, <2>1
  <2>4. CASE NewBlank
    <3>1. /\ state = "NEW_TOKEN" /\ state' = "NEW_TOKEN" /\ cur' = cur + 1 /\ status' = status
          /\ In(At(cur), Whitespace)
      BY <2>4 DEF NewBlank, Running
    <3>2. CASE cur <= Len(source)
      <4>1. Rest = cur /\ Rest' = cur + 1 /\ source[cur] \in Whitespace
        BY <1>1, <1>2, <2>1, <3>1, <3>2 DEF Rest, In
      <4>2. cur \in Rest .. Len(source)
        BY <1>1, <3>2, <4>1
      <4>. QED
        BY <2>1, <2>2, <3>1, <4>1, <4>2, Skips
    <3>3. CASE ~(cur <= Len(source))
      <4>1. Rest' = Rest
        BY <1>1, <2>1, <3>1, <3>3 DEF Rest
      <4>. QED
        BY <2>1, <2>2, <3>1, <4>1, Stutters
    <3>. QED
      BY <3>2, <3>3
  <2>5. CASE NewComment \/ NewString \/ NewOther \/ NewWord
    <3>1. state = "NEW_TOKEN" /\ status' = status /\ At(cur) # NUL
      BY <2>5, Classes DEF NewComment, NewString, NewOther, NewWord, Running
    <3>2. token'.from = cur /\ state' # "NEW_TOKEN"
      BY <1>3, <2>5 DEF NewComment, NewString, NewOther, NewWord, Goto, Fresh
    <3>3. Rest = cur /\ Rest' = cur
      BY <1>1, <1>2, <2>1, <3>1, <3>2 DEF Rest
    <3>. QED
      BY <2>1, <2>2, <3>1, <3>3, Stutters
  <2>6. CASE StringChar \/ NumberChar \/ OperatorChar \/ IdentifierChar
    <3>1. /\ token' = [token EXCEPT !.text = Append(token.text, At(cur))]
          /\ state' = state /\ state # "NEW_TOKEN"
      BY <2>6 DEF StringChar, NumberChar, OperatorChar, IdentifierChar, Running, Take
    <3>2. token'.from = token.from
      BY <1>1, <3>1 DEF TokenType
    <3>3. Rest' = Rest /\ status' = status
      <4>1. status' = status
        BY <2>1, <2>6 DEF StringChar, NumberChar, OperatorChar, IdentifierChar, Take
      <4>. QED
        BY <3>1, <3>2, <4>1 DEF Rest
    <3>. QED
      BY <2>1, <2>2, <3>3, Stutters
  <2>7. CASE StringEnd \/ PunctuationChar \/ IdentifierEnd
    <3>1. token'.from = token.from
      BY <1>1, <2>7 DEF StringEnd, PunctuationChar, IdentifierEnd, TokenType
    <3>2. state # "NEW_TOKEN" /\ state' # "NEW_TOKEN" /\ status' = status
      BY <2>7 DEF StringEnd, PunctuationChar, IdentifierEnd, Running, Goto
    <3>3. Rest' = Rest
      BY <3>1, <3>2 DEF Rest
    <3>. QED
      BY <2>1, <2>2, <3>2, <3>3, Stutters
  <2>8. CASE NumberEnd
    <3>1. token'.from = token.from
      BY <1>1, <2>8 DEF NumberEnd, TokenType
    <3>2. /\ state = "NUMERIC_LITERAL" /\ state' # "NEW_TOKEN" /\ ~In(At(cur), Digits)
          /\ status' = status \/ (status' = "exit" /\ In(At(cur), Letters))
      BY <2>8 DEF NumberEnd, Running, Goto
    <3>3. Rest' = Rest /\ Rest = token.from
      BY <3>1, <3>2 DEF Rest
    <3>4. CASE status' = status
      BY <2>1, <2>2, <3>3, <3>4, Stutters
    <3>5. CASE status' = "exit" /\ In(At(cur), Letters)
      <4>1. InNumber(token.from, cur, token.text)
        BY <2>3, <3>2 DEF Begun
      <4>2. /\ cur - 1 \in token.from .. Len(source) /\ Cuts!Run(token.from, cur - 1, Digits)
            /\ source[cur] = At(cur)
        BY <1>1, <3>2, <4>1, NumberEnds
      <4>3. (cur - 1) + 1 = cur /\ source[cur] \in Letters
        BY <1>1, <3>2, <3>5, <4>2 DEF In
      <4>4. cur - 1 \in Rest .. Len(source) /\ Cuts!Run(Rest, cur - 1, Digits)
            /\ source[(cur - 1) + 1] \in Letters
        BY <3>3, <4>2, <4>3
      <4>. QED
        BY <2>1, <2>2, <3>3, <3>5, <4>4, Fails
    <3>. QED
      BY <3>2, <3>4, <3>5
  <2>9. CASE OperatorEnd
    <3>1. token'.from = token.from
      BY <1>1, <2>9 DEF OperatorEnd, TokenType
    <3>2. /\ state = "OPERATOR" /\ state' # "NEW_TOKEN" /\ ~In(At(cur), OperatorChars)
          /\ status' = status \/ (status' = "exit" /\ token.text \notin OperatorNames)
      BY <2>9 DEF OperatorEnd, Running, Goto
    <3>3. Rest' = Rest /\ Rest = token.from
      BY <3>1, <3>2 DEF Rest
    <3>4. CASE status' = status
      BY <2>1, <2>2, <3>3, <3>4, Stutters
    <3>5. CASE status' = "exit" /\ token.text \notin OperatorNames
      <4>1. InOperator(token.from, cur, token.text)
        BY <2>3, <3>2 DEF Begun
      <4>2. /\ cur - 1 \in token.from .. Len(source) /\ Cuts!IsOperator(token.from, cur - 1)
            /\ token.text = Cuts!Span(token.from, cur - 1)
        BY <1>1, <3>2, <4>1, OperatorEnds
      <4>3. /\ cur - 1 \in Rest .. Len(source) /\ Cuts!IsOperator(Rest, cur - 1)
            /\ Cuts!Span(Rest, cur - 1) \notin OperatorNames
        BY <3>3, <3>5, <4>2
      <4>. QED
        BY <2>1, <2>2, <3>3, <3>5, <4>3, Fails
    <3>. QED
      BY <3>2, <3>4, <3>5
  <2>10. CASE CommentLine
    <3>1. /\ state = "COMMENT_SINGLELINE" /\ token' = token /\ status' = status
          /\ \/ state' = state /\ At(cur) # Newline
             \/ state' = "NEW_TOKEN" /\ At(cur) = Newline /\ cur' = cur
      BY <2>10 DEF CommentLine, Running, Goto
    <3>2. Rest = token.from
      BY <3>1 DEF Rest
    <3>3. CASE state' = state
      <4>1. Rest' = Rest
        BY <3>1, <3>3 DEF Rest
      <4>. QED
        BY <2>1, <2>2, <3>1, <4>1, Stutters
    <3>4. CASE state' = "NEW_TOKEN" /\ At(cur) = Newline /\ cur' = cur
      <4>1. InLine(token.from, cur)
        BY <2>3, <3>1 DEF Begun
      <4>2. cur - 1 \in Rest .. Len(source) /\ Cuts!Comment(Rest, cur - 1)
        BY <1>1, <3>2, <3>4, <4>1, CommentEnds
      <4>3. Rest' = (cur - 1) + 1
        <5>1. cur <= Len(source)
          BY <1>2, <3>4, Classes
        <5>. QED
          BY <1>1, <2>1, <3>4, <5>1 DEF Rest
      <4>. QED
        BY <2>1, <2>2, <3>1, <4>2, <4>3, Skips
    <3>. QED
      BY <3>1, <3>3, <3>4
  <2>11. CASE CommentBlock
    <3>1. /\ state # "NEW_TOKEN" /\ state' # "NEW_TOKEN" /\ token' = token /\ status' = status
      BY <2>11 DEF CommentBlock, Running, Goto
    <3>2. Rest' = Rest
      BY <3>1 DEF Rest
    <3>. QED
      BY <2>1, <2>2, <3>1, <3>2, Stutters
  <2>12. CASE CommentStar
    <3>1. /\ state = "COMMENT_MULTILINE_END" /\ token' = token /\ status' = status
          /\ cur' = cur + 1
          /\ state' = IF At(cur) = "/" THEN "NEW_TOKEN" ELSE "COMMENT_MULTILINE"
      BY <2>12 DEF CommentStar, Running, Goto
    <3>2. Rest = token.from
      BY <3>1 DEF Rest
    <3>3. CASE At(cur) # "/"
      <4>1. Rest' = Rest
        BY <3>1, <3>3 DEF Rest
      <4>. QED
        BY <2>1, <2>2, <3>1, <4>1, Stutters
    <3>4. CASE At(cur) = "/"
      <4>1. InBlock(token.from, cur, 1)
        BY <2>3, <3>1 DEF Begun
      <4>2. cur \in Rest .. Len(source) /\ Cuts!Comment(Rest, cur)
        BY <1>1, <3>2, <3>4, <4>1, CommentEnds
      <4>3. Rest' = cur + 1
        <5>1. state' = "NEW_TOKEN" /\ cur <= Len(source)
          BY <1>2, <3>1, <3>4, Classes
        <5>. QED
          BY <1>1, <2>1, <3>1, <5>1 DEF Rest
      <4>. QED
        BY <2>1, <2>2, <3>1, <4>2, <4>3, Skips
    <3>. QED
      BY <3>3, <3>4
  <2>. QED
    BY <1>5, <2>4, <2>5, <2>6, <2>7, <2>8, <2>9, <2>10, <2>11, <2>12 DEF Reads
<1>6. CASE Complete
  <2>1. /\ status = "running" /\ status' = "running" /\ state = "COMPLETE_TOKEN"
        /\ state' = "NEW_TOKEN" /\ Emit(token.kind) /\ cur' = cur /\ source' = source
    BY <1>6 DEF Complete, Running, Goto
  <2>2. Rest = token.from
    BY <2>1 DEF Rest
  <2>. DEFINE hi == cur - 1
  <2>3. Recognised(token.from, cur, token.kind, token.text)
    BY <1>4, <2>1 DEF Begun
  <2>4. /\ hi \in Rest .. Len(source) /\ Cuts!Lexeme(Rest, hi)
        /\ token.kind = Cuts!Kind(Rest, hi) /\ token.text = Cuts!Value(Rest, hi)
        /\ Cuts!IsOperator(Rest, hi) => Cuts!Span(Rest, hi) \in OperatorNames
    BY <1>1, <2>2, <2>3 DEF Recognised
  <2>5. Rest' = hi + 1
    BY <1>1, <2>1, <2>4 DEF Rest
  <2>6. Found' = Append(Found, [kind |-> token.kind, text |-> token.text,
                                from |-> token.from, to |-> hi])
    BY <2>1, FoundGrows
  <2>7. Found' = Append(Found, [kind |-> Cuts!Kind(Rest, hi), text |-> Cuts!Value(Rest, hi),
                                from |-> Rest, to |-> hi])
    BY <2>2, <2>4, <2>6
  <2>. HIDE DEF hi
  <2>8. Cuts!Next
    BY <2>1, <2>4, <2>5, <2>7, CutsOff
  <2>. QED
    BY <2>8
<1>7. CASE EndOfFile
  <2>1. /\ status = "running" /\ status' = "done" /\ cur = End /\ Emit("END_OF_FILE")
        /\ cur' = cur /\ state' = state /\ source' = source
    BY <1>7 DEF EndOfFile
  <2>2. token'.from = token.from
    BY <1>1, <2>1 DEF Emit, TokenType
  <2>3. Rest' = Rest
    BY <2>1, <2>2 DEF Rest
  <2>4. Found' = Found
    BY <2>1, FoundGrows
  <2>5. CASE state = "NEW_TOKEN"
    <3>1. Rest = Len(source) + 1
      BY <1>1, <2>1, <2>5 DEF Rest
    <3>. QED
      BY <2>1, <2>3, <2>4, <3>1, Finishes
  <2>6. CASE state # "NEW_TOKEN"
    <3>1. Begun(state, token.from, Len(source) + 2, token.kind, token.text)
      BY <1>1, <1>4, <2>1
    <3>2. Rest = token.from
      BY <2>6 DEF Rest
    <3>3. /\ Rest <= Len(source) /\ source[Rest] \notin Whitespace
          /\ \A hi \in Rest .. Len(source) : ~Cuts!Lexeme(Rest, hi) /\ ~Cuts!Comment(Rest, hi)
          /\ ~\E hi \in Rest .. Len(source) - 1 : Cuts!Run(Rest, hi, Digits)
      BY <1>1, <2>6, <3>1, <3>2, NeverEnds
    <3>. QED
      BY <2>1, <2>3, <2>4, <3>3, Finishes
  <2>. QED
    BY <2>5, <2>6
<1>8. CASE UNCHANGED vars
  <2>1. source' = source /\ status' = status /\ Rest' = Rest /\ Found' = Found
    BY <1>8 DEF vars, Rest, Found
  <2>. QED
    BY <2>1, Stutters
<1>. QED
  BY <1>5, <1>6, <1>7, <1>8, NextIsReadOrWrite

-----------------------------------------------------------------------------
(* The theorems.                                                           *)

\* Nothing is read, and the list is empty.
LEMMA InitLexInv == Init => LexInv
<1>. SUFFICES ASSUME Init PROVE LexInv
  OBVIOUS
<1>1. TypeInv
  BY InitTypeInv
<1>2. /\ cur = 1 /\ state = "NEW_TOKEN" /\ status = "running" /\ tokens = <<>>
      /\ token.text = <<>> /\ Len(source) \in Nat
  BY <1>1, Types DEF Init
<1>3. Tables /\ Marked
  BY <1>2 DEF Tables, Marked, NoneBefore
<1>4. Sizes
  BY <1>2 DEF Sizes, ShortTextsFit, Paid
<1>. QED
  BY <1>1, <1>3, <1>4 DEF LexInv

\* The parts of the invariant are kept one by one.
LEMMA NextLexInv == LexInv /\ [Next]_vars => LexInv'
BY NextTypeInv, NextTables, NextMarked, NextSizes DEF LexInv

\* The invariant of the machine holds in every reachable state.
LEMMA LexInvHolds == Spec => []LexInv
BY InitLexInv, NextLexInv, PTL DEF Spec

\* The types of the variables hold in every reachable state.
THEOREM TypeCorrect == Spec => []TypeOK
<1>1. TypeInv => TypeOK
  BY DEF TypeInv
<1>. QED
  BY <1>1, InitTypeInv, NextTypeInv, PTL DEF Spec

\* An operator or keyword token has a name the parser will find in the table,
\* and no identifier has one.
THEOREM NamesAreInTables == Spec => []TokensInTables
<1>1. LexInv => TokensInTables
  BY DEF LexInv, Tables, Tabled, TokensInTables
<1>. QED
  BY <1>1, LexInvHolds, PTL

\* A list is closed by an end of file exactly when the lexer is done with it.
THEOREM EndOfFileLast == Spec => []EndsWithEndOfFile
<1>1. LexInv => EndsWithEndOfFile
  <2>. SUFFICES ASSUME LexInv PROVE EndsWithEndOfFile
    OBVIOUS
  <2>1. Len(tokens) \in Nat /\ status \in {"running", "done", "exit", "overflow"}
    BY Types DEF LexInv, TypeInv, TypeOK
  <2>2. NoneBefore(Len(tokens) - 1)
    BY <2>1 DEF LexInv, Marked, NoneBefore
  <2>3. tokens # <<>> /\ status \in {"running", "exit"} =>
          tokens[Len(tokens)].kind # "END_OF_FILE"
    <3>. SUFFICES ASSUME tokens # <<>>, status \in {"running", "exit"}
                  PROVE  tokens[Len(tokens)].kind # "END_OF_FILE"
      OBVIOUS
    <3>1. Len(tokens) \in 1 .. Len(tokens)
      BY <2>1, Types, EmptySeq DEF LexInv
    <3>. QED
      BY <3>1 DEF LexInv, Marked, NoneBefore
  <2>4. status = "done" => tokens[Len(tokens)].kind = "END_OF_FILE"
    BY DEF LexInv, Marked
  <2>. QED
    BY <2>1, <2>2, <2>3, <2>4 DEF EndsWithEndOfFile, NoneBefore
<1>. QED
  BY <1>1, LexInvHolds, PTL

\* No array is overrun by a text that leaves room for one more token and for
\* two more characters, whatever the text.
THEOREM NothingOverrun == Spec => []ShortTextsFit
<1>1. LexInv => ShortTextsFit
  BY DEF LexInv, Sizes
<1>. QED
  BY <1>1, LexInvHolds, PTL

\* The line reported for a token is never beyond the line it is on, and is that
\* line unless a newline behind a star or a quote was passed before it.
THEOREM LinesAlwaysCount == Spec => []LinesCount
<1>1. Init => LinesInv
  <2>. SUFFICES ASSUME Init PROVE LinesInv
    OBVIOUS
  <2>1. NewlinesBefore(1) = {}
    BY DEF NewlinesBefore
  <2>2. Cardinality({}) = 0
    BY FS_EmptySet
  <2>3. Counted(1, 1)
    BY <2>1, <2>2 DEF Counted
  <2>. QED
    BY <2>3 DEF Init, LinesInv, LinesCount, Passing
<1>2. LinesInv => LinesCount
  BY DEF LinesInv
<1>. QED
  BY <1>1, <1>2, InitTypeInv, NextTypeInv, NextLinesInv, PTL DEF Spec

\* The lexer implements Lexemes when the arrays are large enough for every text:
\* it cuts the text from left to right, each lexeme whole and as long as it can
\* be, and nothing is promised once an array has been overrun.
THEOREM LexerImplementsLexemes ==
  ASSUME TextsFit
  PROVE  Spec => ImplementsLexemes
<1>. DEFINE CInv == TypeInv /\ CutInv /\ source \in Sources
<1>1. Init => CInv
  <2>1. Init => TypeInv
    BY InitTypeInv
  <2>2. Init => CutInv /\ source \in Sources
    BY DEF Init, CutInv, Begun
  <2>. QED
    BY <2>1, <2>2
<1>2. CInv /\ [Next]_vars => CInv'
  <2>1. TypeInv /\ [Next]_vars => source' = source
    <3>. SUFFICES ASSUME TypeInv, [Next]_vars PROVE source' = source
      OBVIOUS
    <3>. QED
      BY NextIsReadOrWrite, ReadsKeepTheList DEF Complete, EndOfFile, vars
  <2>. QED
    BY <2>1, NextTypeInv, NextCutInv
<1>3. CInv /\ ShortTextsFit => status # "overflow"
  BY DEF TextsFit, ShortTextsFit
<1>4. Init => Cuts!Init
  <2>. SUFFICES ASSUME Init PROVE Cuts!Init
    OBVIOUS
  <2>1. Rest = 1
    <3>1. source \in Seq(Text)
      BY SourcesAssumption DEF Init
    <3>2. Len(source) \in Nat
      BY <3>1
    <3>. QED
      BY <3>2 DEF Init, Rest
  <2>2. Found = <<>>
    <3>1. Len(tokens) = 0 /\ status # "done"
      BY DEF Init
    <3>2. Found = [i \in 1 .. 0 |-> [kind |-> tokens[i].kind, text |-> tokens[i].text,
                                     from |-> tokens[i].from, to |-> tokens[i].to]]
      BY <3>1 DEF Found
    <3>. QED
      BY <3>2
  <2>. QED
    BY <2>1, <2>2 DEF Init, Cuts!Init, Rest, Found
<1>5. CInv /\ (status # "overflow")' /\ [Next]_vars => [Cuts!Next]_(Cuts!vars)
  BY StepCuts
<1>6. LexInv => ShortTextsFit
  BY DEF LexInv, Sizes
<1>7. Spec => []CInv
  BY <1>1, <1>2, PTL DEF Spec
<1>8. Spec => [](status # "overflow")
  BY <1>3, <1>6, <1>7, LexInvHolds, PTL
<1>. HIDE DEF CInv
<1>9. Spec => Cuts!Init /\ [][Cuts!Next]_(Cuts!vars)
  BY <1>4, <1>5, <1>7, <1>8, PTL DEF Spec
<1>. QED
  BY <1>9 DEF ImplementsLexemes, Cuts!Spec

=============================================================================
