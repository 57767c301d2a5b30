------------------------------ MODULE MCLexer ------------------------------
(* Instances of the lexer: every short text over alphabets that make the
   states of the machine meet each other.                                  *)

EXTENDS Lexer

\* Names of the dGen tables (src/src/lang/dgen.c) the alphabets can spell.
DgenOperatorNames == {<<"/">>, <<"*">>, <<"=">>, <<"=", "=">>, <<"!">>, <<"!", "=">>,
                      <<"i", "n">>}
DgenKeywordNames == {<<"i", "f">>}
DgenLetters == {"i", "f", "n"}
DgenDigits == {"1"}
DgenOperatorChars == {"/", "*", "=", "!", "@"}
DgenPunctuation == [c \in {";"} |-> "SEMICOLON"]

TextsOver(chars, n) == UNION {[1 .. k -> chars] : k \in 0 .. n}

\* Words and numbers, operators, and comments and strings.
ShortTexts ==
  TextsOver({"i", "f", "n", "1", "space", ";"}, 4)
    \cup TextsOver({"=", "!", "@", "/", "i", "1", "space", Other}, 4)
    \cup TextsOver({"/", "*", Newline, "i", Quote}, 6)

=============================================================================
