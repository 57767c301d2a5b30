--------------------------- MODULE DgenStatements ---------------------------
(* The shape of each dGen statement (src/src/lang/dgen.c): keyword_t.decl of
   the keyword table, and func_decl.                                        *)

EXTENDS Sequences, TLC

LOCAL Condition == <<"(", "EXPRESSION", ")", "{", "BLOCK", "}">>

DgenKeywordDecl ==
  [k \in {"if", "while", "switch"}                  |-> Condition] @@
  [k \in {"else"}                                   |-> <<"{", "BLOCK", "}">>] @@
  [k \in {"for"} |-> <<"(", "EXPRESSION", "EXPRESSION", "EXPRESSION", ")",
                       "{", "BLOCK", "}">>] @@
  [k \in {"case"}                                   |-> <<"EXPRESSION", ":", "{", "BLOCK", "}">>] @@
  [k \in {"default"}                                |-> <<":", "{", "BLOCK", "}">>] @@
  [k \in {"return"}                                 |-> <<"EXPRESSION">>] @@
  [k \in {"break", "continue", "true", "false"}     |-> <<>>] @@
  [k \in {"struct"}                                 |-> <<"IDENTIFIER", "{", "BLOCK", "}">>]

DgenFuncDecl == <<"(", "EXPRESSIONS", ")", "{", "BLOCK", "}">>

=============================================================================
