---------------------------- MODULE DgenLanguage ----------------------------
(***************************************************************************)
(* The dGen language as the compiler's tables describe it                  *)
(* (src/src/lang/dgen.c).  The front end is table driven: the lexer and    *)
(* the two parsers receive these tables as parameters (language_t), so the *)
(* modules that model them take CONSTANTS and the MC modules give those    *)
(* constants the values below.                                             *)
(***************************************************************************)

EXTENDS Naturals, TLC

\* The operator table; a smaller number binds tighter.
DgenPrecedence ==
  [o \in {"in"}                       |-> 1] @@
  [o \in {".", "++", "--", "!", "~"}  |-> 2] @@
  [o \in {"*", "/", "%"}              |-> 3] @@
  [o \in {"+", "-"}                   |-> 4] @@
  [o \in {"<", ">", "<=", ">="}       |-> 6] @@
  [o \in {"==", "!="}                 |-> 7] @@
  [o \in {"&&"}                       |-> 11] @@
  [o \in {"||"}                       |-> 12] @@
  [o \in {"="}                        |-> 14]

DgenOperators == DOMAIN DgenPrecedence

\* The operators whose type the expression parser solves with one operand.
DgenUnary == {"++", "--", "!", "~"}
=============================================================================
