------------------------------ MODULE Brackets ------------------------------
(* The nesting of brackets in a sequence of tokens. *)

EXTENDS Naturals, Sequences, SequencesExt

Opening == {"(", "[", "{"}
Closing == {")", "]", "}"}
Bracket == Opening \cup Closing
Closer == [t \in Opening |-> IF t = "(" THEN ")" ELSE IF t = "[" THEN "]" ELSE "}"]

\* What is owed behind one more token.
OwedBehind(owed, t) ==
  IF t \in Opening THEN Append(owed, Closer[t])
  ELSE IF t \notin Closing THEN owed
  ELSE IF owed # <<>> /\ Last(owed) = t THEN Front(owed)
  ELSE Append(owed, "unmatched")

\* The closing brackets that are asked for behind each token of a sequence, the
\* next one last, if some are before it; a closing bracket nothing asks for stays
\* in the sequence for good.
Owed(before, seq) ==
  LET owed[i \in 0 .. Len(seq)] ==
        IF i = 0 THEN before ELSE OwedBehind(owed[i - 1], seq[i])
  IN owed

Owing(before, seq) == Owed(before, seq)[Len(seq)]

\* A sequence that leaves nothing open and closes nothing else.
Balanced(seq) == Owing(<<>>, seq) = <<>>

=============================================================================
