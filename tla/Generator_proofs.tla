--------------------------- MODULE Generator_proofs ---------------------------
(***************************************************************************)
(* Theorems about the generator.  Every line written is indented as its    *)
(* braces ask, and brackets nest, for all trees: what the active calls have *)
(* still to do takes the layout of the text written to that of a whole     *)
(* text, and the tasks of a handler take the layout its node begins in     *)
(* back to the same one.                                                   *)
(***************************************************************************)

EXTENDS Generator, SequenceLemmas

Token == DOMAIN Width

-----------------------------------------------------------------------------
(* Total.                                                                  *)

\* The equation of Total, place by place.
Totals(total, weight, tokens) ==
  /\ total \in [0 .. Len(tokens) -> Int]
  /\ total[0] = 0
  /\ \A i \in 1 .. Len(tokens) : total[i] = total[i - 1] + weight[tokens[i]]

\* Total is the function that its equation describes.
LEMMA TotalSteps ==
  ASSUME NEW V, NEW weight \in [V -> Int], NEW seq \in Seq(V)
  PROVE  Totals(Total(weight, seq), weight, seq)
<1>. DEFINE n == Len(seq)
            Steps == [p \in (1 .. n) \X Int |-> p[2] + weight[seq[p[1]]]]
            Is(f) == f = [i \in 0 .. n |-> IF i = 0 THEN 0 ELSE f[i - 1] + weight[seq[i]]]
<1>0. \A i \in 1 .. n : weight[seq[i]] \in Int
  <2>1. \A i \in 1 .. n : seq[i] \in V
    OBVIOUS
  <2>. HIDE DEF n
  <2>. QED
    BY <2>1
<1>1. Steps \in [(1 .. n) \X Int -> Int] /\ n \in Nat /\ 0 \in Int
  <2>1. ASSUME NEW p \in (1 .. n) \X Int
        PROVE  p[2] + weight[seq[p[1]]] \in Int
    <3>1. p[1] \in 1 .. n /\ p[2] \in Int
      OBVIOUS
    <3>. HIDE DEF n
    <3>2. weight[seq[p[1]]] \in Int
      BY <1>0, <3>1
    <3>. QED
      BY <3>1, <3>2
  <2>. QED
    BY <2>1
<1>2. PICK g \in [0 .. n -> Int] : StepsAlong(g, n, 0, Steps)
  <2>. HIDE DEF Steps, n
  <2>. QED
    BY <1>1, StepsExist
<1>3. ASSUME NEW i \in 1 .. n
      PROVE  g[i] = g[i - 1] + weight[seq[i]]
  <2>1. <<i, g[i - 1]>> \in (1 .. n) \X Int
    <3>1. i - 1 \in 0 .. n
      BY <1>1
    <3>. HIDE DEF n
    <3>2. g[i - 1] \in Int
      BY <1>2, <3>1
    <3>. QED
      BY <3>2
  <2>. QED
    BY <1>2, <2>1 DEF StepsAlong
<1>4. \A i \in 0 .. n : g[i] = IF i = 0 THEN 0 ELSE g[i - 1] + weight[seq[i]]
  BY <1>1, <1>2, <1>3 DEF StepsAlong
<1>5. Is(g)
  BY <1>2, <1>4
<1>6. Total(weight, seq) = CHOOSE f : Is(f)
  BY DEF Total
<1>7. Is(Total(weight, seq))
  BY <1>5, <1>6
<1>. DEFINE f == Total(weight, seq)
<1>8. f = [i \in 0 .. n |-> IF i = 0 THEN 0 ELSE f[i - 1] + weight[seq[i]]]
  BY <1>7
<1>. HIDE DEF f, Is, Steps
<1>9. /\ DOMAIN f = 0 .. n
      /\ f[0] = 0
      /\ \A i \in 1 .. n : f[i] = f[i - 1] + weight[seq[i]]
  <2>. HIDE DEF n
  <2>1. DOMAIN f = 0 .. n /\ \A i \in 0 .. n : f[i] = IF i = 0 THEN 0 ELSE f[i - 1] + weight[seq[i]]
    BY <1>8, Zenon
  <2>2. 0 \in 0 .. n /\ \A i \in 1 .. n : i \in 0 .. n /\ i # 0
    BY <1>1
  <2>. QED
    BY <2>1, <2>2, Zenon
<1>10. \A i \in 0 .. n : f[i] \in Int
  <2>. DEFINE S == {k \in Nat : k <= n => f[k] \in Int}
  <2>1. 0 \in S
    BY <1>9
  <2>2. ASSUME NEW k \in Nat, k \in S
        PROVE  k + 1 \in S
    <3>. SUFFICES ASSUME k + 1 <= n
                  PROVE  f[k + 1] \in Int
      OBVIOUS
    <3>1. f[k] \in Int /\ k + 1 \in 1 .. n /\ (k + 1) - 1 = k
      BY <1>1, <2>2
    <3>2. weight[seq[k + 1]] \in Int
      BY <1>0, <3>1
    <3>. QED
      BY <1>9, <3>1, <3>2
  <2>. HIDE DEF S
  <2>3. Nat \subseteq S
    BY <2>1, <2>2, SetInduction
  <2>. QED
    BY <1>1, <2>3 DEF S
<1>11. f \in [0 .. n -> Int]
  BY <1>8, <1>9, <1>10
<1>. QED
  BY <1>9, <1>11 DEF f, Totals

\* The totals of a sequence that has one more token.
LEMMA TotalAppend ==
  ASSUME NEW V, NEW weight \in [V -> Int], NEW s \in Seq(V), NEW e \in V
  PROVE  /\ \A k \in 0 .. Len(s) : Total(weight, Append(s, e))[k] = Total(weight, s)[k]
         /\ Total(weight, Append(s, e))[Len(s) + 1] = Total(weight, s)[Len(s)] + weight[e]
<1>1. PICK u : /\ u = Append(s, e) /\ u \in Seq(V) /\ Len(u) = Len(s) + 1 /\ Len(s) \in Nat
               /\ \A i \in 1 .. Len(s) : u[i] = s[i]
               /\ u[Len(s) + 1] = e
  <2>1. /\ Append(s, e) \in Seq(V) /\ Len(Append(s, e)) = Len(s) + 1 /\ Len(s) \in Nat
        /\ \A i \in 1 .. Len(s) : Append(s, e)[i] = s[i]
        /\ Append(s, e)[Len(s) + 1] = e
    OBVIOUS
  <2>. QED
    BY <2>1, Zenon
<1>2. Totals(Total(weight, s), weight, s)
  BY TotalSteps
<1>3. Totals(Total(weight, u), weight, u)
  BY <1>1, TotalSteps
<1>. DEFINE S == {k \in Nat : k <= Len(s) => Total(weight, u)[k] = Total(weight, s)[k]}
<1>4. 0 \in S
  BY <1>2, <1>3 DEF Totals
<1>5. ASSUME NEW k \in Nat, k \in S
      PROVE  k + 1 \in S
  <2>. SUFFICES ASSUME k + 1 <= Len(s)
                PROVE  Total(weight, u)[k + 1] = Total(weight, s)[k + 1]
    OBVIOUS
  <2>1. /\ Total(weight, u)[k] = Total(weight, s)[k]
        /\ k + 1 \in 1 .. Len(s) /\ k + 1 \in 1 .. Len(u) /\ (k + 1) - 1 = k
        /\ u[k + 1] = s[k + 1]
    BY <1>1, <1>5
  <2>. QED
    BY <1>2, <1>3, <2>1 DEF Totals
<1>. HIDE DEF S
<1>6. Nat \subseteq S
  BY <1>4, <1>5, SetInduction
<1>7. \A k \in 0 .. Len(s) : Total(weight, u)[k] = Total(weight, s)[k]
  BY <1>1, <1>6 DEF S
<1>8. Total(weight, u)[Len(s) + 1] = Total(weight, u)[Len(s)] + weight[e]
  <2>1. Len(s) + 1 \in 1 .. Len(u) /\ (Len(s) + 1) - 1 = Len(s)
    BY <1>1
  <2>. QED
    BY <1>1, <1>3, <2>1 DEF Totals
<1>. QED
  BY <1>1, <1>7, <1>8

\* The last total, of none and of one more.
SumOf(weight, tokens) == Total(weight, tokens)[Len(tokens)]

\* The sum of the weights grows by the weight of what is appended.
LEMMA SumAppend ==
  ASSUME NEW V, NEW weight \in [V -> Int]
  PROVE  /\ SumOf(weight, <<>>) = 0
         /\ \A s \in Seq(V) : SumOf(weight, s) \in Int
         /\ \A s \in Seq(V), e \in V : SumOf(weight, Append(s, e)) = SumOf(weight, s) + weight[e]
<1>1. SumOf(weight, <<>>) = 0
  <2>1. PICK none : none = <<>> /\ none \in Seq(V) /\ Len(none) = 0
    <3>1. <<>> \in Seq(V) /\ Len(<<>>) = 0
      OBVIOUS
    <3>. QED
      BY <3>1, Zenon
  <2>2. Totals(Total(weight, none), weight, none)
    BY <2>1, TotalSteps
  <2>3. SumOf(weight, none) = 0
    BY <2>1, <2>2 DEF Totals, SumOf
  <2>. QED
    BY <2>1, <2>3, Zenon
<1>2. ASSUME NEW s \in Seq(V)
      PROVE  SumOf(weight, s) \in Int
  <2>1. Totals(Total(weight, s), weight, s)
    BY TotalSteps
  <2>2. Total(weight, s) \in [0 .. Len(s) -> Int]
    BY <2>1 DEF Totals
  <2>3. Len(s) \in 0 .. Len(s)
    OBVIOUS
  <2>. QED
    BY <2>2, <2>3 DEF SumOf
<1>3. ASSUME NEW s \in Seq(V), NEW e \in V
      PROVE  SumOf(weight, Append(s, e)) = SumOf(weight, s) + weight[e]
  <2>1. Len(Append(s, e)) = Len(s) + 1
    OBVIOUS
  <2>2. Total(weight, Append(s, e))[Len(s) + 1] = Total(weight, s)[Len(s)] + weight[e]
    BY TotalAppend
  <2>. QED
    BY <2>1, <2>2, Zenon DEF SumOf
<1>. QED
  BY <1>1, <1>2, <1>3

\* The sum of two sequences, one behind the other.
LEMMA SumConcat ==
  ASSUME NEW V, NEW weight \in [V -> Int], NEW s \in Seq(V)
  PROVE  \A t \in Seq(V) : SumOf(weight, s \o t) = SumOf(weight, s) + SumOf(weight, t)
<1>. DEFINE S == {t \in Seq(V) : SumOf(weight, s \o t) = SumOf(weight, s) + SumOf(weight, t)}
<1>1. <<>> \in S
  <2>1. <<>> \in Seq(V) /\ s \o <<>> = s
    OBVIOUS
  <2>2. SumOf(weight, <<>>) = 0 /\ SumOf(weight, s) \in Int
    BY SumAppend
  <2>3. SumOf(weight, s) = SumOf(weight, s) + SumOf(weight, <<>>)
    BY <2>2
  <2>. QED
    BY <2>1, <2>3, Zenon
<1>2. ASSUME NEW t \in Seq(V), NEW e \in V, t \in S
      PROVE  Append(t, e) \in S
  <2>1. /\ s \o t \in Seq(V) /\ Append(t, e) \in Seq(V)
        /\ s \o Append(t, e) = Append(s \o t, e)
    OBVIOUS
  <2>2. PICK u \in Seq(V) : u = s \o t
    BY <2>1
  <2>3. /\ SumOf(weight, Append(u, e)) = SumOf(weight, u) + weight[e]
        /\ SumOf(weight, Append(t, e)) = SumOf(weight, t) + weight[e]
        /\ SumOf(weight, s) \in Int /\ SumOf(weight, t) \in Int
    BY SumAppend
  <2>4. SumOf(weight, u) = SumOf(weight, s) + SumOf(weight, t)
    BY <1>2, <2>2
  <2>5. weight[e] \in Int
    OBVIOUS
  <2>6. SumOf(weight, Append(u, e)) = SumOf(weight, s) + SumOf(weight, Append(t, e))
    BY <2>3, <2>4, <2>5
  <2>. QED
    BY <2>1, <2>2, <2>6
<1>. HIDE DEF S
<1>3. Seq(V) \subseteq S
  BY <1>1, <1>2, AppendInduction
<1>. QED
  BY <1>3 DEF S

-----------------------------------------------------------------------------
(* The tokens that a reader can rely on.                                   *)

\* What is left of nothing.
LEMMA WithoutNone ==
  ASSUME NEW positions
  PROVE  Without(<<>>, positions) = <<>>
<1>1. [i \in DOMAIN <<>> |-> IF i \in positions THEN <<>> ELSE <<<<>>[i]>>] = <<>>
  OBVIOUS
<1>2. <<>> \in Seq(Seq(Token)) /\ <<>> \in Seq(Token)
  OBVIOUS
<1>3. FlattenSeq(<<>>) = <<>>
  BY <1>2, FlattenAppend
<1>. QED
  BY <1>1, <1>3 DEF Without

\* What is left of a sequence that has one more token.
LEMMA WithoutAppend ==
  ASSUME NEW V, NEW s \in Seq(V), NEW e \in V, NEW positions
  PROVE  /\ Without(s, positions) \in Seq(V)
         /\ Without(Append(s, e), positions) =
              IF Len(s) + 1 \in positions THEN Without(s, positions) ELSE Append(Without(s, positions), e)
<1>. DEFINE Kept(t) == [i \in DOMAIN t |-> IF i \in positions THEN <<>> ELSE <<t[i]>>]
            last == IF Len(s) + 1 \in positions THEN <<>> ELSE <<e>>
<1>1. Kept(s) \in Seq(Seq(V)) /\ Len(s) \in Nat /\ last \in Seq(V)
  <2>1. \A i \in 1 .. Len(s) : s[i] \in V
    OBVIOUS
  <2>2. \A i \in 1 .. Len(s) : (IF i \in positions THEN <<>> ELSE <<s[i]>>) \in Seq(V)
    BY <2>1
  <2>3. Kept(s) = [i \in 1 .. Len(s) |-> IF i \in positions THEN <<>> ELSE <<s[i]>>]
    OBVIOUS
  <2>4. Len(s) \in Nat
    OBVIOUS
  <2>. QED
    BY <2>2, <2>3, <2>4
<1>2. Kept(Append(s, e)) = Append(Kept(s), last)
  <2>1. PICK u \in Seq(V) : /\ u = Append(s, e) /\ DOMAIN u = 1 .. Len(s) + 1
                            /\ \A i \in 1 .. Len(s) : u[i] = s[i]
                            /\ u[Len(s) + 1] = e
    <3>1. /\ Append(s, e) \in Seq(V) /\ DOMAIN Append(s, e) = 1 .. Len(s) + 1
          /\ \A i \in 1 .. Len(s) : Append(s, e)[i] = s[i]
          /\ Append(s, e)[Len(s) + 1] = e
      OBVIOUS
    <3>. QED
      BY <3>1, Zenon
  <2>2. DOMAIN s = 1 .. Len(s)
    OBVIOUS
  <2>3. PICK p \in Seq(Seq(V)) :
          /\ p = Kept(s) /\ Len(p) = Len(s)
          /\ \A i \in 1 .. Len(s) : p[i] = IF i \in positions THEN <<>> ELSE <<s[i]>>
    <3>1. Len(Kept(s)) = Len(s) /\ \A i \in 1 .. Len(s) : Kept(s)[i] = IF i \in positions THEN <<>> ELSE <<s[i]>>
      BY <1>1, <2>2
    <3>. HIDE DEF Kept
    <3>. QED
      BY <1>1, <3>1, Zenon
  <2>. HIDE DEF last
  <2>4. PICK v \in Seq(Seq(V)) :
          /\ v = Append(p, last) /\ DOMAIN v = 1 .. Len(s) + 1
          /\ \A i \in 1 .. Len(s) : v[i] = p[i]
          /\ v[Len(s) + 1] = last
    <3>1. /\ Append(p, last) \in Seq(Seq(V)) /\ DOMAIN Append(p, last) = 1 .. Len(s) + 1
          /\ \A i \in 1 .. Len(s) : Append(p, last)[i] = p[i]
          /\ Append(p, last)[Len(s) + 1] = last
      BY <1>1, <2>3
    <3>. QED
      BY <3>1, Zenon
  <2>5. \A i \in 1 .. Len(s) + 1 : v[i] = IF i \in positions THEN <<>> ELSE <<u[i]>>
    BY <1>1, <2>1, <2>3, <2>4 DEF last
  <2>6. v = [i \in 1 .. Len(s) + 1 |-> IF i \in positions THEN <<>> ELSE <<u[i]>>]
    <3>1. v = [i \in DOMAIN v |-> v[i]]
      OBVIOUS
    <3>. QED
      BY <2>4, <2>5, <3>1
  <2>7. v = Kept(u)
    BY <2>1, <2>6
  <2>. QED
    BY <2>1, <2>3, <2>4, <2>7, Zenon
<1>3. PICK pieces \in Seq(Seq(V)) : pieces = Kept(s)
  BY <1>1
<1>4. /\ FlattenSeq(<<>>) = <<>>
      /\ FlattenSeq(pieces) \in Seq(V)
      /\ FlattenSeq(Append(pieces, last)) = FlattenSeq(pieces) \o last
  BY <1>1, FlattenAppend
<1>6. Without(s, positions) = FlattenSeq(pieces)
  BY <1>3 DEF Without
<1>7. Without(Append(s, e), positions) = FlattenSeq(pieces) \o last
  <2>1. Without(Append(s, e), positions) = FlattenSeq(Kept(Append(s, e)))
    BY DEF Without
  <2>. HIDE DEF Kept, last
  <2>. QED
    BY <1>2, <1>3, <1>4, <2>1, Zenon
<1>8. FlattenSeq(pieces) \o last = IF Len(s) + 1 \in positions THEN FlattenSeq(pieces) ELSE Append(FlattenSeq(pieces), e)
  <2>1. PICK flat \in Seq(V) : flat = FlattenSeq(pieces)
    BY <1>4
  <2>2. flat \o last = IF Len(s) + 1 \in positions THEN flat ELSE Append(flat, e)
    OBVIOUS
  <2>. QED
    BY <2>1, <2>2, Zenon
<1>. HIDE DEF Kept, last
<1>. QED
  BY <1>4, <1>6, <1>7, <1>8, Zenon

\* Tokens at other positions stay, tokens at the positions go.
LEMMA WithoutConcat ==
  ASSUME NEW V, NEW s \in Seq(V), NEW positions
  PROVE  /\ \A t \in Seq(V) :
              (\A i \in Len(s) + 1 .. Len(s) + Len(t) : i \notin positions)
                => Without(s \o t, positions) = Without(s, positions) \o t
         /\ \A t \in Seq(V) :
              (\A i \in Len(s) + 1 .. Len(s) + Len(t) : i \in positions)
                => Without(s \o t, positions) = Without(s, positions)
<1>. DEFINE New(t) == Len(s) + 1 .. Len(s) + Len(t)
            S == {t \in Seq(V) :
                    /\ (\A i \in New(t) : i \notin positions)
                         => Without(s \o t, positions) = Without(s, positions) \o t
                    /\ (\A i \in New(t) : i \in positions)
                         => Without(s \o t, positions) = Without(s, positions)}
<1>1. <<>> \in S
  <2>1. <<>> \in Seq(V) /\ s \o <<>> = s
    OBVIOUS
  <2>2. Without(s, positions) \o <<>> = Without(s, positions)
    <3>1. CASE s = <<>>
      BY <3>1, <2>1, WithoutNone, Zenon
    <3>2. CASE s # <<>>
      <4>1. PICK b \in V : TRUE
        <5>1. s[1] \in V
          BY <3>2
        <5>. QED
          BY <5>1
      <4>2. Without(s, positions) \in Seq(V)
        BY <4>1, WithoutAppend
      <4>. QED
        BY <4>2
    <3>. QED
      BY <3>1, <3>2
  <2>. QED
    BY <2>1, <2>2
<1>2. ASSUME NEW t \in Seq(V), NEW e \in V, t \in S
      PROVE  Append(t, e) \in S
  <2>1. PICK u \in Seq(V) : u = s \o t /\ Len(u) = Len(s) + Len(t)
    <3>1. s \o t \in Seq(V) /\ Len(s \o t) = Len(s) + Len(t)
      OBVIOUS
    <3>. QED
      BY <3>1
  <2>2. s \o Append(t, e) = Append(u, e)
    <3>1. s \o Append(t, e) = Append(s \o t, e)
      OBVIOUS
    <3>. QED
      BY <2>1, <3>1, Zenon
  <2>3. PICK w \in Seq(V) : w = Without(s, positions)
    BY WithoutAppend
  <2>4. /\ Len(s) \in Nat /\ Len(t) \in Nat /\ Append(t, e) \in Seq(V)
        /\ Len(Append(t, e)) = Len(t) + 1
        /\ w \o Append(t, e) = Append(w \o t, e)
    OBVIOUS
  <2>5. Without(Append(u, e), positions) =
          IF Len(u) + 1 \in positions THEN Without(u, positions) ELSE Append(Without(u, positions), e)
    BY WithoutAppend
  <2>6. /\ (\A i \in New(t) : i \notin positions) => Without(u, positions) = w \o t
        /\ (\A i \in New(t) : i \in positions) => Without(u, positions) = w
    BY <1>2, <2>1, <2>3, Zenon
  <2>7. ASSUME \A i \in New(Append(t, e)) : i \notin positions
        PROVE  Without(Append(u, e), positions) = w \o Append(t, e)
    <3>1. (\A i \in New(t) : i \notin positions) /\ Len(u) + 1 \notin positions
      BY <2>1, <2>4, <2>7
    <3>. QED
      BY <2>4, <2>5, <2>6, <3>1, Zenon
  <2>8. ASSUME \A i \in New(Append(t, e)) : i \in positions
        PROVE  Without(Append(u, e), positions) = w
    <3>1. (\A i \in New(t) : i \in positions) /\ Len(u) + 1 \in positions
      BY <2>1, <2>4, <2>8
    <3>. QED
      BY <2>5, <2>6, <3>1, Zenon
  <2>. HIDE DEF New
  <2>. QED
    BY <2>2, <2>3, <2>4, <2>7, <2>8, Zenon
<1>. HIDE DEF S
<1>3. Seq(V) \subseteq S
  BY <1>1, <1>2, AppendInduction
<1>. QED
  BY <1>3 DEF S

\* Positions that the sequence does not have make no difference.
LEMMA WithoutOthers ==
  ASSUME NEW s, NEW positions, NEW more, DOMAIN s \cap more = {}
  PROVE  Without(s, positions \cup more) = Without(s, positions)
<1>1. [i \in DOMAIN s |-> IF i \in positions \cup more THEN <<>> ELSE <<s[i]>>]
        = [i \in DOMAIN s |-> IF i \in positions THEN <<>> ELSE <<s[i]>>]
  OBVIOUS
<1>. QED
  BY <1>1 DEF Without

\* Nothing gets longer.
LEMMA WithoutLen ==
  ASSUME NEW V, NEW positions
  PROVE  \A s \in Seq(V) : Without(s, positions) \in Seq(V) /\ Len(Without(s, positions)) <= Len(s)
<1>. DEFINE S == {s \in Seq(V) : Without(s, positions) \in Seq(V) /\ Len(Without(s, positions)) <= Len(s)}
<1>1. <<>> \in S
  <2>1. <<>> \in Seq(V) /\ Len(<<>>) <= Len(<<>>)
    OBVIOUS
  <2>2. Without(<<>>, positions) = <<>>
    BY WithoutNone
  <2>. QED
    BY <2>1, <2>2, Zenon
<1>2. ASSUME NEW s \in Seq(V), NEW e \in V, s \in S
      PROVE  Append(s, e) \in S
  <2>1. PICK w \in Seq(V) : w = Without(s, positions) /\ Len(w) <= Len(s)
    BY <1>2
  <2>2. Without(Append(s, e), positions) = w \/ Without(Append(s, e), positions) = Append(w, e)
    BY <2>1, WithoutAppend
  <2>3. /\ Append(s, e) \in Seq(V) /\ Len(Append(s, e)) = Len(s) + 1 /\ Len(s) \in Nat /\ Len(w) \in Nat
        /\ Append(w, e) \in Seq(V) /\ Len(Append(w, e)) = Len(w) + 1
    OBVIOUS
  <2>. QED
    BY <2>1, <2>2, <2>3
<1>. HIDE DEF S
<1>3. Seq(V) \subseteq S
  BY <1>1, <1>2, AppendInduction
<1>. QED
  BY <1>3 DEF S

-----------------------------------------------------------------------------
(* Tasks and what they write.                                              *)

Task ==
  [do : {"generate"}, node : Walked] \cup [do : {"put"}, text : Seq(Token)]
    \cup [do : {"param"}, node : Nodes] \cup [do : {"indent"}, by : {1, -1}] \cup [do : {"print"}]

\* The text of some tasks, those of Pending for example.
Texts(tasks) == FlattenSeq([i \in DOMAIN tasks |-> TextOf(tasks[i])])

\* Each kind of task, and its text.
LEMMA TaskKinds ==
  /\ \A node \in Walked : Gen(node) \in Task /\ TextOf(Gen(node)) = <<>>
  /\ \A text \in Seq(Token) : Put(text) \in Task /\ TextOf(Put(text)) = text
  /\ \A node \in Nodes : Param(node) \in Task /\ TextOf(Param(node)) = <<>>
  /\ \A by \in {1, -1} : Indent(by) \in Task /\ TextOf(Indent(by)) = <<>>
  /\ PrintIndent \in Task /\ TextOf(PrintIndent) = <<>>
  /\ \A task \in Task : TextOf(task) \in Seq(Token)
<1>1. <<>> \in Seq(Token)
  OBVIOUS
<1>2. \A node \in Walked : Gen(node) \in Task /\ TextOf(Gen(node)) = <<>>
  BY DEF Gen, Task, TextOf
<1>3. \A text \in Seq(Token) : Put(text) \in Task /\ TextOf(Put(text)) = text
  BY DEF Put, Task, TextOf
<1>4. \A node \in Nodes : Param(node) \in Task /\ TextOf(Param(node)) = <<>>
  BY DEF Param, Task, TextOf
<1>5. \A by \in {1, -1} : Indent(by) \in Task /\ TextOf(Indent(by)) = <<>>
  BY DEF Indent, Task, TextOf
<1>6. PrintIndent \in Task /\ TextOf(PrintIndent) = <<>>
  BY DEF PrintIndent, Task, TextOf
<1>7. \A task \in Task : TextOf(task) \in Seq(Token)
  BY <1>1 DEF Task, TextOf
<1>. QED
  BY <1>2, <1>3, <1>4, <1>5, <1>6, <1>7

\* The text of one task more, and of one list of tasks behind another.
LEMMA TextsConcat ==
  /\ Texts(<<>>) = <<>>
  /\ \A task \in Task : Texts(<<task>>) = TextOf(task)
  /\ \A tasks \in Seq(Task) : Texts(tasks) \in Seq(Token)
  /\ \A some, more \in Seq(Task) : Texts(some \o more) = Texts(some) \o Texts(more)
<1>. DEFINE Parts(tasks) == [i \in DOMAIN tasks |-> TextOf(tasks[i])]
<1>1. ASSUME NEW tasks \in Seq(Task)
      PROVE  Parts(tasks) \in Seq(Seq(Token))
  <2>1. \A i \in 1 .. Len(tasks) : TextOf(tasks[i]) \in Seq(Token)
    <3>1. \A i \in 1 .. Len(tasks) : tasks[i] \in Task
      OBVIOUS
    <3>. QED
      BY <3>1, TaskKinds
  <2>2. DOMAIN tasks = 1 .. Len(tasks) /\ Len(tasks) \in Nat
    OBVIOUS
  <2>. QED
    BY <2>1, <2>2
<1>2. Texts(<<>>) = <<>>
  <2>1. Parts(<<>>) = <<>> /\ <<>> \in Seq(Seq(Token)) /\ <<>> \in Seq(Token)
    OBVIOUS
  <2>2. FlattenSeq(<<>>) = <<>>
    BY <2>1, FlattenAppend
  <2>. QED
    BY <2>1, <2>2 DEF Texts
<1>3. ASSUME NEW tasks \in Seq(Task)
      PROVE  Texts(tasks) \in Seq(Token)
  <2>1. PICK parts \in Seq(Seq(Token)) : parts = Parts(tasks)
    BY <1>1
  <2>2. <<>> \in Seq(Token)
    OBVIOUS
  <2>3. FlattenSeq(parts) \in Seq(Token)
    BY <2>2, FlattenAppend
  <2>. QED
    BY <2>1, <2>3 DEF Texts
<1>4. ASSUME NEW task \in Task
      PROVE  Texts(<<task>>) = TextOf(task)
  <2>1. PICK text \in Seq(Token) : text = TextOf(task)
    BY TaskKinds
  <2>2. Parts(<<task>>) = <<text>>
    BY <2>1
  <2>3. PICK none \in Seq(Seq(Token)) : none = <<>>
    <3>1. <<>> \in Seq(Seq(Token))
      OBVIOUS
    <3>. QED
      BY <3>1, Zenon
  <2>4. <<text>> = Append(none, text)
    BY <2>3
  <2>5. FlattenSeq(none) = <<>> /\ FlattenSeq(Append(none, text)) = FlattenSeq(none) \o text
    BY <2>3, FlattenAppend
  <2>6. <<>> \o text = text
    OBVIOUS
  <2>7. FlattenSeq(<<text>>) = text
    BY <2>4, <2>5, <2>6, Zenon
  <2>. QED
    BY <2>1, <2>2, <2>7 DEF Texts
<1>5. ASSUME NEW some \in Seq(Task), NEW more \in Seq(Task)
      PROVE  Texts(some \o more) = Texts(some) \o Texts(more)
  <2>1. PICK p \in Seq(Seq(Token)) : p = Parts(some)
    BY <1>1
  <2>2. PICK r \in Seq(Seq(Token)) : r = Parts(more)
    BY <1>1
  <2>3. Parts(some \o more) = p \o r
    <3>1. PICK all \in Seq(Task) :
            /\ all = some \o more /\ Len(all) = Len(some) + Len(more)
            /\ \A i \in 1 .. Len(all) : all[i] = IF i <= Len(some) THEN some[i] ELSE more[i - Len(some)]
      <4>1. /\ some \o more \in Seq(Task) /\ Len(some \o more) = Len(some) + Len(more)
            /\ \A i \in 1 .. Len(some) + Len(more) :
                 (some \o more)[i] = IF i <= Len(some) THEN some[i] ELSE more[i - Len(some)]
        BY ConcatProperties
      <4>. QED
        BY <4>1
    <3>2. /\ DOMAIN some = 1 .. Len(some) /\ Len(some) \in Nat
          /\ DOMAIN more = 1 .. Len(more) /\ Len(more) \in Nat
          /\ DOMAIN all = 1 .. Len(all)
      OBVIOUS
    <3>3. /\ Len(p) = Len(some) /\ \A i \in 1 .. Len(some) : p[i] = TextOf(some[i])
          /\ Len(r) = Len(more) /\ \A i \in 1 .. Len(more) : r[i] = TextOf(more[i])
      BY <2>1, <2>2, <3>2
    <3>4. PICK pr \in Seq(Seq(Token)) :
            /\ pr = p \o r /\ Len(pr) = Len(p) + Len(r)
            /\ \A i \in 1 .. Len(p) + Len(r) : pr[i] = IF i <= Len(p) THEN p[i] ELSE r[i - Len(p)]
      <4>1. /\ p \o r \in Seq(Seq(Token)) /\ Len(p \o r) = Len(p) + Len(r)
            /\ \A i \in 1 .. Len(p) + Len(r) : (p \o r)[i] = IF i <= Len(p) THEN p[i] ELSE r[i - Len(p)]
        BY ConcatProperties
      <4>. QED
        BY <4>1, Zenon
    <3>5. ASSUME NEW i \in 1 .. Len(all)
          PROVE  pr[i] = TextOf(all[i])
      <4>1. CASE i <= Len(some)
        <5>1. i \in 1 .. Len(some) /\ i \in 1 .. Len(p) + Len(r)
          BY <4>1, <3>1, <3>2, <3>3, <3>4
        <5>. QED
          BY <4>1, <5>1, <3>1, <3>3, <3>4
      <4>2. CASE ~(i <= Len(some))
        <5>1. i - Len(some) \in 1 .. Len(more) /\ i \in 1 .. Len(p) + Len(r)
          BY <4>2, <3>1, <3>2, <3>3, <3>4
        <5>. QED
          BY <4>2, <5>1, <3>1, <3>3, <3>4
      <4>. QED
        BY <4>1, <4>2
    <3>6. pr = [i \in DOMAIN all |-> TextOf(all[i])]
      <4>1. pr = [i \in DOMAIN pr |-> pr[i]]
        OBVIOUS
      <4>2. DOMAIN pr = 1 .. Len(pr)
        OBVIOUS
      <4>3. DOMAIN pr = DOMAIN all /\ \A i \in DOMAIN all : pr[i] = TextOf(all[i])
        BY <3>1, <3>2, <3>3, <3>4, <3>5, <4>2
      <4>. QED
        BY <4>1, <4>3
    <3>. QED
      BY <3>1, <3>4, <3>6, Zenon
  <2>4. FlattenSeq(p \o r) = FlattenSeq(p) \o FlattenSeq(r)
    BY FlattenConcat
  <2>. QED
    BY <2>1, <2>2, <2>3, <2>4 DEF Texts
<1>. QED
  BY <1>2, <1>3, <1>4, <1>5

\* The first task, and the text of those behind it.
LEMMA TextsHead ==
  ASSUME NEW tasks \in Seq(Task), tasks # <<>>
  PROVE  /\ Head(tasks) \in Task /\ Tail(tasks) \in Seq(Task)
         /\ tasks = <<Head(tasks)>> \o Tail(tasks)
         /\ Texts(tasks) = TextOf(Head(tasks)) \o Texts(Tail(tasks))
<1>1. /\ Head(tasks) \in Task /\ Tail(tasks) \in Seq(Task)
      /\ <<Head(tasks)>> \in Seq(Task) /\ tasks = <<Head(tasks)>> \o Tail(tasks)
  OBVIOUS
<1>2. PICK first \in Seq(Task) : first = <<Head(tasks)>>
  BY <1>1
<1>3. PICK rest \in Seq(Task) : rest = Tail(tasks)
  BY <1>1
<1>4. Texts(first \o rest) = Texts(first) \o Texts(rest)
  BY TextsConcat
<1>5. Texts(first) = TextOf(Head(tasks))
  BY <1>1, <1>2, TextsConcat
<1>. QED
  BY <1>1, <1>2, <1>3, <1>4, <1>5, Zenon

-----------------------------------------------------------------------------
(* The layout of a text: the brackets it owes, the braces it has open, and *)
(* what its last line has.  A line that is                                 *)
(*   open     has a statement, or the levels in front of one,              *)
(*   fresh    has nothing, and a statement is to come,                     *)
(*   head     has the levels in front of the parameters of a function,     *)
(*   headed   has the parameters, or is the first line,                    *)
(*   newline  has nothing, and neither the indent nor a statement yet,     *)
(*   close    has the levels in front of a closing brace.                  *)

Lines == {"open", "fresh", "head", "headed", "newline", "close"}
Layout == [owed : Dues, depth : Nat, line : Lines]
At(owed, depth, line) == [owed |-> owed, depth |-> depth, line |-> line]

Turns(q, r, lines, deeper) == <<q.line, r.line>> \in lines /\ r.depth = q.depth + deeper

\* The tokens that have no part in the layout.
Inert == Token \ {"{", "}", NewLine, Level}
Words == {text \in Seq(Inert) : text # <<>>}

BodyOpening == <<" = ", "{", "\n">>
BodyClosing == <<"}">>

\* The layouts behind a task that is done in some layout.
Goes(q, task, r) ==
  /\ r.owed = Owing(q.owed, TextOf(task))
  /\ \/ /\ task.do = "put" /\ task.text \in Words
        /\ Turns(q, r, {<<"open", "open">>, <<"head", "headed">>, <<"headed", "headed">>}, 0)
     \/ /\ task.do = "put" /\ task.text = <<NewLine>>
        /\ Turns(q, r, {<<"open", "fresh">>, <<"head", "newline">>}, 0)
     \/ /\ task.do = "put" /\ task.text = BodyOpening
        /\ Turns(q, r, {<<"open", "newline">>}, 1)
     \/ /\ task.do = "put" /\ task.text = BodyClosing
        /\ Turns(q, r, {<<"headed", "open">>, <<"close", "open">>}, -1)
     \/ /\ task.do = "param"
        /\ Turns(q, r, {<<"headed", "headed">>}, 0)
     \/ /\ task.do = "indent" /\ task.by = 1
        /\ Turns(q, r, {<<"newline", "fresh">>, <<"headed", "open">>}, 0)
     \/ /\ task.do = "indent" /\ task.by = -1
        /\ Turns(q, r, {<<"open", "head">>}, 0)
     \/ /\ task.do = "print"
        /\ Turns(q, r, {<<"fresh", "open">>, <<"newline", "close">>}, 0)
     \/ /\ task.do = "generate" /\ task.node \in Nodes
        /\ Turns(q, r, {<<"open", "open">>}, 0)
     \/ /\ task.do = "generate" /\ task.node \in Programs
        /\ q.depth = 0
        /\ Turns(q, r, IF task.node.body = <<>> THEN {<<"headed", "headed">>} ELSE {<<"headed", "close">>}, 0)

\* Layouts from q to r, one behind each task.
Passes(path, q, tasks, r) ==
  /\ path \in [0 .. Len(tasks) -> Layout]
  /\ path[0] = q /\ path[Len(tasks)] = r
  /\ \A i \in 1 .. Len(tasks) : Goes(path[i - 1], tasks[i], path[i])

\* Some tasks take the layout q to the layout r.
Reaches(q, tasks, r) ==
  tasks \in Seq(Task) /\ \E path \in [0 .. Len(tasks) -> Layout] : Passes(path, q, tasks, r)

\* No task, and one.
LEMMA ReachesShort ==
  /\ \A q \in Layout : Reaches(q, <<>>, q)
  /\ \A q, r : Reaches(q, <<>>, r) => q = r
  /\ \A q, r \in Layout, task \in Task : Goes(q, task, r) => Reaches(q, <<task>>, r)
<1>1. PICK none : none = <<>> /\ none \in Seq(Task) /\ Len(none) = 0
  <2>1. <<>> \in Seq(Task) /\ Len(<<>>) = 0
    OBVIOUS
  <2>. QED
    BY <2>1, Zenon
<1>2. ASSUME NEW q \in Layout
      PROVE  Reaches(q, none, q)
  <2>. DEFINE path == [i \in 0 .. 0 |-> q]
  <2>1. Passes(path, q, none, q) /\ path \in [0 .. Len(none) -> Layout]
    BY <1>1 DEF Passes
  <2>. QED
    BY <1>1, <2>1 DEF Reaches
<1>3. ASSUME NEW q, NEW r, Reaches(q, none, r)
      PROVE  q = r
  BY <1>1, <1>3 DEF Reaches, Passes
<1>4. ASSUME NEW q \in Layout, NEW r \in Layout, NEW task \in Task, Goes(q, task, r)
      PROVE  Reaches(q, <<task>>, r)
  <2>1. PICK one : one = <<task>> /\ one \in Seq(Task) /\ Len(one) = 1 /\ one[1] = task
    <3>1. <<task>> \in Seq(Task) /\ Len(<<task>>) = 1 /\ <<task>>[1] = task
      OBVIOUS
    <3>. QED
      BY <3>1, Zenon
  <2>. DEFINE path == [i \in 0 .. 1 |-> IF i = 0 THEN q ELSE r]
  <2>2. path \in [0 .. 1 -> Layout] /\ path[0] = q /\ path[1] = r
    OBVIOUS
  <2>. HIDE DEF path
  <2>3. \A i \in 1 .. 1 : i = 1 /\ i - 1 = 0
    OBVIOUS
  <2>4. \A i \in 1 .. 1 : Goes(path[i - 1], one[i], path[i])
    BY <1>4, <2>1, <2>2, <2>3, Zenon
  <2>5. Passes(path, q, one, r)
    BY <2>1, <2>2, <2>4, Zenon DEF Passes
  <2>. QED
    BY <2>1, <2>2, <2>5 DEF Reaches
<1>. QED
  BY <1>1, <1>2, <1>3, <1>4, Zenon

\* One list of tasks behind another.
LEMMA ReachesConcat ==
  ASSUME NEW q, NEW m, NEW r, NEW s, NEW t, Reaches(q, s, m), Reaches(m, t, r)
  PROVE  Reaches(q, s \o t, r)
<1>1. s \in Seq(Task) /\ t \in Seq(Task) /\ Len(s) \in Nat /\ Len(t) \in Nat
  BY DEF Reaches
<1>2. PICK f \in [0 .. Len(s) -> Layout] : Passes(f, q, s, m)
  BY DEF Reaches
<1>3. PICK g \in [0 .. Len(t) -> Layout] : Passes(g, m, t, r)
  BY DEF Reaches
<1>4. PICK u \in Seq(Task) :
        /\ u = s \o t /\ Len(u) = Len(s) + Len(t)
        /\ \A i \in 1 .. Len(u) : u[i] = IF i <= Len(s) THEN s[i] ELSE t[i - Len(s)]
  <2>1. /\ s \o t \in Seq(Task) /\ Len(s \o t) = Len(s) + Len(t)
        /\ \A i \in 1 .. Len(s) + Len(t) : (s \o t)[i] = IF i <= Len(s) THEN s[i] ELSE t[i - Len(s)]
    BY <1>1, ConcatProperties
  <2>2. \A i \in 1 .. Len(s \o t) : (s \o t)[i] = IF i <= Len(s) THEN s[i] ELSE t[i - Len(s)]
    BY <2>1
  <2>. QED
    BY <2>1, <2>2, Zenon
<1>. DEFINE path == [i \in 0 .. Len(u) |-> IF i <= Len(s) THEN f[i] ELSE g[i - Len(s)]]
<1>5. \A i \in 0 .. Len(u) : path[i] = IF i <= Len(s) THEN f[i] ELSE g[i - Len(s)]
  OBVIOUS
<1>6. path \in [0 .. Len(u) -> Layout]
  <2>1. ASSUME NEW i \in 0 .. Len(u)
        PROVE  (IF i <= Len(s) THEN f[i] ELSE g[i - Len(s)]) \in Layout
    <3>1. CASE i <= Len(s)
      <4>1. i \in 0 .. Len(s)
        BY <1>1, <3>1
      <4>. QED
        BY <3>1, <4>1
    <3>2. CASE ~(i <= Len(s))
      <4>1. i - Len(s) \in 0 .. Len(t)
        BY <1>1, <1>4, <3>2
      <4>. QED
        BY <3>2, <4>1
    <3>. QED
      BY <3>1, <3>2
  <2>. QED
    BY <2>1
<1>7. /\ f[0] = q /\ f[Len(s)] = m /\ \A i \in 1 .. Len(s) : Goes(f[i - 1], s[i], f[i])
      /\ g[0] = m /\ g[Len(t)] = r /\ \A i \in 1 .. Len(t) : Goes(g[i - 1], t[i], g[i])
  BY <1>2, <1>3 DEF Passes
<1>. HIDE DEF path
<1>8. path[0] = q /\ path[Len(u)] = r
  <2>1. path[0] = q
    BY <1>1, <1>4, <1>5, <1>7
  <2>2. CASE Len(t) = 0
    BY <1>1, <1>4, <1>5, <1>7, <2>2
  <2>3. CASE Len(t) # 0
    <3>1. Len(u) \in 0 .. Len(u) /\ ~(Len(u) <= Len(s)) /\ Len(u) - Len(s) = Len(t)
      BY <1>1, <1>4, <2>3
    <3>. QED
      BY <1>5, <1>7, <2>1, <3>1
  <2>. QED
    BY <2>1, <2>2, <2>3
<1>9. ASSUME NEW i \in 1 .. Len(u)
      PROVE  Goes(path[i - 1], u[i], path[i])
  <2>1. CASE i <= Len(s)
    <3>1. i \in 1 .. Len(s) /\ i \in 0 .. Len(u) /\ i - 1 \in 0 .. Len(u) /\ i - 1 <= Len(s)
      BY <1>1, <1>4, <2>1
    <3>2. path[i - 1] = f[i - 1] /\ path[i] = f[i] /\ u[i] = s[i]
      BY <1>4, <1>5, <2>1, <3>1
    <3>. QED
      BY <1>7, <3>1, <3>2
  <2>2. CASE ~(i <= Len(s))
    <3>1. PICK j \in 1 .. Len(t) : j = i - Len(s)
      BY <1>1, <1>4, <2>2
    <3>2. i \in 0 .. Len(u) /\ i - 1 \in 0 .. Len(u) /\ (i - 1) - Len(s) = j - 1 /\ (i - 1 <= Len(s) => j = 1 /\ i - 1 = Len(s))
      BY <1>1, <1>4, <2>2, <3>1
    <3>3. path[i] = g[j] /\ u[i] = t[j]
      BY <1>4, <1>5, <2>2, <3>1, <3>2
    <3>4. path[i - 1] = g[j - 1]
      <4>1. CASE i - 1 <= Len(s)
        <5>1. j - 1 = 0
          BY <3>2, <4>1
        <5>. QED
          BY <1>5, <1>7, <3>2, <4>1, <5>1
      <4>2. CASE ~(i - 1 <= Len(s))
        BY <1>5, <3>2, <4>2
      <4>. QED
        BY <4>1, <4>2
    <3>. QED
      BY <1>7, <3>3, <3>4
  <2>. QED
    BY <2>1, <2>2
<1>10. Passes(path, q, u, r)
  BY <1>6, <1>8, <1>9 DEF Passes
<1>. QED
  BY <1>4, <1>6, <1>10 DEF Reaches

\* The first task, and those behind it.
LEMMA ReachesFirst ==
  ASSUME NEW q, NEW r, NEW tasks, Reaches(q, tasks, r), tasks # <<>>
  PROVE  \E m \in Layout : Goes(q, Head(tasks), m) /\ Reaches(m, Tail(tasks), r)
<1>1. tasks \in Seq(Task) /\ Len(tasks) \in Nat \ {0}
  BY DEF Reaches
<1>2. PICK f \in [0 .. Len(tasks) -> Layout] : Passes(f, q, tasks, r)
  BY DEF Reaches
<1>3. PICK n \in Nat : n = Len(tasks) - 1
  BY <1>1
<1>4. PICK rest \in Seq(Task) : /\ rest = Tail(tasks) /\ Len(rest) = n
                                /\ \A i \in 1 .. n : rest[i] = tasks[i + 1]
  BY <1>1, <1>3
<1>. DEFINE path == [i \in 0 .. n |-> f[i + 1]]
<1>5. path \in [0 .. n -> Layout] /\ \A i \in 0 .. n : path[i] = f[i + 1]
  <2>1. \A i \in 0 .. n : i + 1 \in 0 .. Len(tasks)
    BY <1>1, <1>3
  <2>2. \A i \in 0 .. n : f[i + 1] \in Layout
    BY <2>1
  <2>. QED
    BY <2>2
<1>6. /\ f[0] = q /\ f[Len(tasks)] = r
      /\ \A i \in 1 .. Len(tasks) : Goes(f[i - 1], tasks[i], f[i])
  BY <1>2 DEF Passes
<1>. HIDE DEF path
<1>7. path[0] = f[1] /\ path[n] = r
  <2>1. 0 \in 0 .. n /\ n \in 0 .. n /\ 0 + 1 = 1 /\ n + 1 = Len(tasks)
    BY <1>1, <1>3
  <2>. QED
    BY <1>5, <1>6, <2>1
<1>8. ASSUME NEW i \in 1 .. n
      PROVE  Goes(path[i - 1], rest[i], path[i])
  <2>1. /\ i + 1 \in 1 .. Len(tasks) /\ (i + 1) - 1 = i /\ (i - 1) + 1 = i
        /\ i \in 0 .. n /\ i - 1 \in 0 .. n
    BY <1>1, <1>3
  <2>2. Goes(f[i], tasks[i + 1], f[i + 1])
    BY <1>6, <2>1
  <2>3. path[i - 1] = f[i] /\ path[i] = f[i + 1] /\ rest[i] = tasks[i + 1]
    BY <1>4, <1>5, <2>1
  <2>. QED
    BY <2>2, <2>3
<1>9. Reaches(f[1], rest, r)
  <2>1. Passes(path, f[1], rest, r)
    BY <1>4, <1>5, <1>7, <1>8 DEF Passes
  <2>. QED
    BY <1>4, <1>5, <2>1 DEF Reaches
<1>10. Goes(q, Head(tasks), f[1]) /\ f[1] \in Layout
  <2>1. 1 \in 1 .. Len(tasks) /\ 1 \in 0 .. Len(tasks) /\ 1 - 1 = 0 /\ Head(tasks) = tasks[1]
    BY <1>1
  <2>. QED
    BY <1>6, <2>1
<1>. QED
  BY <1>4, <1>9, <1>10

\* Pieces that come back to a layout do so in any number.
LEMMA ReachesBack ==
  ASSUME NEW q \in Layout
  PROVE  \A pieces \in Seq({tasks \in Seq(Task) : Reaches(q, tasks, q)}) :
           Reaches(q, FlattenSeq(pieces), q)
<1>. DEFINE Loops == {tasks \in Seq(Task) : Reaches(q, tasks, q)}
            S == {pieces \in Seq(Loops) : Reaches(q, FlattenSeq(pieces), q)}
<1>0. \A pieces \in Seq(Loops) : pieces \in Seq(Seq(Task))
  OBVIOUS
<1>1. <<>> \in S
  <2>1. <<>> \in Seq(Loops) /\ <<>> \in Seq(Seq(Task)) /\ <<>> \in Seq(Task)
    OBVIOUS
  <2>2. FlattenSeq(<<>>) = <<>>
    BY <2>1, FlattenAppend
  <2>3. Reaches(q, <<>>, q)
    BY ReachesShort
  <2>. QED
    BY <2>1, <2>2, <2>3, Zenon
<1>2. ASSUME NEW pieces \in Seq(Loops), NEW tasks \in Loops, pieces \in S
      PROVE  Append(pieces, tasks) \in S
  <2>1. Append(pieces, tasks) \in Seq(Loops) /\ tasks \in Seq(Task) /\ Reaches(q, tasks, q)
    OBVIOUS
  <2>2. FlattenSeq(Append(pieces, tasks)) = FlattenSeq(pieces) \o tasks
    BY <1>0, <2>1, FlattenAppend
  <2>3. Reaches(q, FlattenSeq(pieces) \o tasks, q)
    BY <1>2, <2>1, ReachesConcat
  <2>. QED
    BY <2>1, <2>2, <2>3
<1>. HIDE DEF S, Loops
<1>3. Seq(Loops) \subseteq S
  BY <1>1, <1>2, AppendInduction
<1>. QED
  BY <1>3 DEF S, Loops

\* The last task, and those before it.
LEMMA ReachesLast ==
  ASSUME NEW q, NEW r, NEW tasks \in Seq(Task), NEW task \in Task, Reaches(q, Append(tasks, task), r)
  PROVE  \E m \in Layout : Reaches(q, tasks, m) /\ Goes(m, task, r)
<1>1. PICK u \in Seq(Task) : /\ u = Append(tasks, task) /\ Len(u) = Len(tasks) + 1 /\ Len(tasks) \in Nat
                             /\ \A i \in 1 .. Len(tasks) : u[i] = tasks[i]
                             /\ u[Len(tasks) + 1] = task
  <2>1. /\ Append(tasks, task) \in Seq(Task) /\ Len(Append(tasks, task)) = Len(tasks) + 1
        /\ Len(tasks) \in Nat
        /\ \A i \in 1 .. Len(tasks) : Append(tasks, task)[i] = tasks[i]
        /\ Append(tasks, task)[Len(tasks) + 1] = task
    OBVIOUS
  <2>. QED
    BY <2>1, Zenon
<1>2. PICK f \in [0 .. Len(u) -> Layout] : Passes(f, q, u, r)
  BY <1>1 DEF Reaches
<1>3. /\ f[0] = q /\ f[Len(u)] = r
      /\ \A i \in 1 .. Len(u) : Goes(f[i - 1], u[i], f[i])
  BY <1>2 DEF Passes
<1>. DEFINE path == [i \in 0 .. Len(tasks) |-> f[i]]
<1>4. path \in [0 .. Len(tasks) -> Layout] /\ \A i \in 0 .. Len(tasks) : path[i] = f[i]
  BY <1>1
<1>. HIDE DEF path
<1>5. ASSUME NEW i \in 1 .. Len(tasks)
      PROVE  Goes(path[i - 1], tasks[i], path[i])
  <2>1. i \in 1 .. Len(u) /\ i \in 0 .. Len(tasks) /\ i - 1 \in 0 .. Len(tasks)
    BY <1>1
  <2>. QED
    BY <1>1, <1>3, <1>4, <2>1
<1>6. path[0] = q /\ path[Len(tasks)] = f[Len(tasks)] /\ f[Len(tasks)] \in Layout
  BY <1>1, <1>3, <1>4
<1>7. Reaches(q, tasks, f[Len(tasks)])
  BY <1>4, <1>5, <1>6 DEF Reaches, Passes
<1>8. Goes(f[Len(tasks)], task, r)
  <2>1. Len(u) \in 1 .. Len(u) /\ Len(u) - 1 = Len(tasks) /\ u[Len(u)] = task
    BY <1>1
  <2>. QED
    BY <1>3, <2>1
<1>. QED
  BY <1>6, <1>7, <1>8

\* What is owed behind the text of some tasks.
LEMMA ReachesOwes ==
  \A tasks \in Seq(Task), q \in Layout : \A r : Reaches(q, tasks, r) => Owing(q.owed, Texts(tasks)) = r.owed
<1>. DEFINE S == {tasks \in Seq(Task) :
                    \A q \in Layout : \A r : Reaches(q, tasks, r) => Owing(q.owed, Texts(tasks)) = r.owed}
<1>0. \A q \in Layout : q.owed \in Dues
  BY DEF Layout
<1>1. <<>> \in S
  <2>1. <<>> \in Seq(Task)
    OBVIOUS
  <2>2. ASSUME NEW q \in Layout
        PROVE  Owing(q.owed, Texts(<<>>)) = q.owed
    <3>1. Owing(q.owed, <<>>) = q.owed
      BY <1>0, OwingShort
    <3>. QED
      BY <3>1, TextsConcat
  <2>. QED
    BY <2>1, <2>2, ReachesShort
<1>2. ASSUME NEW tasks \in Seq(Task), NEW task \in Task, tasks \in S
      PROVE  Append(tasks, task) \in S
  <2>1. Append(tasks, task) = tasks \o <<task>> /\ Append(tasks, task) \in Seq(Task) /\ <<task>> \in Seq(Task)
    OBVIOUS
  <2>2. ASSUME NEW q \in Layout, NEW r, Reaches(q, Append(tasks, task), r)
        PROVE  Owing(q.owed, Texts(Append(tasks, task))) = r.owed
    <3>1. PICK m \in Layout : Reaches(q, tasks, m) /\ Goes(m, task, r)
      BY <2>2, ReachesLast
    <3>2. PICK some \in Seq(Token) : some = Texts(tasks)
      BY TextsConcat
    <3>3. PICK one \in Seq(Token) : one = TextOf(task)
      BY TaskKinds
    <3>4. Texts(Append(tasks, task)) = some \o one
      <4>1. Texts(tasks \o <<task>>) = Texts(tasks) \o Texts(<<task>>) /\ Texts(<<task>>) = TextOf(task)
        BY <2>1, TextsConcat
      <4>. QED
        BY <2>1, <3>2, <3>3, <4>1, Zenon
    <3>5. Owing(q.owed, some \o one) = Owing(Owing(q.owed, some), one)
      BY <1>0, OwingConcat
    <3>6. Owing(q.owed, some) = m.owed
      BY <1>2, <3>1, <3>2
    <3>7. r.owed = Owing(m.owed, one)
      BY <3>1, <3>3 DEF Goes
    <3>. QED
      BY <3>4, <3>5, <3>6, <3>7
  <2>. QED
    BY <2>1, <2>2
<1>. HIDE DEF S
<1>3. Seq(Task) \subseteq S
  BY <1>1, <1>2, AppendInduction
<1>. QED
  BY <1>3 DEF S

-----------------------------------------------------------------------------
(* The tokens of the handlers.                                             *)

Curly == "}"
Square == "]"
Round == ")"

\* Tokens that have no part in the layout and are no bracket.
Common == Inert \ Bracket

Joints == {";", "_", "\"", " ", ", ", " = ", "private ", "params ", " call "}

\* What kind of token each of the handlers' is.
LEMMA FixedTokens ==
  /\ Joints \subseteq Common
  /\ {"(", ")", "[", "]"} \subseteq Inert
  /\ {NewLine, Level, "{", "}"} \subseteq Token
  /\ NewLine \notin Bracket /\ Level \notin Bracket /\ NewLine # Level
  /\ {"(", "[", "{"} \subseteq Opening /\ {Round, Square, Curly} \subseteq Closing \ Opening
  /\ Closer["("] = Round /\ Closer["["] = Square /\ Closer["{"] = Curly
<1>1. Fixed \subseteq Token
  BY WidthAssumption DEF Token
<1>2. ASSUME NEW t \in Joints
      PROVE  t \in Common
  <2>1. t \in Fixed
    BY <1>2, Zenon DEF Joints, Fixed
  <2>2. t \notin Bracket \cup {NewLine, Level}
    BY <1>2, Zenon DEF Joints, Bracket, Opening, Closing, NewLine, Level
  <2>3. t \notin {"{", "}"}
    BY <1>2, Zenon DEF Joints
  <2>. QED
    BY <1>1, <2>1, <2>2, <2>3, Zenon DEF Common, Inert
<1>3. ASSUME NEW t \in {"(", ")", "[", "]"}
      PROVE  t \in Inert
  <2>1. t \in Fixed
    BY <1>3, Zenon DEF Fixed
  <2>2. t \notin {"{", "}", NewLine, Level}
    BY <1>3, Zenon DEF NewLine, Level
  <2>. QED
    BY <1>1, <2>1, <2>2, Zenon DEF Inert
<1>4. {NewLine, Level, "{", "}"} \subseteq Token
  BY <1>1, Zenon DEF Fixed
<1>5. NewLine \notin Bracket /\ Level \notin Bracket /\ NewLine # Level
  BY Zenon DEF NewLine, Level, Bracket, Opening, Closing
<1>6. {"(", "[", "{"} \subseteq Opening /\ {Round, Square, Curly} \subseteq Closing \ Opening
  BY Zenon DEF Opening, Closing, Round, Square, Curly
<1>7. Closer["("] = Round /\ Closer["["] = Square /\ Closer["{"] = Curly
  BY Zenon DEF Closer, Opening, Round, Square, Curly
<1>. QED
  BY <1>2, <1>3, <1>4, <1>5, <1>6, <1>7, Zenon

\* What a bracket adds to what is owed, or takes from it.
LEMMA BracketsOwe ==
  ASSUME NEW owed \in Dues
  PROVE  /\ \A t \in Opening : OwedBehind(owed, t) = Append(owed, Closer[t])
         /\ \A c \in Closing \ Opening : Append(owed, c) \in Dues /\ OwedBehind(Append(owed, c), c) = owed
         /\ \A t : t \notin Bracket => OwedBehind(owed, t) = owed
<1>1. \A t \in Opening : OwedBehind(owed, t) = Append(owed, Closer[t])
  BY DEF OwedBehind
<1>2. ASSUME NEW c \in Closing \ Opening
      PROVE  Append(owed, c) \in Dues /\ OwedBehind(Append(owed, c), c) = owed
  <2>1. PICK more : more = Append(owed, c) /\ more \in Dues /\ more # <<>>
                    /\ Len(more) = Len(owed) + 1 /\ Len(owed) \in Nat
                    /\ more[Len(owed) + 1] = c
                    /\ \A i \in 1 .. Len(owed) : more[i] = owed[i]
    <3>1. /\ Append(owed, c) \in Dues /\ Append(owed, c) # <<>>
          /\ Len(Append(owed, c)) = Len(owed) + 1 /\ Len(owed) \in Nat
          /\ Append(owed, c)[Len(owed) + 1] = c
          /\ \A i \in 1 .. Len(owed) : Append(owed, c)[i] = owed[i]
      BY DEF Dues
    <3>. QED
      BY <3>1, Zenon
  <2>2. /\ Front(more) \in Dues /\ Last(more) = more[Len(more)]
        /\ Len(Front(more)) = Len(more) - 1
        /\ \A i \in 1 .. Len(more) - 1 : Front(more)[i] = more[i]
    BY <2>1, FrontLast DEF Dues
  <2>3. Last(more) = c
    BY <2>1, <2>2
  <2>4. Front(more) = owed
    <3>1. Len(Front(more)) = Len(owed) /\ \A i \in 1 .. Len(owed) : Front(more)[i] = owed[i]
      BY <2>1, <2>2
    <3>. QED
      BY <2>2, <3>1, SeqEqual DEF Dues
  <2>. QED
    BY <2>1, <2>3, <2>4, Zenon DEF OwedBehind
<1>3. \A t : t \notin Bracket => OwedBehind(owed, t) = owed
  BY Zenon DEF OwedBehind, Bracket
<1>. QED
  BY <1>1, <1>2, <1>3

\* What is owed behind texts of one, two and three tokens.
LEMMA OwingOne ==
  ASSUME NEW owed \in Dues, NEW a, NEW text, text = <<a>>
  PROVE  Owing(owed, text) = OwedBehind(owed, a)
<1>1. a \in {a}
  OBVIOUS
<1>2. Owing(owed, <<a>>) = OwedBehind(owed, a)
  BY <1>1, OwingShort
<1>. QED
  BY <1>2, Zenon

\* Of two.
LEMMA OwingTwo ==
  ASSUME NEW owed \in Dues, NEW a, NEW b, NEW text, text = <<a, b>>
  PROVE  Owing(owed, text) = OwedBehind(OwedBehind(owed, a), b)
<1>1. PICK V : a \in V /\ b \in V
  <2>1. a \in {a, b} /\ b \in {a, b}
    OBVIOUS
  <2>. QED
    BY <2>1, Zenon
<1>2. PICK p \in Seq(V) : p = <<a>>
  <2>1. <<a>> \in Seq(V)
    BY <1>1
  <2>. QED
    BY <2>1, Zenon
<1>3. PICK q \in Seq(V) : q = <<b>>
  <2>1. <<b>> \in Seq(V)
    BY <1>1
  <2>. QED
    BY <2>1, Zenon
<1>4. text = p \o q
  <2>1. \A s \in Seq(V) : s \o <<b>> = Append(s, b)
    BY <1>1
  <2>2. <<a, b>> = Append(<<a>>, b)
    OBVIOUS
  <2>. QED
    BY <1>2, <1>3, <2>1, <2>2, Zenon
<1>5. Owing(owed, p \o q) = Owing(Owing(owed, p), q) /\ Owing(owed, p) \in Dues
  BY OwingConcat
<1>6. Owing(owed, p) = OwedBehind(owed, a)
  BY <1>2, OwingOne, Zenon
<1>7. Owing(Owing(owed, p), q) = OwedBehind(Owing(owed, p), b)
  BY <1>3, <1>5, OwingOne, Zenon
<1>. QED
  BY <1>4, <1>5, <1>6, <1>7, Zenon

\* Of three.
LEMMA OwingThree ==
  ASSUME NEW owed \in Dues, NEW a, NEW b, NEW c, NEW text, text = <<a, b, c>>
  PROVE  Owing(owed, text) = OwedBehind(OwedBehind(OwedBehind(owed, a), b), c)
<1>1. PICK V : a \in V /\ b \in V /\ c \in V
  <2>1. a \in {a, b, c} /\ b \in {a, b, c} /\ c \in {a, b, c}
    OBVIOUS
  <2>. QED
    BY <2>1, Zenon
<1>2. PICK p \in Seq(V) : p = <<a, b>>
  <2>1. <<a, b>> \in Seq(V)
    BY <1>1
  <2>. QED
    BY <2>1, Zenon
<1>3. PICK q \in Seq(V) : q = <<c>>
  <2>1. <<c>> \in Seq(V)
    BY <1>1
  <2>. QED
    BY <2>1, Zenon
<1>4. text = p \o q
  <2>1. \A s \in Seq(V) : s \o <<c>> = Append(s, c)
    BY <1>1
  <2>2. <<a, b, c>> = Append(<<a, b>>, c)
    OBVIOUS
  <2>. QED
    BY <1>2, <1>3, <2>1, <2>2, Zenon
<1>5. Owing(owed, p \o q) = Owing(Owing(owed, p), q) /\ Owing(owed, p) \in Dues
  BY OwingConcat
<1>6. Owing(owed, p) = OwedBehind(OwedBehind(owed, a), b)
  <2>1. \A w \in Dues : \A x, y, text2 : text2 = <<x, y>> => Owing(w, text2) = OwedBehind(OwedBehind(w, x), y)
    BY OwingTwo
  <2>2. p = <<a, b>> => Owing(owed, p) = OwedBehind(OwedBehind(owed, a), b)
    BY <2>1
  <2>. QED
    BY <1>2, <2>2
<1>7. Owing(Owing(owed, p), q) = OwedBehind(Owing(owed, p), c)
  BY <1>3, <1>5, OwingOne, Zenon
<1>. QED
  BY <1>4, <1>5, <1>6, <1>7, Zenon

\* Tokens that are no brackets leave what is owed.
LEMMA PlainOwes ==
  ASSUME NEW owed \in Dues, NEW V, V \cap Bracket = {}
  PROVE  \A text \in Seq(V) : Owing(owed, text) = owed
<1>. DEFINE S == {text \in Seq(V) : Owing(owed, text) = owed}
<1>1. <<>> \in S
  <2>1. <<>> \in Seq(V)
    OBVIOUS
  <2>2. Owing(owed, <<>>) = owed
    BY OwingShort
  <2>. QED
    BY <2>1, <2>2, Zenon
<1>2. ASSUME NEW text \in Seq(V), NEW t \in V, text \in S
      PROVE  Append(text, t) \in S
  <2>1. Append(text, t) = text \o <<t>> /\ Append(text, t) \in Seq(V)
    OBVIOUS
  <2>2. Owing(owed, text \o <<t>>) = Owing(Owing(owed, text), <<t>>)
    <3>1. PICK one \in Seq(V) : one = <<t>>
      <4>1. <<t>> \in Seq(V)
        OBVIOUS
      <4>. QED
        BY <4>1, Zenon
    <3>2. Owing(owed, text \o one) = Owing(Owing(owed, text), one)
      BY OwingConcat
    <3>. QED
      BY <3>1, <3>2, Zenon
  <2>3. Owing(owed, <<t>>) = OwedBehind(owed, t)
    BY OwingShort
  <2>4. OwedBehind(owed, t) = owed
    <3>1. t \notin Bracket
      OBVIOUS
    <3>. QED
      BY <3>1, BracketsOwe
  <2>. QED
    BY <1>2, <2>1, <2>2, <2>3, <2>4
<1>. HIDE DEF S
<1>3. Seq(V) \subseteq S
  BY <1>1, <1>2, AppendInduction
<1>. QED
  BY <1>3 DEF S

\* Common tokens do.
LEMMA CommonOwes ==
  ASSUME NEW owed \in Dues
  PROVE  \A text \in Seq(Common) : Owing(owed, text) = owed
<1>1. Common \cap Bracket = {}
  BY DEF Common
<1>. QED
  BY <1>1, PlainOwes

-----------------------------------------------------------------------------
(* What one task does to a layout.                                         *)

\* A task that goes from one layout to another reaches it.
LEMMA OneReaches ==
  ASSUME NEW owed \in Dues, NEW depth \in Nat, NEW line \in Lines,
         NEW owed2 \in Dues, NEW depth2 \in Nat, NEW line2 \in Lines,
         NEW task \in Task, Goes(At(owed, depth, line), task, At(owed2, depth2, line2))
  PROVE  Reaches(At(owed, depth, line), <<task>>, At(owed2, depth2, line2))
<1>1. At(owed, depth, line) \in Layout /\ At(owed2, depth2, line2) \in Layout
  BY DEF At, Layout
<1>. QED
  BY <1>1, ReachesShort

\* Texts without braces and line breaks.
LEMMA WordsGo ==
  ASSUME NEW owed \in Dues, NEW depth \in Nat, NEW text \in Words, NEW owed2 \in Dues,
         Owing(owed, text) = owed2
  PROVE  /\ Reaches(At(owed, depth, "open"), <<Put(text)>>, At(owed2, depth, "open"))
         /\ Reaches(At(owed, depth, "head"), <<Put(text)>>, At(owed2, depth, "headed"))
         /\ Reaches(At(owed, depth, "headed"), <<Put(text)>>, At(owed2, depth, "headed"))
<1>1. text \in Seq(Token) /\ text # <<>>
  <2>1. text \in Seq(Inert) /\ text # <<>>
    BY DEF Words
  <2>2. Inert \subseteq Token
    BY Zenon DEF Inert
  <2>. QED
    BY <2>1, <2>2
<1>2. Put(text) \in Task /\ TextOf(Put(text)) = text
  BY <1>1, TaskKinds
<1>3. Put(text).do = "put" /\ Put(text).text = text
  BY DEF Put
<1>4. depth + 0 = depth
  OBVIOUS
<1>5. ASSUME NEW line \in Lines, NEW line2 \in Lines,
             <<line, line2>> \in {<<"open", "open">>, <<"head", "headed">>, <<"headed", "headed">>}
      PROVE  Reaches(At(owed, depth, line), <<Put(text)>>, At(owed2, depth, line2))
  <2>1. Goes(At(owed, depth, line), Put(text), At(owed2, depth, line2))
    BY <1>2, <1>3, <1>4, <1>5 DEF Goes, Turns, At
  <2>. QED
    BY <1>2, <2>1, OneReaches
<1>6. {"open", "head", "headed"} \subseteq Lines
  BY DEF Lines
<1>. QED
  BY <1>5, <1>6

\* A line break.
LEMMA LineGoes ==
  ASSUME NEW owed \in Dues, NEW depth \in Nat
  PROVE  /\ Reaches(At(owed, depth, "open"), <<Put(<<NewLine>>)>>, At(owed, depth, "fresh"))
         /\ Reaches(At(owed, depth, "head"), <<Put(<<NewLine>>)>>, At(owed, depth, "newline"))
<1>1. PICK text \in Seq(Token) : text = <<NewLine>> /\ Owing(owed, text) = owed
  <2>1. NewLine \in Token /\ NewLine \notin Bracket
    BY FixedTokens, Zenon
  <2>2. <<NewLine>> \in Seq(Token)
    BY <2>1
  <2>3. Owing(owed, <<NewLine>>) = OwedBehind(owed, NewLine) /\ OwedBehind(owed, NewLine) = owed
    BY <2>1, OwingOne, BracketsOwe
  <2>. QED
    BY <2>2, <2>3
<1>2. Put(text) \in Task /\ TextOf(Put(text)) = text
  BY TaskKinds
<1>3. Put(text).do = "put" /\ Put(text).text = text
  BY DEF Put
<1>4. depth + 0 = depth
  OBVIOUS
<1>5. ASSUME NEW line \in Lines, NEW line2 \in Lines,
             <<line, line2>> \in {<<"open", "fresh">>, <<"head", "newline">>}
      PROVE  Reaches(At(owed, depth, line), <<Put(text)>>, At(owed, depth, line2))
  <2>1. Goes(At(owed, depth, line), Put(text), At(owed, depth, line2))
    BY <1>1, <1>2, <1>3, <1>4, <1>5 DEF Goes, Turns, At
  <2>. QED
    BY <1>2, <2>1, OneReaches
<1>6. {"open", "head", "fresh", "newline"} \subseteq Lines
  BY DEF Lines
<1>. QED
  BY <1>1, <1>5, <1>6

\* Tasks that write no text themselves.
LEMMA SilentGo ==
  ASSUME NEW owed \in Dues, NEW depth \in Nat
  PROVE  /\ Reaches(At(owed, depth, "newline"), <<Indent(1)>>, At(owed, depth, "fresh"))
         /\ Reaches(At(owed, depth, "headed"), <<Indent(1)>>, At(owed, depth, "open"))
         /\ Reaches(At(owed, depth, "open"), <<Indent(-1)>>, At(owed, depth, "head"))
         /\ Reaches(At(owed, depth, "fresh"), <<PrintIndent>>, At(owed, depth, "open"))
         /\ Reaches(At(owed, depth, "newline"), <<PrintIndent>>, At(owed, depth, "close"))
         /\ \A node \in Nodes :
              /\ Reaches(At(owed, depth, "open"), <<Gen(node)>>, At(owed, depth, "open"))
              /\ Reaches(At(owed, depth, "headed"), <<Param(node)>>, At(owed, depth, "headed"))
<1>1. Owing(owed, <<>>) = owed
  BY OwingShort
<1>2. Lines = {"open", "fresh", "head", "headed", "newline", "close"} /\ depth + 0 = depth
  BY DEF Lines
<1>3. /\ Indent(1) \in Task /\ TextOf(Indent(1)) = <<>>
      /\ Indent(-1) \in Task /\ TextOf(Indent(-1)) = <<>>
      /\ PrintIndent \in Task /\ TextOf(PrintIndent) = <<>>
      /\ \A node \in Nodes : Gen(node) \in Task /\ TextOf(Gen(node)) = <<>>
      /\ \A node \in Nodes : Param(node) \in Task /\ TextOf(Param(node)) = <<>>
  BY TaskKinds DEF Walked
<1>4. ASSUME NEW line \in Lines, NEW line2 \in Lines,
             <<line, line2>> \in {<<"newline", "fresh">>, <<"headed", "open">>}
      PROVE  Reaches(At(owed, depth, line), <<Indent(1)>>, At(owed, depth, line2))
  <2>1. Indent(1).do = "indent" /\ Indent(1).by = 1
    BY DEF Indent
  <2>2. Goes(At(owed, depth, line), Indent(1), At(owed, depth, line2))
    BY <1>1, <1>2, <1>3, <1>4, <2>1 DEF Goes, Turns, At
  <2>. QED
    BY <1>3, <2>2, OneReaches
<1>5. Reaches(At(owed, depth, "open"), <<Indent(-1)>>, At(owed, depth, "head"))
  <2>1. Indent(-1).do = "indent" /\ Indent(-1).by = -1
    BY DEF Indent
  <2>2. Goes(At(owed, depth, "open"), Indent(-1), At(owed, depth, "head"))
    BY <1>1, <1>2, <1>3, <2>1 DEF Goes, Turns, At
  <2>. QED
    BY <1>2, <1>3, <2>2, OneReaches
<1>6. ASSUME NEW line \in Lines, NEW line2 \in Lines,
             <<line, line2>> \in {<<"fresh", "open">>, <<"newline", "close">>}
      PROVE  Reaches(At(owed, depth, line), <<PrintIndent>>, At(owed, depth, line2))
  <2>1. PrintIndent.do = "print"
    BY DEF PrintIndent
  <2>2. Goes(At(owed, depth, line), PrintIndent, At(owed, depth, line2))
    BY <1>1, <1>2, <1>3, <1>6, <2>1 DEF Goes, Turns, At
  <2>. QED
    BY <1>3, <2>2, OneReaches
<1>7. ASSUME NEW node \in Nodes
      PROVE  /\ Reaches(At(owed, depth, "open"), <<Gen(node)>>, At(owed, depth, "open"))
             /\ Reaches(At(owed, depth, "headed"), <<Param(node)>>, At(owed, depth, "headed"))
  <2>1. Gen(node).do = "generate" /\ Gen(node).node = node /\ Param(node).do = "param"
    BY DEF Gen, Param
  <2>2. Goes(At(owed, depth, "open"), Gen(node), At(owed, depth, "open"))
    BY <1>1, <1>2, <1>3, <2>1 DEF Goes, Turns, At
  <2>3. Goes(At(owed, depth, "headed"), Param(node), At(owed, depth, "headed"))
    BY <1>1, <1>2, <1>3, <2>1 DEF Goes, Turns, At
  <2>. QED
    BY <1>2, <1>3, <2>2, <2>3, OneReaches
<1>. QED
  BY <1>2, <1>4, <1>5, <1>6, <1>7

\* The braces of a function.
LEMMA BodyGoes ==
  ASSUME NEW owed \in Dues, NEW depth \in Nat
  PROVE  /\ Append(owed, Curly) \in Dues
         /\ Reaches(At(owed, depth, "open"), <<Put(BodyOpening)>>, At(Append(owed, Curly), depth + 1, "newline"))
         /\ \A line \in {"headed", "close"} :
              Reaches(At(Append(owed, Curly), depth + 1, line), <<Put(BodyClosing)>>, At(owed, depth, "open"))
<1>1. Append(owed, Curly) \in Dues /\ Lines = {"open", "fresh", "head", "headed", "newline", "close"}
  BY FixedTokens, BracketsOwe DEF Lines
<1>2. BodyOpening \in Seq(Token) /\ Owing(owed, BodyOpening) = Append(owed, Curly)
  <2>1. PICK a, b, c : /\ a = " = " /\ b = "{" /\ c = NewLine /\ BodyOpening = <<a, b, c>>
    BY Zenon DEF BodyOpening, NewLine
  <2>2. /\ a \in Common /\ b \in Opening /\ b \in Token /\ c \in Token /\ c \notin Bracket
        /\ Closer[b] = Curly
    BY <2>1, FixedTokens, Zenon DEF Joints
  <2>3. a \in Token /\ a \notin Bracket
    BY <2>2 DEF Common, Inert
  <2>4. Owing(owed, <<a, b, c>>) = OwedBehind(OwedBehind(OwedBehind(owed, a), b), c)
    BY OwingThree
  <2>5. OwedBehind(owed, a) = owed /\ OwedBehind(owed, b) = Append(owed, Curly)
    BY <2>2, <2>3, BracketsOwe
  <2>6. OwedBehind(Append(owed, Curly), c) = Append(owed, Curly)
    BY <1>1, <2>2, BracketsOwe
  <2>7. <<a, b, c>> \in Seq(Token)
    BY <2>2, <2>3
  <2>. QED
    BY <2>1, <2>4, <2>5, <2>6, <2>7, Zenon
<1>3. BodyClosing \in Seq(Token) /\ Owing(Append(owed, Curly), BodyClosing) = owed
  <2>1. BodyClosing = <<Curly>>
    BY DEF BodyClosing, Curly
  <2>2. Curly \in Closing \ Opening /\ Curly \in Token
    BY FixedTokens, Zenon DEF Curly
  <2>3. Owing(Append(owed, Curly), <<Curly>>) = OwedBehind(Append(owed, Curly), Curly)
    BY <1>1, OwingOne
  <2>4. OwedBehind(Append(owed, Curly), Curly) = owed
    BY <2>2, BracketsOwe
  <2>5. <<Curly>> \in Seq(Token)
    BY <2>2
  <2>. QED
    BY <2>1, <2>3, <2>4, <2>5, Zenon
<1>4. /\ Put(BodyOpening) \in Task /\ TextOf(Put(BodyOpening)) = BodyOpening
      /\ Put(BodyClosing) \in Task /\ TextOf(Put(BodyClosing)) = BodyClosing
  BY <1>2, <1>3, TaskKinds
<1>5. /\ Put(BodyOpening).do = "put" /\ Put(BodyOpening).text = BodyOpening
      /\ Put(BodyClosing).do = "put" /\ Put(BodyClosing).text = BodyClosing
  BY DEF Put
<1>6. (depth + 1) + -1 = depth /\ depth + 1 \in Nat
  OBVIOUS
<1>7. Goes(At(owed, depth, "open"), Put(BodyOpening), At(Append(owed, Curly), depth + 1, "newline"))
  BY <1>2, <1>4, <1>5 DEF Goes, Turns, At
<1>8. ASSUME NEW line \in {"headed", "close"}
      PROVE  Goes(At(Append(owed, Curly), depth + 1, line), Put(BodyClosing), At(owed, depth, "open"))
  BY <1>3, <1>4, <1>5, <1>6 DEF Goes, Turns, At
<1>. QED
  BY <1>1, <1>4, <1>6, <1>7, <1>8, OneReaches

-----------------------------------------------------------------------------
(* What the tasks of a handler do to a layout.                             *)

\* Lists of tasks that come back to a layout.
Loops(q) == {tasks \in Seq(Task) : Reaches(q, tasks, q)}

\* Two tasks, one after the other.
LEMMA Two ==
  ASSUME NEW a, NEW b
  PROVE  <<a, b>> = <<a>> \o <<b>>
<1>. DEFINE V == {a, b}
<1>1. <<a>> \in Seq(V) /\ b \in V
  OBVIOUS
<1>. HIDE DEF V
<1>2. \A s \in Seq(V) : s \o <<b>> = Append(s, b)
  BY <1>1
<1>3. <<a, b>> = Append(<<a>>, b)
  OBVIOUS
<1>. QED
  BY <1>1, <1>2, <1>3, Zenon

\* Three.
LEMMA Three ==
  ASSUME NEW a, NEW b, NEW c
  PROVE  <<a, b, c>> = <<a, b>> \o <<c>>
<1>. DEFINE V == {a, b, c}
<1>1. <<a, b>> \in Seq(V) /\ c \in V
  OBVIOUS
<1>. HIDE DEF V
<1>2. \A s \in Seq(V) : s \o <<c>> = Append(s, c)
  BY <1>1
<1>3. <<a, b, c>> = Append(<<a, b>>, c)
  OBVIOUS
<1>. QED
  BY <1>1, <1>2, <1>3, Zenon

\* Four.
LEMMA Four ==
  ASSUME NEW a, NEW b, NEW c, NEW d
  PROVE  <<a, b, c, d>> = <<a, b, c>> \o <<d>>
<1>. DEFINE V == {a, b, c, d}
<1>1. <<a, b, c>> \in Seq(V) /\ d \in V
  OBVIOUS
<1>. HIDE DEF V
<1>2. \A s \in Seq(V) : s \o <<d>> = Append(s, d)
  BY <1>1
<1>3. <<a, b, c, d>> = Append(<<a, b, c>>, d)
  OBVIOUS
<1>. QED
  BY <1>1, <1>2, <1>3, Zenon

\* What two, three and four of them reach.
LEMMA ReachesTwo ==
  ASSUME NEW q, NEW m, NEW r, NEW a, NEW b, Reaches(q, <<a>>, m), Reaches(m, <<b>>, r)
  PROVE  Reaches(q, <<a, b>>, r)
<1>1. Reaches(q, <<a>> \o <<b>>, r)
  BY ReachesConcat
<1>2. <<a, b>> = <<a>> \o <<b>>
  BY Two
<1>. QED
  BY <1>1, <1>2

\* Three.
LEMMA ReachesThree ==
  ASSUME NEW q, NEW m, NEW n, NEW r, NEW a, NEW b, NEW c,
         Reaches(q, <<a>>, m), Reaches(m, <<b>>, n), Reaches(n, <<c>>, r)
  PROVE  Reaches(q, <<a, b, c>>, r)
<1>1. Reaches(q, <<a, b>>, n)
  BY ReachesTwo
<1>2. Reaches(q, <<a, b>> \o <<c>>, r)
  BY <1>1, ReachesConcat
<1>3. <<a, b, c>> = <<a, b>> \o <<c>>
  BY Three
<1>. QED
  BY <1>2, <1>3

\* Four.
LEMMA ReachesFour ==
  ASSUME NEW q, NEW m, NEW n, NEW p, NEW r, NEW a, NEW b, NEW c, NEW d,
         Reaches(q, <<a>>, m), Reaches(m, <<b>>, n), Reaches(n, <<c>>, p), Reaches(p, <<d>>, r)
  PROVE  Reaches(q, <<a, b, c, d>>, r)
<1>1. Reaches(q, <<a, b, c>>, p)
  BY ReachesThree
<1>2. Reaches(q, <<a, b, c>> \o <<d>>, r)
  BY <1>1, ReachesConcat
<1>3. <<a, b, c, d>> = <<a, b, c>> \o <<d>>
  BY Four
<1>. QED
  BY <1>2, <1>3

\* A text of common tokens leaves what is owed.
LEMMA CommonGo ==
  ASSUME NEW owed \in Dues, NEW depth \in Nat, NEW text \in Seq(Common), text # <<>>
  PROVE  /\ Reaches(At(owed, depth, "open"), <<Put(text)>>, At(owed, depth, "open"))
         /\ Reaches(At(owed, depth, "headed"), <<Put(text)>>, At(owed, depth, "headed"))
<1>1. text \in Words
  BY DEF Words, Common
<1>2. Owing(owed, text) = owed
  BY CommonOwes
<1>. QED
  BY <1>1, <1>2, WordsGo

\* One, two and three common tokens.
LEMMA CommonFew ==
  ASSUME NEW a \in Common, NEW b \in Common, NEW c \in Common
  PROVE  /\ <<a>> \in Seq(Common) /\ <<a>> # <<>>
         /\ <<a, b>> \in Seq(Common) /\ <<a, b>> # <<>>
         /\ <<a, b, c>> \in Seq(Common) /\ <<a, b, c>> # <<>>
OBVIOUS

\* A bracket that opens, and the one that closes it.
LEMMA BracketGo ==
  ASSUME NEW owed \in Dues, NEW depth \in Nat, NEW t \in Opening, t \in Inert,
         NEW c \in Closing \ Opening, c \in Inert, Closer[t] = c
  PROVE  /\ Append(owed, c) \in Dues
         /\ Reaches(At(owed, depth, "open"), <<Put(<<t>>)>>, At(Append(owed, c), depth, "open"))
         /\ \A line \in {"open", "headed"} :
              Reaches(At(Append(owed, c), depth, line), <<Put(<<c>>)>>, At(owed, depth, line))
         /\ \A a \in Common :
              Reaches(At(owed, depth, "head"), <<Put(<<a, t>>)>>, At(Append(owed, c), depth, "headed"))
<1>1. PICK more \in Dues : more = Append(owed, c)
  BY BracketsOwe
<1>2. PICK opens \in Words : opens = <<t>>
  <2>1. <<t>> \in Seq(Inert) /\ <<t>> # <<>>
    OBVIOUS
  <2>. QED
    BY <2>1 DEF Words
<1>3. PICK closes \in Words : closes = <<c>>
  <2>1. <<c>> \in Seq(Inert) /\ <<c>> # <<>>
    OBVIOUS
  <2>. QED
    BY <2>1 DEF Words
<1>4. Owing(owed, opens) = more
  <2>1. OwedBehind(owed, t) = more
    BY <1>1, BracketsOwe
  <2>. QED
    BY <1>2, <2>1, OwingOne
<1>5. Owing(more, closes) = owed
  <2>1. OwedBehind(more, c) = owed
    BY <1>1, BracketsOwe
  <2>. QED
    BY <1>3, <2>1, OwingOne
<1>6. Reaches(At(owed, depth, "open"), <<Put(opens)>>, At(more, depth, "open"))
  BY <1>4, WordsGo
<1>7. /\ Reaches(At(more, depth, "open"), <<Put(closes)>>, At(owed, depth, "open"))
      /\ Reaches(At(more, depth, "headed"), <<Put(closes)>>, At(owed, depth, "headed"))
  BY <1>5, WordsGo
<1>8. ASSUME NEW a \in Common
      PROVE  Reaches(At(owed, depth, "head"), <<Put(<<a, t>>)>>, At(more, depth, "headed"))
  <2>1. PICK text \in Words : text = <<a, t>>
    <3>1. a \in Inert
      BY DEF Common
    <3>2. <<a, t>> \in Seq(Inert) /\ <<a, t>> # <<>>
      BY <3>1
    <3>. QED
      BY <3>2 DEF Words
  <2>2. OwedBehind(owed, a) = owed /\ OwedBehind(owed, t) = more
    <3>1. a \notin Bracket
      BY DEF Common
    <3>. QED
      BY <1>1, <3>1, BracketsOwe
  <2>3. Owing(owed, text) = OwedBehind(OwedBehind(owed, a), t)
    BY <2>1, OwingTwo
  <2>4. Owing(owed, text) = more
    BY <2>2, <2>3
  <2>5. Reaches(At(owed, depth, "head"), <<Put(text)>>, At(more, depth, "headed"))
    BY <2>4, WordsGo
  <2>. QED
    BY <2>1, <2>5
<1>. QED
  BY <1>1, <1>2, <1>3, <1>6, <1>7, <1>8

\* A list made of one element for each node.
LEMMA EachNode ==
  ASSUME NEW L, NEW nodes \in Seq(Nodes), NEW f, f = [i \in DOMAIN nodes |-> f[i]],
         \A i \in 1 .. Len(nodes) : f[i] \in L
  PROVE  f \in Seq(L) /\ DOMAIN f = 1 .. Len(nodes)
<1>1. DOMAIN nodes = 1 .. Len(nodes) /\ Len(nodes) \in Nat
  OBVIOUS
<1>2. f \in [1 .. Len(nodes) -> L]
  BY <1>1
<1>. QED
  BY <1>1, <1>2

\* Elements with something between them.
LEMMA SeparatedLoops ==
  ASSUME NEW q \in Layout, NEW seqs \in Seq(Loops(q)), NEW separator \in Loops(q)
  PROVE  Reaches(q, Separated(seqs, separator), q)
<1>. DEFINE pieces == [i \in DOMAIN seqs |-> IF i = 1 THEN seqs[i] ELSE separator \o seqs[i]]
<1>1. ASSUME NEW i \in 1 .. Len(seqs)
      PROVE  (IF i = 1 THEN seqs[i] ELSE separator \o seqs[i]) \in Loops(q)
  <2>1. seqs[i] \in Loops(q)
    OBVIOUS
  <2>2. seqs[i] \in Seq(Task) /\ separator \in Seq(Task) /\ Reaches(q, seqs[i], q) /\ Reaches(q, separator, q)
    BY <2>1 DEF Loops
  <2>3. separator \o seqs[i] \in Seq(Task) /\ Reaches(q, separator \o seqs[i], q)
    BY <2>2, ReachesConcat
  <2>. QED
    BY <2>1, <2>3 DEF Loops
<1>2. DOMAIN seqs = 1 .. Len(seqs) /\ Len(seqs) \in Nat
  OBVIOUS
<1>3. pieces \in Seq(Loops(q))
  <2>1. pieces \in [1 .. Len(seqs) -> Loops(q)]
    BY <1>1, <1>2
  <2>. HIDE DEF pieces
  <2>. QED
    BY <1>2, <2>1
<1>4. Separated(seqs, separator) = FlattenSeq(pieces)
  BY DEF Separated
<1>. HIDE DEF pieces
<1>5. Reaches(q, FlattenSeq(pieces), q)
  BY <1>3, ReachesBack DEF Loops
<1>. QED
  BY <1>4, <1>5

-----------------------------------------------------------------------------
(* The handlers.                                                           *)

Break == Put(<<"\n">>)
Semicolon == Put(<<";">>)
Comma == Put(<<", ">>)
Quote == Put(<<"\"">>)
QuoteBar == Put(<<"\"", "_">>)
ParamsOpening == Put(<<"params ", "[">>)
ArrayOpening == Put(<<"[">>)
ArrayClosing == Put(<<"]">>)
OperationOpening == Put(<<"(">>)
OperationClosing == Put(<<")">>)

\* What those texts do.
LEMMA FixedGo ==
  ASSUME NEW owed \in Dues, NEW depth \in Nat
  PROVE  /\ Reaches(At(owed, depth, "open"), <<Break>>, At(owed, depth, "fresh"))
         /\ Reaches(At(owed, depth, "head"), <<Break>>, At(owed, depth, "newline"))
         /\ Reaches(At(owed, depth, "open"), <<Semicolon>>, At(owed, depth, "open"))
         /\ Reaches(At(owed, depth, "headed"), <<Semicolon>>, At(owed, depth, "headed"))
         /\ Reaches(At(owed, depth, "open"), <<Comma>>, At(owed, depth, "open"))
         /\ Reaches(At(owed, depth, "headed"), <<Comma>>, At(owed, depth, "headed"))
         /\ Reaches(At(owed, depth, "headed"), <<Quote>>, At(owed, depth, "headed"))
         /\ Reaches(At(owed, depth, "headed"), <<QuoteBar>>, At(owed, depth, "headed"))
<1>1. Break = Put(<<NewLine>>)
  BY DEF Break, NewLine
<1>2. /\ Reaches(At(owed, depth, "open"), <<Break>>, At(owed, depth, "fresh"))
      /\ Reaches(At(owed, depth, "head"), <<Break>>, At(owed, depth, "newline"))
  BY <1>1, LineGoes
<1>3. PICK a, b, c, d : a = ";" /\ b = ", " /\ c = "\"" /\ d = "_"
  BY Zenon
<1>4. a \in Common /\ b \in Common /\ c \in Common /\ d \in Common
  BY <1>3, FixedTokens, Zenon DEF Joints
<1>5. Semicolon = Put(<<a>>) /\ Comma = Put(<<b>>) /\ Quote = Put(<<c>>) /\ QuoteBar = Put(<<c, d>>)
  BY <1>3, Zenon DEF Semicolon, Comma, Quote, QuoteBar
<1>6. /\ <<a>> \in Seq(Common) /\ <<a>> # <<>> /\ <<b>> \in Seq(Common) /\ <<b>> # <<>>
      /\ <<c>> \in Seq(Common) /\ <<c>> # <<>> /\ <<c, d>> \in Seq(Common) /\ <<c, d>> # <<>>
  BY <1>4, CommonFew
<1>7. \A text \in Seq(Common) : text # <<>> =>
        /\ Reaches(At(owed, depth, "open"), <<Put(text)>>, At(owed, depth, "open"))
        /\ Reaches(At(owed, depth, "headed"), <<Put(text)>>, At(owed, depth, "headed"))
  BY CommonGo
<1>. QED
  BY <1>2, <1>5, <1>6, <1>7, Zenon

\* The brackets among them.
LEMMA FixedBracketsGo ==
  ASSUME NEW owed \in Dues, NEW depth \in Nat
  PROVE  /\ Append(owed, Square) \in Dues /\ Append(owed, Round) \in Dues
         /\ Reaches(At(owed, depth, "open"), <<ArrayOpening>>, At(Append(owed, Square), depth, "open"))
         /\ Reaches(At(Append(owed, Square), depth, "open"), <<ArrayClosing>>, At(owed, depth, "open"))
         /\ Reaches(At(Append(owed, Square), depth, "headed"), <<ArrayClosing>>, At(owed, depth, "headed"))
         /\ Reaches(At(owed, depth, "head"), <<ParamsOpening>>, At(Append(owed, Square), depth, "headed"))
         /\ Reaches(At(owed, depth, "open"), <<OperationOpening>>, At(Append(owed, Round), depth, "open"))
         /\ Reaches(At(Append(owed, Round), depth, "open"), <<OperationClosing>>, At(owed, depth, "open"))
<1>1. PICK s, r, a : s = "[" /\ r = "(" /\ a = "params "
  BY Zenon
<1>2. /\ s \in Opening /\ s \in Inert /\ r \in Opening /\ r \in Inert /\ a \in Common
      /\ Square \in Closing \ Opening /\ Square \in Inert /\ Round \in Closing \ Opening /\ Round \in Inert
      /\ Closer[s] = Square /\ Closer[r] = Round
  BY <1>1, FixedTokens, Zenon DEF Joints, Square, Round
<1>3. /\ ArrayOpening = Put(<<s>>) /\ ArrayClosing = Put(<<Square>>) /\ ParamsOpening = Put(<<a, s>>)
      /\ OperationOpening = Put(<<r>>) /\ OperationClosing = Put(<<Round>>)
  BY <1>1, Zenon DEF ArrayOpening, ArrayClosing, ParamsOpening, OperationOpening, OperationClosing, Square, Round
<1>4. /\ Append(owed, Square) \in Dues
      /\ Reaches(At(owed, depth, "open"), <<Put(<<s>>)>>, At(Append(owed, Square), depth, "open"))
      /\ \A line \in {"open", "headed"} :
           Reaches(At(Append(owed, Square), depth, line), <<Put(<<Square>>)>>, At(owed, depth, line))
      /\ \A b \in Common :
           Reaches(At(owed, depth, "head"), <<Put(<<b, s>>)>>, At(Append(owed, Square), depth, "headed"))
  BY <1>2, BracketGo
<1>5. /\ Append(owed, Round) \in Dues
      /\ Reaches(At(owed, depth, "open"), <<Put(<<r>>)>>, At(Append(owed, Round), depth, "open"))
      /\ \A line \in {"open", "headed"} :
           Reaches(At(Append(owed, Round), depth, line), <<Put(<<Round>>)>>, At(owed, depth, line))
  BY <1>2, BracketGo
<1>. QED
  BY <1>2, <1>3, <1>4, <1>5

\* sqf_gen_list.
LEMMA ListReaches ==
  ASSUME NEW owed \in Dues, NEW depth \in Nat, NEW nodes \in Seq(Nodes)
  PROVE  Reaches(At(owed, depth, "headed"), List(nodes),
                 At(owed, depth, IF nodes = <<>> THEN "headed" ELSE "close"))
<1>. DEFINE open == At(owed, depth, "open")
            f == [i \in DOMAIN nodes |-> <<Break, PrintIndent, Gen(nodes[i]), Semicolon>>]
<1>1. CASE nodes = <<>>
  <2>1. List(nodes) = <<>>
    BY <1>1 DEF List
  <2>2. At(owed, depth, "headed") \in Layout
    BY DEF At, Layout, Lines
  <2>. QED
    BY <1>1, <2>1, <2>2, ReachesShort
<1>2. CASE nodes # <<>>
  <2>1. List(nodes) = <<Indent(1)>> \o FlattenSeq(f) \o <<Indent(-1), Break, PrintIndent>>
    BY <1>2 DEF List, Break, Semicolon
  <2>2. ASSUME NEW i \in 1 .. Len(nodes)
        PROVE  <<Break, PrintIndent, Gen(nodes[i]), Semicolon>> \in Loops(open)
    <3>1. nodes[i] \in Nodes
      OBVIOUS
    <3>2. Reaches(At(owed, depth, "fresh"), <<PrintIndent>>, open)
      BY SilentGo
    <3>3. Reaches(open, <<Gen(nodes[i])>>, open)
      BY <3>1, SilentGo
    <3>4. Reaches(open, <<Break>>, At(owed, depth, "fresh")) /\ Reaches(open, <<Semicolon>>, open)
      BY FixedGo
    <3>. HIDE DEF open
    <3>5. Reaches(open, <<Break, PrintIndent, Gen(nodes[i]), Semicolon>>, open)
      BY <3>2, <3>3, <3>4, ReachesFour
    <3>. QED
      BY <3>5 DEF Loops, Reaches
  <2>3. f \in Seq(Loops(open))
    <3>1. f = [i \in DOMAIN nodes |-> f[i]] /\ \A i \in 1 .. Len(nodes) : f[i] \in Loops(open)
      BY <2>2
    <3>. HIDE DEF f, open
    <3>. QED
      BY <3>1, EachNode
  <2>4. Reaches(open, FlattenSeq(f), open)
    <3>1. open \in Layout
      BY DEF At, Layout, Lines
    <3>. HIDE DEF f, open
    <3>. QED
      BY <2>3, <3>1, ReachesBack DEF Loops
  <2>5. Reaches(At(owed, depth, "headed"), <<Indent(1)>>, open)
    BY SilentGo
  <2>6. Reaches(open, <<Indent(-1), Break, PrintIndent>>, At(owed, depth, "close"))
    <3>1. /\ Reaches(open, <<Indent(-1)>>, At(owed, depth, "head"))
          /\ Reaches(At(owed, depth, "newline"), <<PrintIndent>>, At(owed, depth, "close"))
      BY SilentGo
    <3>2. Reaches(At(owed, depth, "head"), <<Break>>, At(owed, depth, "newline"))
      BY FixedGo
    <3>. HIDE DEF open
    <3>. QED
      BY <3>1, <3>2, ReachesThree
  <2>. HIDE DEF open, f
  <2>7. Reaches(At(owed, depth, "headed"), <<Indent(1)>> \o FlattenSeq(f), open)
    BY <2>4, <2>5, ReachesConcat
  <2>8. Reaches(At(owed, depth, "headed"), List(nodes), At(owed, depth, "close"))
    BY <2>1, <2>6, <2>7, ReachesConcat
  <2>. QED
    BY <1>2, <2>8
<1>. QED
  BY <1>1, <1>2

\* sqf_gen_params.
LEMMA ParamsReaches ==
  ASSUME NEW owed \in Dues, NEW depth \in Nat, NEW nodes \in Seq(Nodes)
  PROVE  Reaches(At(owed, depth, "newline"), Params(nodes), At(owed, depth, "headed"))
<1>. DEFINE more == Append(owed, Square)
            headed == At(more, depth, "headed")
            f == [i \in DOMAIN nodes |-> <<QuoteBar, Param(nodes[i]), Quote>>]
<1>1. Params(nodes) = <<Indent(1), PrintIndent, Indent(-1), ParamsOpening>>
                        \o Separated(f, <<Comma>>) \o <<ArrayClosing>>
  BY DEF Params, QuoteBar, Quote, Comma, ParamsOpening, ArrayClosing
<1>2. /\ more \in Dues
      /\ Reaches(At(owed, depth, "head"), <<ParamsOpening>>, headed)
      /\ Reaches(headed, <<ArrayClosing>>, At(owed, depth, "headed"))
  BY FixedBracketsGo
<1>3. headed \in Layout
  BY <1>2 DEF At, Layout, Lines
<1>. HIDE DEF more
<1>4. ASSUME NEW i \in 1 .. Len(nodes)
      PROVE  <<QuoteBar, Param(nodes[i]), Quote>> \in Loops(headed)
  <2>1. nodes[i] \in Nodes
    OBVIOUS
  <2>2. Reaches(headed, <<Param(nodes[i])>>, headed)
    BY <1>2, <2>1, SilentGo
  <2>3. Reaches(headed, <<QuoteBar>>, headed) /\ Reaches(headed, <<Quote>>, headed)
    BY <1>2, FixedGo
  <2>. HIDE DEF headed
  <2>4. Reaches(headed, <<QuoteBar, Param(nodes[i]), Quote>>, headed)
    BY <2>2, <2>3, ReachesThree
  <2>. QED
    BY <2>4 DEF Loops, Reaches
<1>5. <<Comma>> \in Loops(headed)
  <2>1. Reaches(headed, <<Comma>>, headed)
    BY <1>2, FixedGo
  <2>. HIDE DEF headed
  <2>. QED
    BY <2>1 DEF Loops, Reaches
<1>6. f \in Seq(Loops(headed))
  <2>1. f = [i \in DOMAIN nodes |-> f[i]] /\ \A i \in 1 .. Len(nodes) : f[i] \in Loops(headed)
    BY <1>4
  <2>. HIDE DEF f, headed
  <2>. QED
    BY <2>1, EachNode
<1>. HIDE DEF f, headed
<1>7. Reaches(headed, Separated(f, <<Comma>>), headed)
  BY <1>3, <1>5, <1>6, SeparatedLoops
<1>8. Reaches(At(owed, depth, "newline"), <<Indent(1), PrintIndent, Indent(-1), ParamsOpening>>, headed)
  <2>1. /\ Reaches(At(owed, depth, "newline"), <<Indent(1)>>, At(owed, depth, "fresh"))
        /\ Reaches(At(owed, depth, "fresh"), <<PrintIndent>>, At(owed, depth, "open"))
        /\ Reaches(At(owed, depth, "open"), <<Indent(-1)>>, At(owed, depth, "head"))
    BY SilentGo
  <2>. QED
    BY <1>2, <2>1, ReachesFour
<1>9. Reaches(At(owed, depth, "newline"),
              <<Indent(1), PrintIndent, Indent(-1), ParamsOpening>> \o Separated(f, <<Comma>>), headed)
  BY <1>7, <1>8, ReachesConcat
<1>10. Reaches(At(owed, depth, "newline"), Params(nodes), At(owed, depth, "headed"))
  BY <1>1, <1>2, <1>9, ReachesConcat
<1>. QED
  BY <1>10

\* sqf_gen_array.
LEMMA ArrayReaches ==
  ASSUME NEW owed \in Dues, NEW depth \in Nat, NEW nodes \in Seq(Nodes)
  PROVE  Reaches(At(owed, depth, "open"), ArrayOf(nodes), At(owed, depth, "open"))
<1>. DEFINE more == Append(owed, Square)
            open == At(more, depth, "open")
            f == [i \in DOMAIN nodes |-> <<Gen(nodes[i])>>]
<1>1. ArrayOf(nodes) = <<ArrayOpening>> \o Separated(f, <<Comma>>) \o <<ArrayClosing>>
  BY DEF ArrayOf, Comma, ArrayOpening, ArrayClosing
<1>2. /\ more \in Dues
      /\ Reaches(At(owed, depth, "open"), <<ArrayOpening>>, open)
      /\ Reaches(open, <<ArrayClosing>>, At(owed, depth, "open"))
  BY FixedBracketsGo
<1>3. open \in Layout
  BY <1>2 DEF At, Layout, Lines
<1>. HIDE DEF more
<1>4. ASSUME NEW i \in 1 .. Len(nodes)
      PROVE  <<Gen(nodes[i])>> \in Loops(open)
  <2>1. nodes[i] \in Nodes
    OBVIOUS
  <2>2. Reaches(open, <<Gen(nodes[i])>>, open)
    BY <1>2, <2>1, SilentGo
  <2>. HIDE DEF open
  <2>. QED
    BY <2>2 DEF Loops, Reaches
<1>5. <<Comma>> \in Loops(open)
  <2>1. Reaches(open, <<Comma>>, open)
    BY <1>2, FixedGo
  <2>. HIDE DEF open
  <2>. QED
    BY <2>1 DEF Loops, Reaches
<1>6. f \in Seq(Loops(open))
  <2>1. f = [i \in DOMAIN nodes |-> f[i]] /\ \A i \in 1 .. Len(nodes) : f[i] \in Loops(open)
    BY <1>4
  <2>. HIDE DEF f, open
  <2>. QED
    BY <2>1, EachNode
<1>. HIDE DEF f, open
<1>7. Reaches(open, Separated(f, <<Comma>>), open)
  BY <1>3, <1>5, <1>6, SeparatedLoops
<1>8. Reaches(At(owed, depth, "open"), <<ArrayOpening>> \o Separated(f, <<Comma>>), open)
  BY <1>2, <1>7, ReachesConcat
<1>. QED
  BY <1>1, <1>2, <1>8, ReachesConcat

-----------------------------------------------------------------------------
(* The handlers of the nodes below the root: each takes the layout its      *)
(* node begins in back to the same one.                                    *)

\* What is known of these nodes.
LEMMA NodeFacts ==
  ASSUME NEW node \in Nodes
  PROVE  /\ node.name \in Common
         /\ node.operands \in Seq(Nodes) /\ node.args \in Seq(Nodes) /\ node.body \in Seq(Nodes)
         /\ node.type # "ROOT"
         /\ node.type = "EXPRESSION" => node.operands[1] \in Nodes
         /\ node.type = "EXPRESSION" /\ node.name \notin UnaryOperators => node.operands[2] \in Nodes
<1>1. /\ IsNodeOver(Nodes, node) /\ node.type # "ROOT"
      /\ node.name \in DOMAIN Width \ {NewLine, Level, "(", ")", "[", "]", "{", "}"}
      /\ node.type = "EXPRESSION" /\ node.name \notin UnaryOperators => Len(node.operands) = 2
  BY NodesAssumption, Zenon
<1>2. node.name \in Common
  BY <1>1, Zenon DEF Common, Inert, Token, Bracket, Opening, Closing
<1>3. /\ node.operands \in Seq(Nodes) /\ node.args \in Seq(Nodes) /\ node.body \in Seq(Nodes)
      /\ node.type = "EXPRESSION" => Len(node.operands) \in {1, 2}
  BY <1>1 DEF IsNodeOver
<1>4. \A s \in Seq(Nodes) : /\ Len(s) \in {1, 2} => s[1] \in Nodes
                            /\ Len(s) = 2 => s[2] \in Nodes
  OBVIOUS
<1>. QED
  BY <1>1, <1>2, <1>3, <1>4, Zenon

\* The text of a name with something in front of it.
LEMMA NameGoes ==
  ASSUME NEW owed \in Dues, NEW depth \in Nat, NEW name \in Common
  PROVE  LET open == At(owed, depth, "open") IN
         /\ Reaches(open, <<Put(<<name>>)>>, open)
         /\ Reaches(open, <<Put(<<"_", name>>)>>, open)
         /\ Reaches(open, <<Put(<<"private ", "_", name>>)>>, open)
         /\ Reaches(open, <<Put(<<" call ", "_", name>>)>>, open)
         /\ Reaches(open, <<Put(<<"\"", name, "\"">>)>>, open)
         /\ Reaches(open, <<Put(<<" ", name, " ">>)>>, open)
<1>. DEFINE open == At(owed, depth, "open")
<1>1. PICK b, p, c, q, s : b = "_" /\ p = "private " /\ c = " call " /\ q = "\"" /\ s = " "
  BY Zenon
<1>2. b \in Common /\ p \in Common /\ c \in Common /\ q \in Common /\ s \in Common
  BY <1>1, FixedTokens, Zenon DEF Joints
<1>3. ASSUME NEW x \in Common, NEW y \in Common, NEW z \in Common
      PROVE  /\ Reaches(open, <<Put(<<x>>)>>, open)
             /\ Reaches(open, <<Put(<<x, y>>)>>, open)
             /\ Reaches(open, <<Put(<<x, y, z>>)>>, open)
  <2>1. \A text \in Seq(Common) : text # <<>> => Reaches(open, <<Put(text)>>, open)
    BY CommonGo
  <2>2. /\ <<x>> \in Seq(Common) /\ <<x>> # <<>>
        /\ <<x, y>> \in Seq(Common) /\ <<x, y>> # <<>>
        /\ <<x, y, z>> \in Seq(Common) /\ <<x, y, z>> # <<>>
    BY CommonFew
  <2>. HIDE DEF open
  <2>. QED
    BY <2>1, <2>2, Zenon
<1>. HIDE DEF open
<1>4. /\ Reaches(open, <<Put(<<name>>)>>, open)
      /\ Reaches(open, <<Put(<<b, name>>)>>, open)
      /\ Reaches(open, <<Put(<<p, b, name>>)>>, open)
      /\ Reaches(open, <<Put(<<c, b, name>>)>>, open)
      /\ Reaches(open, <<Put(<<q, name, q>>)>>, open)
      /\ Reaches(open, <<Put(<<s, name, s>>)>>, open)
  BY <1>2, <1>3
<1>. QED
  BY <1>1, <1>4, Zenon DEF open

\* sqf_gen_func_decl.
LEMMA FunctionReaches ==
  ASSUME NEW owed \in Dues, NEW depth \in Nat, NEW node \in Nodes
  PROVE  Reaches(At(owed, depth, "open"),
                 <<Put(<<"private ", "_", node.name>>), Put(<<" = ", "{", "\n">>)>>
                   \o Params(node.args) \o <<Put(<<";">>)>> \o List(node.body) \o <<Put(<<"}">>)>>,
                 At(owed, depth, "open"))
<1>. DEFINE more == Append(owed, Curly)
            declares == Put(<<"private ", "_", node.name>>)
            open == At(owed, depth, "open")
            headed == At(more, depth + 1, "headed")
            last == At(more, depth + 1, IF node.body = <<>> THEN "headed" ELSE "close")
<1>1. node.name \in Common /\ node.args \in Seq(Nodes) /\ node.body \in Seq(Nodes)
  BY NodeFacts
<1>2. more \in Dues /\ depth + 1 \in Nat
  BY BodyGoes
<1>3. Reaches(open, <<declares>>, open)
  BY <1>1, NameGoes
<1>4. Reaches(open, <<Put(BodyOpening)>>, At(more, depth + 1, "newline"))
  BY BodyGoes
<1>5. Reaches(last, <<Put(BodyClosing)>>, open)
  BY BodyGoes
<1>. HIDE DEF more
<1>6. Reaches(At(more, depth + 1, "newline"), Params(node.args), headed)
  BY <1>1, <1>2, ParamsReaches
<1>7. Reaches(headed, <<Semicolon>>, headed)
  BY <1>2, FixedGo
<1>8. Reaches(headed, List(node.body), last)
  BY <1>1, <1>2, ListReaches
<1>. DEFINE tasks == <<declares, Put(BodyOpening)>> \o Params(node.args) \o <<Semicolon>>
                       \o List(node.body) \o <<Put(BodyClosing)>>
<1>9. tasks = <<Put(<<"private ", "_", node.name>>), Put(<<" = ", "{", "\n">>)>>
                \o Params(node.args) \o <<Put(<<";">>)>> \o List(node.body) \o <<Put(<<"}">>)>>
  BY DEF BodyOpening, BodyClosing, Semicolon
<1>10. Reaches(open, tasks, open)
  <2>. HIDE DEF open, headed, last, declares
  <2>1. Reaches(open, <<declares, Put(BodyOpening)>>, At(more, depth + 1, "newline"))
    BY <1>3, <1>4, ReachesTwo
  <2>2. Reaches(open, <<declares, Put(BodyOpening)>> \o Params(node.args), headed)
    BY <1>6, <2>1, ReachesConcat
  <2>3. Reaches(open, <<declares, Put(BodyOpening)>> \o Params(node.args) \o <<Semicolon>>, headed)
    BY <1>7, <2>2, ReachesConcat
  <2>4. Reaches(open, <<declares, Put(BodyOpening)>> \o Params(node.args) \o <<Semicolon>>
                        \o List(node.body), last)
    BY <1>8, <2>3, ReachesConcat
  <2>. QED
    BY <1>5, <2>4, ReachesConcat
<1>. HIDE DEF tasks
<1>. QED
  BY <1>9, <1>10, Zenon DEF open

\* sqf_gen_call.
LEMMA CallReaches ==
  ASSUME NEW owed \in Dues, NEW depth \in Nat, NEW node \in Nodes
  PROVE  Reaches(At(owed, depth, "open"),
                 ArrayOf(node.args) \o <<Put(<<" call ", "_", node.name>>)>>, At(owed, depth, "open"))
<1>1. node.name \in Common /\ node.args \in Seq(Nodes)
  BY NodeFacts
<1>. DEFINE name == Put(<<" call ", "_", node.name>>)
<1>2. Reaches(At(owed, depth, "open"), <<name>>, At(owed, depth, "open"))
  BY <1>1, NameGoes
<1>3. Reaches(At(owed, depth, "open"), ArrayOf(node.args), At(owed, depth, "open"))
  BY <1>1, ArrayReaches
<1>. HIDE DEF name
<1>4. Reaches(At(owed, depth, "open"), ArrayOf(node.args) \o <<name>>, At(owed, depth, "open"))
  BY <1>2, <1>3, ReachesConcat
<1>. QED
  BY <1>4, Zenon DEF name

\* The operands of a node and an operator between them.
LEMMA OperandsReach ==
  ASSUME NEW owed \in Dues, NEW depth \in Nat, NEW l \in Nodes, NEW r \in Nodes, NEW op \in Common
  PROVE  LET open == At(owed, depth, "open") IN
         /\ Reaches(open, <<Gen(l), Put(<<" ", op, " ">>), Gen(r)>>, open)
         /\ Reaches(open, <<Put(<<"(">>)>> \o <<Gen(l), Put(<<" ", op, " ">>), Gen(r)>> \o <<Put(<<")">>)>>, open)
         /\ Reaches(open, <<Put(<<op>>), Gen(l)>>, open)
<1>. DEFINE open == At(owed, depth, "open")
            within == At(Append(owed, Round), depth, "open")
            operator == Put(<<" ", op, " ">>)
<1>1. /\ Append(owed, Round) \in Dues
      /\ Reaches(open, <<OperationOpening>>, within) /\ Reaches(within, <<OperationClosing>>, open)
  BY FixedBracketsGo
<1>2. ASSUME NEW w \in Dues
      PROVE  Reaches(At(w, depth, "open"), <<Gen(l), operator, Gen(r)>>, At(w, depth, "open"))
  <2>. DEFINE at == At(w, depth, "open")
  <2>1. Reaches(at, <<Gen(l)>>, at) /\ Reaches(at, <<Gen(r)>>, at)
    BY SilentGo
  <2>2. Reaches(at, <<operator>>, at)
    BY NameGoes
  <2>. HIDE DEF at, operator
  <2>3. Reaches(at, <<Gen(l), operator, Gen(r)>>, at)
    BY <2>1, <2>2, ReachesThree
  <2>. QED
    BY <2>3 DEF at
<1>3. Reaches(open, <<Put(<<op>>), Gen(l)>>, open)
  <2>1. Reaches(open, <<Gen(l)>>, open)
    BY SilentGo
  <2>2. Reaches(open, <<Put(<<op>>)>>, open)
    BY NameGoes
  <2>. HIDE DEF open
  <2>. QED
    BY <2>1, <2>2, ReachesTwo
<1>4. Reaches(open, <<Gen(l), operator, Gen(r)>>, open) /\ Reaches(within, <<Gen(l), operator, Gen(r)>>, within)
  BY <1>1, <1>2
<1>5. OperationOpening = Put(<<"(">>) /\ OperationClosing = Put(<<")">>)
  BY DEF OperationOpening, OperationClosing
<1>. HIDE DEF open, within, operator
<1>6. Reaches(open, <<OperationOpening>> \o <<Gen(l), operator, Gen(r)>>, within)
  BY <1>1, <1>4, ReachesConcat
<1>7. Reaches(open, <<OperationOpening>> \o <<Gen(l), operator, Gen(r)>> \o <<OperationClosing>>, open)
  BY <1>1, <1>6, ReachesConcat
<1>. QED
  BY <1>3, <1>4, <1>5, <1>7, Zenon DEF open, operator

-----------------------------------------------------------------------------
(* The lines of a text.                                                    *)

\* Nothing but levels is behind a line break.
Blank(s, i) == s[i] = NewLine /\ \A j \in i + 1 .. Len(s) : s[j] = Level

\* The first token behind a line break that is no level.
Begins(s, i, k) == k \in i + 1 .. Len(s) /\ s[k] # Level /\ \A j \in i + 1 .. k - 1 : s[j] = Level

\* The weights of the tokens.
LEMMA BraceWeights ==
  /\ Braces \in [Token -> Int]
  /\ \A t \in Token : Braces[t] \in {-1, 0, 1}
  /\ \A t \in Inert \cup {NewLine, Level} : Braces[t] = 0
  /\ Braces["{"] = 1 /\ Braces["}"] = -1
<1>1. Braces \in [Token -> Int] /\ \A t \in Token : Braces[t] \in {-1, 0, 1}
  <2>1. \A t \in Token : Braces[t] = IF t = "{" THEN 1 ELSE IF t = "}" THEN -1 ELSE 0
    BY DEF Braces, Token
  <2>2. \A t \in Token : Braces[t] \in {-1, 0, 1}
    BY <2>1
  <2>3. Braces = [t \in Token |-> Braces[t]]
    BY DEF Braces, Token
  <2>. QED
    BY <2>2, <2>3
<1>2. ASSUME NEW t \in Inert \cup {NewLine, Level}
      PROVE  Braces[t] = 0
  <2>1. t # "{" /\ t # "}"
    BY <1>2, Zenon DEF Inert, NewLine, Level
  <2>2. t \in Token
    BY FixedTokens, Zenon DEF Inert
  <2>. QED
    BY <2>1, <2>2, Zenon DEF Braces, Token
<1>3. Braces["{"] = 1 /\ Braces["}"] = -1
  <2>1. "{" \in Token /\ "}" \in Token
    BY FixedTokens, Zenon
  <2>. QED
    BY <2>1, Zenon DEF Braces, Token
<1>. QED
  BY <1>1, <1>2, <1>3

\* What it means to be indented.
LEMMA IndentedMeans ==
  ASSUME NEW s \in Seq(Token)
  PROVE  Indented(s) <=>
           \A i \in 1 .. Len(s) : s[i] = NewLine =>
             /\ \A k : Begins(s, i, k) =>
                  k - i - 1 = IF Braces[s[k]] = -1 THEN Total(Braces, s)[i] - 1 ELSE Total(Braces, s)[i]
             /\ Blank(s, i) => Len(s) - i <= Total(Braces, s)[i]
<1>. DEFINE Starts(i) == {k \in i + 1 .. Len(s) : s[k] # Level /\ \A j \in i + 1 .. k - 1 : s[j] = Level}
<1>1. DOMAIN s = 1 .. Len(s) /\ Len(s) \in Nat
  OBVIOUS
<1>2. ASSUME NEW i \in 1 .. Len(s), s[i] = NewLine
      PROVE  Starts(i) = {} <=> Blank(s, i)
  <2>1. ASSUME Starts(i) = {}
        PROVE  Blank(s, i)
    <3>. DEFINE S == {m \in Nat : \A j \in i + 1 .. i + m : j <= Len(s) => s[j] = Level}
    <3>1. 0 \in S
      OBVIOUS
    <3>2. ASSUME NEW m \in Nat, m \in S
          PROVE  m + 1 \in S
      <4>. SUFFICES ASSUME NEW j \in i + 1 .. i + (m + 1), j <= Len(s)
                    PROVE  s[j] = Level
        OBVIOUS
      <4>1. CASE j <= i + m
        BY <3>2, <4>1
      <4>2. CASE ~(j <= i + m)
        <5>1. \A h \in i + 1 .. j - 1 : h \in i + 1 .. i + m /\ h <= Len(s)
          BY <1>1, <4>2
        <5>2. \A h \in i + 1 .. j - 1 : s[h] = Level
          BY <3>2, <5>1
        <5>3. j \in i + 1 .. Len(s)
          BY <1>1
        <5>. QED
          BY <2>1, <5>2, <5>3
      <4>. QED
        BY <4>1, <4>2
    <3>. HIDE DEF S
    <3>3. Nat \subseteq S
      BY <3>1, <3>2, SetInduction
    <3>4. Len(s) \in S
      BY <1>1, <3>3
    <3>5. \A j \in i + 1 .. Len(s) : j \in i + 1 .. i + Len(s) /\ j <= Len(s)
      BY <1>1
    <3>. QED
      BY <1>2, <3>4, <3>5 DEF S, Blank
  <2>2. ASSUME Blank(s, i)
        PROVE  Starts(i) = {}
    BY <2>2 DEF Blank
  <2>. QED
    BY <2>1, <2>2
<1>3. \A i, k : k \in Starts(i) <=> Begins(s, i, k)
  BY DEF Begins
<1>4. Indented(s) <=>
        \A i \in DOMAIN s : s[i] = NewLine =>
          /\ \A k \in Starts(i) :
               k - i - 1 = IF Braces[s[k]] = -1 THEN Total(Braces, s)[i] - 1 ELSE Total(Braces, s)[i]
          /\ Starts(i) = {} => Len(s) - i <= Total(Braces, s)[i]
  BY DEF Indented
<1>. HIDE DEF Starts
<1>. QED
  BY <1>1, <1>2, <1>3, <1>4

\* Levels do not change how many braces are open.
LEMMA BlankTotal ==
  ASSUME NEW s \in Seq(Token), NEW i \in 1 .. Len(s), Blank(s, i)
  PROVE  Total(Braces, s)[i] = SumOf(Braces, s)
<1>. DEFINE S == {m \in Nat : i + m <= Len(s) => Total(Braces, s)[i + m] = Total(Braces, s)[i]}
<1>0. Braces \in [Token -> Int]
  BY BraceWeights, Zenon
<1>1. Totals(Total(Braces, s), Braces, s) /\ Len(s) \in Nat
  <2>1. Totals(Total(Braces, s), Braces, s)
    BY <1>0, TotalSteps
  <2>2. Len(s) \in Nat
    OBVIOUS
  <2>. QED
    BY <2>1, <2>2
<1>2. 0 \in S
  OBVIOUS
<1>3. ASSUME NEW m \in Nat, m \in S
      PROVE  m + 1 \in S
  <2>. SUFFICES ASSUME i + (m + 1) <= Len(s)
                PROVE  Total(Braces, s)[i + (m + 1)] = Total(Braces, s)[i]
    OBVIOUS
  <2>1. /\ i + (m + 1) \in i + 1 .. Len(s) /\ i + (m + 1) \in 1 .. Len(s)
        /\ (i + (m + 1)) - 1 = i + m /\ i + m \in 0 .. Len(s) /\ i + m <= Len(s)
    BY <1>1
  <2>2. Braces[s[i + (m + 1)]] = 0
    BY <2>1, BraceWeights DEF Blank
  <2>3. Total(Braces, s)[i + (m + 1)] = Total(Braces, s)[i + m] + 0
    BY <1>1, <2>1, <2>2 DEF Totals
  <2>4. Total(Braces, s)[i + m] \in Int
    BY <1>1, <2>1 DEF Totals
  <2>. QED
    BY <1>3, <2>1, <2>3, <2>4
<1>. HIDE DEF S
<1>4. Nat \subseteq S
  BY <1>2, <1>3, SetInduction
<1>5. Len(s) - i \in S /\ i + (Len(s) - i) = Len(s)
  BY <1>1, <1>4
<1>. QED
  BY <1>1, <1>5 DEF S, SumOf

\* What the lines of a text have to do with those of a text with one more token.
OneMore(s, e, u) ==
  /\ u \in Seq(Token) /\ Len(u) = Len(s) + 1
  /\ \A i \in 1 .. Len(s) :
       /\ u[i] = s[i] /\ Total(Braces, u)[i] = Total(Braces, s)[i]
       /\ Blank(u, i) => Blank(s, i) /\ e = Level
       /\ \A k : Begins(u, i, k) /\ s[i] = NewLine =>
            \/ Begins(s, i, k) /\ u[k] = s[k]
            \/ k = Len(s) + 1 /\ u[k] = e /\ e # Level /\ Blank(s, i)
  /\ Blank(u, Len(s) + 1) => e = NewLine
  /\ ~\E k : Begins(u, Len(s) + 1, k)
  /\ Total(Braces, u)[Len(s) + 1] = SumOf(Braces, s) + Braces[e]
  /\ SumOf(Braces, u) = SumOf(Braces, s) + Braces[e]

\* They have.
LEMMA AppendLines ==
  ASSUME NEW s \in Seq(Token), NEW e \in Token, NEW u, u = Append(s, e)
  PROVE  OneMore(s, e, u)
<1>1. /\ u \in Seq(Token) /\ Len(u) = Len(s) + 1 /\ Len(s) \in Nat
      /\ \A i \in 1 .. Len(s) : u[i] = s[i]
      /\ u[Len(s) + 1] = e
  <2>1. /\ Append(s, e) \in Seq(Token) /\ Len(Append(s, e)) = Len(s) + 1 /\ Len(s) \in Nat
        /\ \A i \in 1 .. Len(s) : Append(s, e)[i] = s[i]
        /\ Append(s, e)[Len(s) + 1] = e
    OBVIOUS
  <2>. QED
    BY <2>1, Zenon
<1>0. Braces \in [Token -> Int]
  BY BraceWeights, Zenon
<1>2. /\ \A k \in 0 .. Len(s) : Total(Braces, u)[k] = Total(Braces, s)[k]
      /\ Total(Braces, u)[Len(s) + 1] = Total(Braces, s)[Len(s)] + Braces[e]
  <2>1. /\ \A k \in 0 .. Len(s) : Total(Braces, Append(s, e))[k] = Total(Braces, s)[k]
        /\ Total(Braces, Append(s, e))[Len(s) + 1] = Total(Braces, s)[Len(s)] + Braces[e]
    BY <1>0, TotalAppend
  <2>. QED
    BY <2>1, Zenon
<1>3. Total(Braces, u)[Len(s) + 1] = SumOf(Braces, s) + Braces[e]
  BY <1>2 DEF SumOf
<1>4. SumOf(Braces, u) = SumOf(Braces, s) + Braces[e]
  BY <1>1, <1>3 DEF SumOf
<1>5. ASSUME NEW i \in 1 .. Len(s)
      PROVE  /\ u[i] = s[i] /\ Total(Braces, u)[i] = Total(Braces, s)[i]
             /\ Blank(u, i) => Blank(s, i) /\ e = Level
             /\ \A k : Begins(u, i, k) /\ s[i] = NewLine =>
                  \/ Begins(s, i, k) /\ u[k] = s[k]
                  \/ k = Len(s) + 1 /\ u[k] = e /\ e # Level /\ Blank(s, i)
  <2>1. i \in 0 .. Len(s) /\ \A j \in i + 1 .. Len(s) : j \in i + 1 .. Len(u) /\ j \in 1 .. Len(s)
    BY <1>1
  <2>2. u[i] = s[i] /\ Total(Braces, u)[i] = Total(Braces, s)[i]
    BY <1>1, <1>2, <2>1
  <2>3. ASSUME Blank(u, i)
        PROVE  Blank(s, i) /\ e = Level
    <3>1. Len(s) + 1 \in i + 1 .. Len(u)
      BY <1>1
    <3>2. \A j \in i + 1 .. Len(u) : u[j] = Level
      BY <2>3 DEF Blank
    <3>3. \A j \in i + 1 .. Len(s) : s[j] = Level
      BY <1>1, <2>1, <3>2
    <3>. QED
      BY <1>1, <2>2, <2>3, <3>1, <3>2, <3>3 DEF Blank
  <2>4. ASSUME NEW k, Begins(u, i, k), s[i] = NewLine
        PROVE  \/ Begins(s, i, k) /\ u[k] = s[k]
               \/ k = Len(s) + 1 /\ u[k] = e /\ e # Level /\ Blank(s, i)
    <3>1. k \in i + 1 .. Len(s) + 1 /\ u[k] # Level /\ \A j \in i + 1 .. k - 1 : u[j] = Level
      BY <1>1, <2>4 DEF Begins
    <3>2. \A j \in i + 1 .. k - 1 : j \in 1 .. Len(s)
      BY <1>1, <3>1
    <3>3. \A j \in i + 1 .. k - 1 : s[j] = Level
      BY <1>1, <3>1, <3>2
    <3>4. CASE k = Len(s) + 1
      <4>1. \A j \in i + 1 .. Len(s) : j \in i + 1 .. k - 1
        BY <1>1, <3>4
      <4>. QED
        BY <1>1, <2>4, <3>1, <3>3, <3>4, <4>1 DEF Blank
    <3>5. CASE k # Len(s) + 1
      <4>1. k \in i + 1 .. Len(s) /\ k \in 1 .. Len(s)
        BY <1>1, <3>1, <3>5
      <4>. QED
        BY <1>1, <3>1, <3>3, <4>1 DEF Begins
    <3>. QED
      BY <3>4, <3>5
  <2>. QED
    BY <2>2, <2>3, <2>4
<1>6. Blank(u, Len(s) + 1) => e = NewLine
  BY <1>1 DEF Blank
<1>7. ~\E k : Begins(u, Len(s) + 1, k)
  BY <1>1 DEF Begins
<1>. QED
  BY <1>1, <1>3, <1>4, <1>5, <1>6, <1>7 DEF OneMore

\* A text with so many braces open and every line in its place, whose last line
\* has nothing but so many levels, or has more than levels (-1).
Neat(s, depth, left) ==
  /\ s \in Seq(Token) /\ depth \in Nat /\ SumOf(Braces, s) = depth
  /\ Indented(s)
  /\ \A i \in 1 .. Len(s) : Blank(s, i) => Len(s) - i = left

\* The tokens that may come next, and what the last line has then.
Fits(e, depth, left, right) ==
  \/ e = Level /\ left \in Nat /\ left + 1 <= depth /\ right = left + 1
  \/ /\ e # Level
     /\ left \in {-1, IF Braces[e] = -1 THEN depth - 1 ELSE depth}
     /\ right = IF e = NewLine THEN 0 ELSE -1

\* One more token.
LEMMA NeatAppend ==
  ASSUME NEW s, NEW depth, NEW left, Neat(s, depth, left),
         NEW e \in Token, NEW right, Fits(e, depth, left, right), depth + Braces[e] >= 0
  PROVE  Neat(Append(s, e), depth + Braces[e], right)
<1>1. /\ s \in Seq(Token) /\ depth \in Nat /\ SumOf(Braces, s) = depth
      /\ Indented(s)
      /\ \A i \in 1 .. Len(s) : Blank(s, i) => Len(s) - i = left
  BY DEF Neat
<1>2. Braces[e] \in {-1, 0, 1}
  BY BraceWeights
<1>3. PICK u : u = Append(s, e)
  OBVIOUS
<1>4. PICK D \in Nat : D = depth + Braces[e]
  BY <1>1, <1>2
<1>5. /\ u \in Seq(Token) /\ Len(u) = Len(s) + 1
      /\ \A i \in 1 .. Len(s) :
           /\ u[i] = s[i] /\ Total(Braces, u)[i] = Total(Braces, s)[i]
           /\ Blank(u, i) => Blank(s, i) /\ e = Level
           /\ \A k : Begins(u, i, k) /\ s[i] = NewLine =>
                \/ Begins(s, i, k) /\ u[k] = s[k]
                \/ k = Len(s) + 1 /\ u[k] = e /\ e # Level /\ Blank(s, i)
      /\ Blank(u, Len(s) + 1) => e = NewLine
      /\ ~\E k : Begins(u, Len(s) + 1, k)
      /\ Total(Braces, u)[Len(s) + 1] = SumOf(Braces, s) + Braces[e]
      /\ SumOf(Braces, u) = SumOf(Braces, s) + Braces[e]
  <2>1. OneMore(s, e, u)
    BY <1>1, <1>3, AppendLines
  <2>. QED
    BY <2>1 DEF OneMore
<1>6. /\ \A i \in 1 .. Len(s) : s[i] = NewLine =>
           /\ \A k : Begins(s, i, k) =>
                k - i - 1 = IF Braces[s[k]] = -1 THEN Total(Braces, s)[i] - 1 ELSE Total(Braces, s)[i]
           /\ Blank(s, i) => Len(s) - i <= Total(Braces, s)[i]
  BY <1>1, IndentedMeans
<1>7. \A i \in 1 .. Len(s) : Blank(s, i) => Total(Braces, s)[i] = depth
  BY <1>1, BlankTotal
<1>8. Len(s) \in Nat
  BY <1>1
<1>9. ASSUME NEW i \in 1 .. Len(u), u[i] = NewLine
      PROVE  /\ \A k : Begins(u, i, k) =>
                  k - i - 1 = IF Braces[u[k]] = -1 THEN Total(Braces, u)[i] - 1 ELSE Total(Braces, u)[i]
             /\ Blank(u, i) => Len(u) - i <= Total(Braces, u)[i]
  <2>1. CASE i = Len(s) + 1
    <3>1. \A k : ~Begins(u, i, k)
      BY <1>5, <2>1
    <3>2. Len(u) - i = 0 /\ Total(Braces, u)[i] = D
      BY <1>1, <1>4, <1>5, <1>8, <2>1
    <3>. QED
      BY <3>1, <3>2
  <2>2. CASE i # Len(s) + 1
    <3>1. i \in 1 .. Len(s)
      BY <1>5, <1>8, <2>2
    <3>2. s[i] = NewLine /\ Total(Braces, u)[i] = Total(Braces, s)[i]
      BY <1>5, <1>9, <3>1
    <3>3. ASSUME NEW k, Begins(u, i, k)
          PROVE  k - i - 1 = IF Braces[u[k]] = -1 THEN Total(Braces, u)[i] - 1 ELSE Total(Braces, u)[i]
      <4>1. CASE Begins(s, i, k) /\ u[k] = s[k]
        BY <1>6, <3>1, <3>2, <4>1
      <4>2. CASE k = Len(s) + 1 /\ u[k] = e /\ e # Level /\ Blank(s, i)
        <5>1. Len(s) - i = left /\ Total(Braces, u)[i] = depth
          BY <1>1, <1>7, <3>1, <3>2, <4>2
        <5>2. k - i - 1 = Len(s) - i /\ Len(s) - i \in Nat
          BY <1>8, <3>1, <4>2
        <5>3. left = IF Braces[e] = -1 THEN depth - 1 ELSE depth
          BY <4>2, <5>1, <5>2 DEF Fits
        <5>. QED
          BY <4>2, <5>1, <5>2, <5>3
      <4>. QED
        BY <1>5, <3>1, <3>2, <3>3, <4>1, <4>2
    <3>4. ASSUME Blank(u, i)
          PROVE  Len(u) - i <= Total(Braces, u)[i]
      <4>1. Blank(s, i) /\ e = Level
        BY <1>5, <3>1, <3>4
      <4>2. Len(s) - i = left /\ Total(Braces, u)[i] = depth
        BY <1>1, <1>7, <3>1, <3>2, <4>1
      <4>3. left + 1 <= depth
        BY <4>1 DEF Fits
      <4>. QED
        BY <1>1, <1>5, <1>8, <4>2, <4>3
    <3>. QED
      BY <3>3, <3>4
  <2>. QED
    BY <2>1, <2>2
<1>10. Indented(u)
  BY <1>5, <1>9, IndentedMeans
<1>11. ASSUME NEW i \in 1 .. Len(u), Blank(u, i)
       PROVE  Len(u) - i = right
  <2>1. CASE i = Len(s) + 1
    <3>1. e = NewLine /\ e # Level
      BY <1>5, <1>11, <2>1, FixedTokens
    <3>2. right = 0
      BY <3>1 DEF Fits
    <3>. QED
      BY <1>5, <1>8, <2>1, <3>2
  <2>2. CASE i # Len(s) + 1
    <3>1. i \in 1 .. Len(s)
      BY <1>5, <1>8, <2>2
    <3>2. Blank(s, i) /\ e = Level
      BY <1>5, <1>11, <3>1
    <3>3. right = left + 1 /\ Len(s) - i = left
      BY <1>1, <3>1, <3>2 DEF Fits
    <3>. QED
      BY <1>5, <1>8, <3>1, <3>3
  <2>. QED
    BY <2>1, <2>2
<1>12. SumOf(Braces, u) = D
  BY <1>1, <1>4, <1>5
<1>13. Neat(u, D, right)
  BY <1>5, <1>10, <1>11, <1>12 DEF Neat
<1>. QED
  BY <1>3, <1>4, <1>13, Zenon

-----------------------------------------------------------------------------
(* What the tasks do to the lines.                                         *)

\* A text behind a text is one token behind the other.
LEMMA PutOne ==
  ASSUME NEW s \in Seq(Token)
  PROVE  /\ s \o <<>> = s
         /\ \A t \in Token : s \o <<t>> = Append(s, t)
         /\ \A text \in Seq(Token), t \in Token : s \o Append(text, t) = Append(s \o text, t)
         /\ \A text : text \in Seq(Token) => s \o text \in Seq(Token)
<1>1. \A t \in Token : s \o <<t>> = Append(s, t)
  OBVIOUS
<1>2. ASSUME NEW text \in Seq(Token), NEW t \in Token
      PROVE  s \o Append(text, t) = Append(s \o text, t)
  OBVIOUS
<1>. QED
  BY <1>1, <1>2

\* A token of words behind a statement, or behind its levels.
LEMMA NeatInert ==
  ASSUME NEW s, NEW depth, NEW left, Neat(s, depth, left), left \in {depth, -1}, NEW e \in Inert
  PROVE  Neat(Append(s, e), depth, -1)
<1>1. e \in Token /\ e # Level /\ e # NewLine
  BY Zenon DEF Inert
<1>2. Braces[e] = 0
  BY BraceWeights
<1>3. depth \in Nat /\ depth + 0 = depth
  BY DEF Neat
<1>4. Fits(e, depth, left, -1)
  BY <1>1, <1>2 DEF Fits
<1>5. Neat(Append(s, e), depth + Braces[e], -1)
  <2>1. depth + Braces[e] >= 0
    BY <1>2, <1>3
  <2>. QED
    BY <1>1, <1>4, <2>1, NeatAppend
<1>. QED
  BY <1>2, <1>3, <1>5

\* A text of words.
LEMMA NeatWords ==
  ASSUME NEW s, NEW depth, NEW left, Neat(s, depth, left), left \in {depth, -1}
  PROVE  \A text \in Seq(Inert) : text = <<>> \/ Neat(s \o text, depth, -1)
<1>. DEFINE S == {text \in Seq(Inert) : text = <<>> \/ Neat(s \o text, depth, -1)}
<1>0. s \in Seq(Token) /\ Inert \subseteq Token
  BY DEF Neat, Inert
<1>1. <<>> \in S
  OBVIOUS
<1>2. ASSUME NEW text \in Seq(Inert), NEW e \in Inert, text \in S
      PROVE  Append(text, e) \in S
  <2>1. Append(text, e) \in Seq(Inert) /\ text \in Seq(Token) /\ e \in Token
    BY <1>0
  <2>2. s \o Append(text, e) = Append(s \o text, e)
    BY <1>0, <2>1, PutOne
  <2>3. CASE text = <<>>
    <3>1. s \o text = s
      BY <1>0, <2>3, PutOne
    <3>2. Neat(Append(s \o text, e), depth, -1)
      BY <3>1, NeatInert
    <3>. QED
      BY <2>1, <2>2, <3>2
  <2>4. CASE Neat(s \o text, depth, -1)
    <3>1. Neat(Append(s \o text, e), depth, -1)
      BY <2>4, NeatInert
    <3>. QED
      BY <2>1, <2>2, <3>1
  <2>. QED
    BY <1>2, <2>3, <2>4
<1>. HIDE DEF S
<1>3. Seq(Inert) \subseteq S
  BY <1>1, <1>2, AppendInduction
<1>. QED
  BY <1>3 DEF S

\* Levels behind a line break, no more than braces are open.
LEMMA NeatLevels ==
  ASSUME NEW s, NEW depth, Neat(s, depth, 0)
  PROVE  \A k \in Nat : k <= depth => Neat(s \o [i \in 1 .. k |-> Level], depth, k)
<1>. DEFINE levels(k) == [i \in 1 .. k |-> Level]
            S == {k \in Nat : k <= depth => Neat(s \o levels(k), depth, k)}
<1>0. s \in Seq(Token) /\ depth \in Nat /\ Level \in Token
  BY FixedTokens DEF Neat
<1>1. Braces[Level] = 0
  BY BraceWeights
<1>2. 0 \in S
  <2>1. levels(0) = <<>>
    OBVIOUS
  <2>2. s \o <<>> = s
    BY <1>0, PutOne
  <2>. QED
    BY <2>1, <2>2
<1>3. ASSUME NEW k \in Nat, k \in S
      PROVE  k + 1 \in S
  <2>. SUFFICES ASSUME k + 1 <= depth
                PROVE  Neat(s \o levels(k + 1), depth, k + 1)
    OBVIOUS
  <2>1. Neat(s \o levels(k), depth, k)
    BY <1>0, <1>3
  <2>2. Fits(Level, depth, k, k + 1)
    BY DEF Fits
  <2>3. Neat(Append(s \o levels(k), Level), depth + Braces[Level], k + 1)
    <3>1. depth + Braces[Level] >= 0
      BY <1>0, <1>1
    <3>. QED
      BY <1>0, <2>1, <2>2, <3>1, NeatAppend
  <2>4. levels(k) \in Seq(Token) /\ levels(k + 1) = Append(levels(k), Level)
    BY <1>0
  <2>5. s \o levels(k + 1) = Append(s \o levels(k), Level)
    <3>1. s \o Append(levels(k), Level) = Append(s \o levels(k), Level)
      BY <1>0, <2>4, PutOne
    <3>. QED
      BY <2>4, <3>1, Zenon
  <2>6. depth + Braces[Level] = depth
    BY <1>0, <1>1
  <2>. QED
    BY <2>3, <2>5, <2>6
<1>. HIDE DEF S
<1>4. Nat \subseteq S
  BY <1>2, <1>3, SetInduction
<1>. QED
  BY <1>4 DEF S

\* A line break behind a statement or its levels.
LEMMA NeatBreak ==
  ASSUME NEW s, NEW depth, NEW left, Neat(s, depth, left), left \in {depth, -1}
  PROVE  Neat(s \o <<NewLine>>, depth, 0)
<1>1. s \in Seq(Token) /\ depth \in Nat /\ NewLine \in Token /\ NewLine # Level
  BY FixedTokens DEF Neat
<1>2. Braces[NewLine] = 0
  BY BraceWeights
<1>3. Fits(NewLine, depth, left, 0)
  BY <1>1, <1>2 DEF Fits
<1>4. Neat(Append(s, NewLine), depth + Braces[NewLine], 0)
  <2>1. depth + Braces[NewLine] >= 0
    BY <1>1, <1>2
  <2>. QED
    BY <1>1, <1>3, <2>1, NeatAppend
<1>5. depth + Braces[NewLine] = depth
  BY <1>1, <1>2
<1>6. s \o <<NewLine>> = Append(s, NewLine)
  BY <1>1, PutOne
<1>. QED
  BY <1>4, <1>5, <1>6

\* The braces of a function.
LEMMA NeatBody ==
  ASSUME NEW s, NEW depth, NEW left, Neat(s, depth, left)
  PROVE  /\ left \in {depth, -1} => Neat(s \o BodyOpening, depth + 1, 0)
         /\ depth >= 1 /\ left \in {depth - 1, -1} => Neat(s \o BodyClosing, depth - 1, -1)
<1>1. s \in Seq(Token) /\ depth \in Nat
  BY DEF Neat
<1>2. ASSUME left \in {depth, -1}
      PROVE  Neat(s \o BodyOpening, depth + 1, 0)
  <2>1. PICK a : a = " = " /\ a \in Inert /\ a \in Token
    <3>1. " = " \in Inert
      BY FixedTokens, Zenon DEF Joints, Common
    <3>2. " = " \in Token
      BY <3>1, Zenon DEF Inert
    <3>. QED
      BY <3>1, <3>2, Zenon
  <2>2. PICK b : b = "{" /\ b \in Token /\ b # Level /\ b # NewLine /\ Braces[b] = 1
    <3>1. "{" # Level /\ "{" # NewLine
      BY Zenon DEF Level, NewLine
    <3>2. "{" \in Token /\ Braces["{"] = 1
      BY FixedTokens, BraceWeights, Zenon
    <3>. QED
      BY <3>1, <3>2, Zenon
  <2>3. a \in Inert /\ a \in Token
    BY <2>1, Zenon
  <2>4. b \in Token /\ b # Level /\ b # NewLine /\ Braces[b] = 1
    BY <2>2, Zenon
  <2>5. PICK t \in Seq(Token) : t = Append(s, a) /\ Neat(t, depth, -1)
    <3>1. Neat(Append(s, a), depth, -1)
      BY <1>2, <2>3, NeatInert
    <3>2. Append(s, a) \in Seq(Token)
      BY <1>1, <2>3
    <3>. QED
      BY <3>1, <3>2
  <2>6. PICK u \in Seq(Token) : u = Append(t, b) /\ Neat(u, depth + 1, -1)
    <3>1. Fits(b, depth, -1, -1)
      BY <2>4 DEF Fits
    <3>2. depth + Braces[b] >= 0 /\ depth + Braces[b] = depth + 1
      BY <1>1, <2>4
    <3>3. Neat(Append(t, b), depth + Braces[b], -1)
      BY <2>4, <2>5, <3>1, <3>2, NeatAppend
    <3>4. Append(t, b) \in Seq(Token)
      BY <2>4
    <3>. QED
      BY <3>2, <3>3, <3>4
  <2>7. Neat(u \o <<NewLine>>, depth + 1, 0)
    BY <2>6, NeatBreak
  <2>8. s \o BodyOpening = u \o <<NewLine>>
    <3>1. PICK c : c = NewLine /\ c \in Token
      BY FixedTokens, Zenon
    <3>2. BodyOpening = <<a, b, c>>
      BY <2>1, <2>2, <3>1, Zenon DEF BodyOpening, NewLine
    <3>3. PICK one, two, three :
            /\ one = <<a>> /\ one \in Seq(Token) /\ two = <<a, b>> /\ two \in Seq(Token)
            /\ three = <<a, b, c>> /\ two = Append(one, b) /\ three = Append(two, c)
      <4>1. /\ <<a>> \in Seq(Token) /\ <<a, b>> \in Seq(Token)
            /\ <<a, b>> = Append(<<a>>, b) /\ <<a, b, c>> = Append(<<a, b>>, c)
        BY <2>3, <2>4, <3>1
      <4>. QED
        BY <4>1, Zenon
    <3>4. s \o one = t
      BY <1>1, <2>3, <2>5, <3>3, PutOne
    <3>5. s \o two = u
      BY <1>1, <2>4, <2>6, <3>3, <3>4, PutOne
    <3>6. s \o three = Append(u, c)
      BY <1>1, <3>1, <3>3, <3>5, PutOne
    <3>7. u \o <<c>> = Append(u, c)
      BY <3>1, PutOne
    <3>. QED
      BY <3>1, <3>2, <3>3, <3>6, <3>7, Zenon
  <2>. QED
    BY <2>7, <2>8
<1>3. ASSUME depth >= 1, left \in {depth - 1, -1}
      PROVE  Neat(s \o BodyClosing, depth - 1, -1)
  <2>1. PICK b : b = "}" /\ b \in Token /\ b # Level /\ b # NewLine /\ Braces[b] = -1
    <3>1. "}" # Level /\ "}" # NewLine
      BY Zenon DEF Level, NewLine
    <3>2. "}" \in Token /\ Braces["}"] = -1
      BY FixedTokens, BraceWeights, Zenon
    <3>. QED
      BY <3>1, <3>2, Zenon
  <2>2. b \in Token /\ b # Level /\ b # NewLine /\ Braces[b] = -1
    BY <2>1, Zenon
  <2>3. Fits(b, depth, left, -1)
    BY <1>3, <2>2 DEF Fits
  <2>4. depth + Braces[b] >= 0 /\ depth + Braces[b] = depth - 1
    BY <1>1, <1>3, <2>2
  <2>5. Neat(Append(s, b), depth + Braces[b], -1)
    BY <2>2, <2>3, <2>4, NeatAppend
  <2>6. s \o <<b>> = Append(s, b)
    BY <1>1, <2>2, PutOne
  <2>7. BodyClosing = <<b>>
    BY <2>1, Zenon DEF BodyClosing
  <2>. QED
    BY <2>4, <2>5, <2>6, <2>7
<1>. QED
  BY <1>2, <1>3

-----------------------------------------------------------------------------
(* The inductive invariant: the tasks lead from the layout of what is      *)
(* written to a layout in which no bracket is open.                        *)

\* How many levels the last line of a layout may have and nothing else, -1 if
\* there is more in it.
Left(q) ==
  IF q.line \in {"open", "head"} THEN {q.depth, -1}
  ELSE IF q.line \in {"fresh", "newline"} THEN {0}
  ELSE IF q.line = "headed" THEN {-1}
  ELSE {IF q.depth = 0 THEN 0 ELSE q.depth - 1}

\* gen->indent in a layout.
IndentOf(q) == IF q.line \in {"open", "fresh"} THEN q.depth ELSE q.depth - 1

\* A text with a layout.
Written(s, q) ==
  /\ Owing(<<>>, s) = q.owed
  /\ \E left \in Left(q) : Neat(s, q.depth, left)

\* The layouts a program ends with.
Ends == {r \in Layout : r.owed = <<>> /\ r.depth = 0 /\ r.line \in {"headed", "close"}}

\* The buffer and what has become of the call.
Books ==
  /\ program \in Programs
  /\ out \in Seq(Token) /\ stray \subseteq 1 .. Len(out)
  /\ used = WidthOf(out)
  /\ status \in {"running", "done", "exit", "overrun"}
  /\ used >= BufSize <=> status = "overrun"

Follows(q, r) == Written(Sound, q) /\ indent = IndentOf(q) /\ Reaches(q, todo, r)

GenInv ==
  /\ Books
  /\ status = "done" => todo = <<>>
  /\ \E q \in Layout, r \in Ends : Follows(q, r)

\* The width of texts.
LEMMA Widths ==
  /\ WidthOf(<<>>) = 0
  /\ \A s \in Seq(Token) : WidthOf(s) \in Int
  /\ \A s, t \in Seq(Token) : WidthOf(s \o t) = WidthOf(s) + WidthOf(t)
<1>1. Width \in [Token -> Int]
  <2>1. Width \in [Token -> Nat]
    BY WidthAssumption DEF Token
  <2>. QED
    BY <2>1
<1>2. SumOf(Width, <<>>) = 0 /\ \A s \in Seq(Token) : SumOf(Width, s) \in Int
  BY <1>1, SumAppend
<1>3. \A s, t \in Seq(Token) : SumOf(Width, s \o t) = SumOf(Width, s) + SumOf(Width, t)
  BY <1>1, SumConcat
<1>4. \A s : WidthOf(s) = SumOf(Width, s)
  BY DEF WidthOf, SumOf
<1>. QED
  BY <1>2, <1>3, <1>4

\* No more braces are open than there are tokens.
LEMMA DepthAtMost ==
  \A s \in Seq(Token) : SumOf(Braces, s) \in Int /\ SumOf(Braces, s) <= Len(s)
<1>. DEFINE S == {s \in Seq(Token) : SumOf(Braces, s) \in Int /\ SumOf(Braces, s) <= Len(s)}
<1>0. Braces \in [Token -> Int]
  BY BraceWeights, Zenon
<1>1. <<>> \in S
  <2>1. SumOf(Braces, <<>>) = 0
    BY <1>0, SumAppend
  <2>2. <<>> \in Seq(Token) /\ Len(<<>>) = 0
    OBVIOUS
  <2>. QED
    BY <2>1, <2>2
<1>2. ASSUME NEW s \in Seq(Token), NEW e \in Token, s \in S
      PROVE  Append(s, e) \in S
  <2>1. SumOf(Braces, Append(s, e)) = SumOf(Braces, s) + Braces[e]
    BY <1>0, SumAppend
  <2>2. Braces[e] \in {-1, 0, 1}
    BY BraceWeights
  <2>3. Append(s, e) \in Seq(Token) /\ Len(Append(s, e)) = Len(s) + 1 /\ Len(s) \in Nat
    OBVIOUS
  <2>4. SumOf(Braces, s) \in Int /\ SumOf(Braces, s) <= Len(s)
    BY <1>2
  <2>5. SumOf(Braces, Append(s, e)) \in Int /\ SumOf(Braces, Append(s, e)) <= Len(Append(s, e))
    BY <2>1, <2>2, <2>3, <2>4
  <2>. QED
    BY <2>3, <2>5
<1>. HIDE DEF S
<1>3. Seq(Token) \subseteq S
  BY <1>1, <1>2, AppendInduction
<1>. QED
  BY <1>3 DEF S

\* A call of generator_put keeps the buffer in order.
LEMMA BooksWrite ==
  ASSUME Books, status = "running", NEW text \in Seq(Token), Write(text), program' = program,
         stray' \subseteq 1 .. Len(out')
  PROVE  Books' /\ status' # "done" /\ Len(out') = Len(out) + Len(text)
<1>1. /\ program \in Programs /\ out \in Seq(Token) /\ used = WidthOf(out) /\ ~(used >= BufSize)
  BY DEF Books
<1>2. out' = out \o text /\ out' \in Seq(Token) /\ Len(out') = Len(out) + Len(text)
  BY <1>1 DEF Write
<1>3. used' = WidthOf(out') /\ used' \in Int
  <2>1. used' = WidthOf(out) + WidthOf(text)
    BY <1>1 DEF Write
  <2>2. WidthOf(out \o text) = WidthOf(out) + WidthOf(text)
    BY <1>1, Widths
  <2>3. WidthOf(out \o text) \in Int
    BY <1>1, Widths
  <2>. QED
    BY <1>2, <2>1, <2>2, <2>3
<1>4. BufSize \in Int
  BY BufSizeAssumption
<1>5. /\ status' \in {"running", "done", "exit", "overrun"} /\ status' # "done"
      /\ used' >= BufSize <=> status' = "overrun"
  BY <1>3, <1>4 DEF Write
<1>. QED
  BY <1>1, <1>2, <1>3, <1>5 DEF Books

\* The task at hand, and the layouts before it, behind it and at the end.
Takes(task, q, m, r) ==
  /\ task = Head(todo) /\ task \in Task
  /\ Written(Sound, q) /\ indent = IndentOf(q)
  /\ Goes(q, task, m)
  /\ Reaches(m, Tail(todo), r)

\* There are such layouts.
LEMMA TakesOne ==
  ASSUME GenInv, todo # <<>>
  PROVE  \E task \in Task, q, m \in Layout, r \in Ends : Takes(task, q, m, r)
<1>1. PICK q \in Layout, r \in Ends : Follows(q, r)
  BY DEF GenInv
<1>2. todo \in Seq(Task) /\ Reaches(q, todo, r)
  BY <1>1 DEF Follows, Reaches
<1>3. PICK m \in Layout : Goes(q, Head(todo), m) /\ Reaches(m, Tail(todo), r)
  BY <1>2, ReachesFirst
<1>4. Head(todo) \in Task
  BY <1>2
<1>. QED
  BY <1>1, <1>3, <1>4 DEF Follows, Takes

\* The task of the first node is of use in one layout only, which it keeps.
LEMMA GoesThrough ==
  ASSUME NEW task \in Task, NEW q \in Layout, NEW m \in Layout, Goes(q, task, m), task.do = "generate",
         task.node \in Nodes
  PROVE  m = q /\ q = At(q.owed, q.depth, "open")
<1>1. task.node \notin Programs
  BY NodesAssumption, ProgramsAssumption
<1>2. q.line = "open" /\ m.line = "open" /\ m.depth = q.depth + 0
  BY <1>1 DEF Goes, Turns
<1>3. TextOf(task) = <<>>
  BY DEF TextOf
<1>4. q.owed \in Dues /\ q.depth \in Nat
  BY DEF Layout
<1>5. m.owed = q.owed
  <2>1. m.owed = Owing(q.owed, <<>>)
    BY <1>3 DEF Goes
  <2>. QED
    BY <1>4, <2>1, OwingShort
<1>. QED
  BY <1>2, <1>4, <1>5 DEF Layout, At

-----------------------------------------------------------------------------
(* Each action keeps the invariant.                                        *)

\* What a text owes with one more behind it.
LEMMA OwesMore ==
  ASSUME NEW s \in Seq(Token), NEW q, Owing(<<>>, s) = q.owed
  PROVE  \A text \in Seq(Token) : Owing(<<>>, s \o text) = Owing(q.owed, text)
<1>1. <<>> \in Dues
  BY DEF Dues
<1>2. \A text \in Seq(Token) : Owing(<<>>, s \o text) = Owing(Owing(<<>>, s), text)
  BY <1>1, OwingConcat
<1>. QED
  BY <1>2

\* The layout behind a text that is put.
LEMMA WrittenPut ==
  ASSUME NEW s, NEW q \in Layout, NEW m \in Layout, NEW task \in Task,
         Written(s, q), Goes(q, task, m), task.do = "put"
  PROVE  Written(s \o task.text, m) /\ IndentOf(m) = IndentOf(q)
<1>1. PICK left \in Left(q) : Neat(s, q.depth, left)
  BY DEF Written
<1>2. PICK text \in Seq(Token) : text = task.text /\ TextOf(task) = text
  BY DEF Task, TextOf
<1>3. s \in Seq(Token) /\ q.depth \in Nat /\ m.depth \in Nat /\ m.line \in Lines
  BY <1>1 DEF Neat, Layout
<1>4. Owing(<<>>, s \o text) = m.owed
  <2>1. Owing(<<>>, s \o text) = Owing(q.owed, text)
    BY <1>3, OwesMore DEF Written
  <2>2. m.owed = Owing(q.owed, text)
    BY <1>2 DEF Goes
  <2>. QED
    BY <2>1, <2>2
<1>5. \/ text \in Words /\ Turns(q, m, {<<"open", "open">>, <<"head", "headed">>, <<"headed", "headed">>}, 0)
      \/ text = <<NewLine>> /\ Turns(q, m, {<<"open", "fresh">>, <<"head", "newline">>}, 0)
      \/ text = BodyOpening /\ Turns(q, m, {<<"open", "newline">>}, 1)
      \/ text = BodyClosing /\ Turns(q, m, {<<"headed", "open">>, <<"close", "open">>}, -1)
  BY <1>2, Zenon DEF Goes
<1>6. CASE text \in Words /\ Turns(q, m, {<<"open", "open">>, <<"head", "headed">>, <<"headed", "headed">>}, 0)
  <2>1. /\ m.depth = q.depth
        /\ \/ q.line = "open" /\ m.line = "open"
           \/ q.line = "head" /\ m.line = "headed"
           \/ q.line = "headed" /\ m.line = "headed"
    BY <1>3, <1>6 DEF Turns
  <2>2. left \in {q.depth, -1} /\ -1 \in Left(m) /\ IndentOf(m) = IndentOf(q)
    BY <2>1 DEF Left, IndentOf
  <2>3. text \in Seq(Inert) /\ text # <<>>
    BY <1>6 DEF Words
  <2>4. Neat(s \o text, q.depth, -1)
    BY <1>1, <2>2, <2>3, NeatWords
  <2>. QED
    BY <1>2, <1>4, <2>1, <2>2, <2>4 DEF Written
<1>7. CASE text = <<NewLine>> /\ Turns(q, m, {<<"open", "fresh">>, <<"head", "newline">>}, 0)
  <2>1. /\ m.depth = q.depth
        /\ \/ q.line = "open" /\ m.line = "fresh"
           \/ q.line = "head" /\ m.line = "newline"
    BY <1>3, <1>7 DEF Turns
  <2>2. left \in {q.depth, -1} /\ 0 \in Left(m) /\ IndentOf(m) = IndentOf(q)
    BY <2>1 DEF Left, IndentOf
  <2>3. Neat(s \o <<NewLine>>, q.depth, 0)
    BY <1>1, <2>2, NeatBreak
  <2>. QED
    BY <1>2, <1>4, <1>7, <2>1, <2>2, <2>3 DEF Written
<1>8. CASE text = BodyOpening /\ Turns(q, m, {<<"open", "newline">>}, 1)
  <2>1. m.depth = q.depth + 1 /\ q.line = "open" /\ m.line = "newline"
    BY <1>3, <1>8 DEF Turns
  <2>2. left \in {q.depth, -1} /\ 0 \in Left(m) /\ IndentOf(m) = IndentOf(q)
    BY <1>3, <2>1 DEF Left, IndentOf
  <2>3. Neat(s \o BodyOpening, q.depth + 1, 0)
    BY <1>1, <2>2, NeatBody
  <2>. QED
    BY <1>2, <1>4, <1>8, <2>1, <2>2, <2>3 DEF Written
<1>9. CASE text = BodyClosing /\ Turns(q, m, {<<"headed", "open">>, <<"close", "open">>}, -1)
  <2>1. m.depth = q.depth - 1 /\ q.depth >= 1 /\ q.line \in {"headed", "close"} /\ m.line = "open"
    BY <1>3, <1>9 DEF Turns
  <2>2. left \in {q.depth - 1, -1} /\ -1 \in Left(m) /\ IndentOf(m) = IndentOf(q)
    BY <1>3, <2>1 DEF Left, IndentOf
  <2>3. Neat(s \o BodyClosing, q.depth - 1, -1)
    BY <1>1, <2>1, <2>2, NeatBody
  <2>. QED
    BY <1>2, <1>4, <1>9, <2>1, <2>2, <2>3 DEF Written
<1>. QED
  BY <1>5, <1>6, <1>7, <1>8, <1>9

\* The layout behind levels that are printed.
LEMMA WrittenLevels ==
  ASSUME NEW s, NEW q \in Layout, NEW m \in Layout, NEW task \in Task,
         Written(s, q), Goes(q, task, m), task.do = "print"
  PROVE  /\ IndentOf(m) = IndentOf(q)
         /\ IndentOf(q) < 0 => Written(s, m)
         /\ IndentOf(q) >= 0 => Written(s \o [i \in 1 .. IndentOf(q) |-> Level], m)
<1>1. PICK left \in Left(q) : Neat(s, q.depth, left)
  BY DEF Written
<1>2. s \in Seq(Token) /\ q.depth \in Nat /\ m.depth \in Nat /\ q.owed \in Dues
  BY <1>1 DEF Neat, Layout
<1>3. /\ m.depth = q.depth /\ m.owed = q.owed
      /\ \/ q.line = "fresh" /\ m.line = "open"
         \/ q.line = "newline" /\ m.line = "close"
  <2>1. Turns(q, m, {<<"fresh", "open">>, <<"newline", "close">>}, 0)
    BY DEF Goes
  <2>2. m.owed = Owing(q.owed, <<>>)
    BY DEF Goes, TextOf
  <2>3. m.owed = q.owed
    BY <1>2, <2>2, OwingShort
  <2>. QED
    BY <1>2, <2>1, <2>3 DEF Turns
<1>4. left = 0 /\ IndentOf(m) = IndentOf(q)
  BY <1>3 DEF Left, IndentOf
<1>5. IndentOf(q) \in Int /\ IndentOf(q) <= q.depth
  BY <1>2 DEF IndentOf
<1>6. ASSUME IndentOf(q) < 0
      PROVE  Written(s, m)
  <2>1. q.depth = 0 /\ q.line = "newline"
    BY <1>2, <1>3, <1>6 DEF IndentOf
  <2>2. 0 \in Left(m)
    BY <1>3, <2>1 DEF Left
  <2>. QED
    BY <1>1, <1>3, <1>4, <2>2 DEF Written
<1>7. ASSUME IndentOf(q) >= 0
      PROVE  Written(s \o [i \in 1 .. IndentOf(q) |-> Level], m)
  <2>1. PICK k \in Nat : k = IndentOf(q) /\ k <= q.depth
    BY <1>5, <1>7
  <2>2. Neat(s \o [i \in 1 .. k |-> Level], q.depth, k)
    BY <1>1, <1>4, <2>1, NeatLevels
  <2>3. k \in Left(m)
    BY <1>2, <1>3, <2>1 DEF Left, IndentOf
  <2>4. PICK levels \in Seq({Level}) : levels = [i \in 1 .. k |-> Level] /\ levels \in Seq(Token)
    <3>1. Level \in Token
      BY FixedTokens, Zenon
    <3>2. [i \in 1 .. k |-> Level] \in Seq({Level}) /\ [i \in 1 .. k |-> Level] \in Seq(Token)
      BY <3>1
    <3>. QED
      BY <3>2, Zenon
  <2>5. Owing(q.owed, levels) = q.owed
    <3>1. {Level} \cap Bracket = {}
      BY FixedTokens
    <3>. QED
      BY <1>2, <3>1, PlainOwes
  <2>6. Owing(<<>>, s \o levels) = Owing(q.owed, levels)
    BY <1>2, <2>4, OwesMore DEF Written
  <2>. QED
    BY <1>3, <2>1, <2>2, <2>3, <2>4, <2>5, <2>6 DEF Written
<1>. QED
  BY <1>4, <1>6, <1>7

\* The layout behind a parameter, of which nothing or a name is written.
LEMMA WrittenName ==
  ASSUME NEW s, NEW q \in Layout, NEW m \in Layout, NEW task \in Task,
         Written(s, q), Goes(q, task, m), task.do = "param"
  PROVE  /\ IndentOf(m) = IndentOf(q)
         /\ Written(s, m)
         /\ \A name \in Common : Written(s \o <<name>>, m)
<1>1. PICK left \in Left(q) : Neat(s, q.depth, left)
  BY DEF Written
<1>2. s \in Seq(Token) /\ q.depth \in Nat /\ m.depth \in Nat /\ q.owed \in Dues
  BY <1>1 DEF Neat, Layout
<1>3. m.depth = q.depth /\ m.owed = q.owed /\ q.line = "headed" /\ m.line = "headed"
  <2>1. Turns(q, m, {<<"headed", "headed">>}, 0)
    BY DEF Goes
  <2>2. m.owed = Owing(q.owed, <<>>)
    BY DEF Goes, TextOf
  <2>3. m.owed = q.owed
    BY <1>2, <2>2, OwingShort
  <2>. QED
    BY <1>2, <2>1, <2>3 DEF Turns
<1>4. left = -1 /\ -1 \in Left(m) /\ IndentOf(m) = IndentOf(q)
  BY <1>3 DEF Left, IndentOf
<1>5. Written(s, m)
  BY <1>1, <1>3, <1>4 DEF Written
<1>6. ASSUME NEW name \in Common
      PROVE  Written(s \o <<name>>, m)
  <2>1. PICK text \in Seq(Common) : text = <<name>> /\ text \in Seq(Inert) /\ text # <<>> /\ text \in Seq(Token)
    <3>1. name \in Inert /\ name \in Token
      BY Zenon DEF Common, Inert
    <3>2. <<name>> \in Seq(Common) /\ <<name>> \in Seq(Inert) /\ <<name>> # <<>> /\ <<name>> \in Seq(Token)
      BY <3>1
    <3>. QED
      BY <3>2, Zenon
  <2>2. Neat(s \o text, q.depth, -1)
    BY <1>1, <1>4, <2>1, NeatWords
  <2>3. Owing(q.owed, text) = q.owed
    BY <1>2, CommonOwes
  <2>4. Owing(<<>>, s \o text) = Owing(q.owed, text)
    BY <1>2, <2>1, OwesMore DEF Written
  <2>. QED
    BY <1>3, <1>4, <2>1, <2>2, <2>3, <2>4 DEF Written
<1>. QED
  BY <1>4, <1>5, <1>6

\* A text that is put, and no part of it stray.
LEMMA SoundGrows ==
  ASSUME out \in Seq(Token), stray \subseteq 1 .. Len(out), NEW text \in Seq(Token), out' = out \o text
  PROVE  /\ stray' = stray => Sound' = Sound \o text
         /\ stray' = stray \cup (Len(out) + 1 .. Len(out) + Len(text)) => Sound' = Sound
<1>1. Len(out) \in Nat
  OBVIOUS
<1>2. ASSUME stray' = stray
      PROVE  Sound' = Sound \o text
  <2>1. \A i \in Len(out) + 1 .. Len(out) + Len(text) : i \notin stray
    BY <1>1
  <2>2. Without(out \o text, stray) = Without(out, stray) \o text
    BY <2>1, WithoutConcat
  <2>. QED
    BY <1>2, <2>2, Zenon DEF Sound
<1>3. ASSUME stray' = stray \cup (Len(out) + 1 .. Len(out) + Len(text))
      PROVE  Sound' = Sound
  <2>. DEFINE new == Len(out) + 1 .. Len(out) + Len(text)
  <2>1. \A i \in Len(out) + 1 .. Len(out) + Len(text) : i \in stray \cup new
    OBVIOUS
  <2>2. Without(out \o text, stray \cup new) = Without(out, stray \cup new)
    <3>. HIDE DEF new
    <3>. QED
      BY <2>1, WithoutConcat
  <2>3. Without(out, stray \cup new) = Without(out, stray)
    <3>1. DOMAIN out \cap new = {}
      BY <1>1
    <3>. HIDE DEF new
    <3>. QED
      BY <3>1, WithoutOthers
  <2>. QED
    BY <1>3, <2>2, <2>3, Zenon DEF Sound
<1>. QED
  BY <1>2, <1>3

\* A step to the layout behind the task keeps the invariant.
LEMMA TakesNext ==
  ASSUME NEW task, NEW q, NEW m \in Layout, NEW r \in Ends, Takes(task, q, m, r),
         Instead(<<>>), Books', status' # "done", Written(Sound', m), indent' = IndentOf(m)
  PROVE  GenInv'
<1>1. Reaches(m, todo', r)
  <2>1. Tail(todo) \in Seq(Task)
    BY DEF Takes, Reaches
  <2>2. <<>> \o Tail(todo) = Tail(todo)
    BY <2>1
  <2>. QED
    BY <2>2 DEF Takes, Instead
<1>2. Follows(m, r)'
  BY <1>1 DEF Follows
<1>. QED
  BY <1>2 DEF GenInv

\* A text of the handlers.
LEMMA PutTextKeeps ==
  ASSUME GenInv, PutText
  PROVE  GenInv'
<1>1. status = "running" /\ todo # <<>> /\ Head(todo).do = "put"
  BY DEF PutText, Doing
<1>2. PICK task \in Task, q, m \in Layout, r \in Ends : Takes(task, q, m, r)
  BY <1>1, TakesOne
<1>3. task = Head(todo) /\ Written(Sound, q) /\ indent = IndentOf(q) /\ Goes(q, task, m)
  BY <1>2 DEF Takes
<1>4. PICK text \in Seq(Token) : text = task.text
  BY <1>1, <1>3 DEF Task
<1>5. Books /\ out \in Seq(Token) /\ stray \subseteq 1 .. Len(out)
  BY DEF GenInv, Books
<1>6. Write(text) /\ out' = out \o text /\ program' = program /\ stray' = stray /\ indent' = indent
  BY <1>3, <1>4 DEF PutText, Write
<1>7. stray' \subseteq 1 .. Len(out')
  <2>1. Len(out') = Len(out) + Len(text) /\ Len(out) \in Nat /\ Len(text) \in Nat
    BY <1>5, <1>6
  <2>. QED
    BY <1>5, <1>6, <2>1
<1>8. Books' /\ status' # "done"
  BY <1>1, <1>5, <1>6, <1>7, BooksWrite
<1>9. Sound' = Sound \o text
  BY <1>5, <1>6, SoundGrows
<1>10. Written(Sound \o text, m) /\ IndentOf(m) = IndentOf(q)
  BY <1>1, <1>3, <1>4, WrittenPut
<1>11. Instead(<<>>)
  BY DEF PutText
<1>. QED
  BY <1>2, <1>3, <1>6, <1>8, <1>9, <1>10, <1>11, TakesNext

\* The name of a parameter, or what is found in its place.
LEMMA PutParamKeeps ==
  ASSUME GenInv, PutParam
  PROVE  GenInv'
<1>1. status = "running" /\ todo # <<>> /\ Head(todo).do = "param"
  BY DEF PutParam, Doing
<1>2. PICK task \in Task, q, m \in Layout, r \in Ends : Takes(task, q, m, r)
  BY <1>1, TakesOne
<1>3. task = Head(todo) /\ Written(Sound, q) /\ indent = IndentOf(q) /\ Goes(q, task, m)
  BY <1>2 DEF Takes
<1>4. Here \in Nodes
  BY <1>1, <1>3 DEF Task, Here
<1>5. Books /\ out \in Seq(Token) /\ stray \subseteq 1 .. Len(out)
  BY DEF GenInv, Books
<1>6. IndentOf(m) = IndentOf(q) /\ Written(Sound, m) /\ \A name \in Common : Written(Sound \o <<name>>, m)
  BY <1>1, <1>3, WrittenName
<1>7. PICK name, garbage :
        /\ Write(name)
        /\ stray' = IF garbage THEN stray \cup (Len(out) + 1 .. Len(out) + Len(name)) ELSE stray
        /\ \/ ~garbage /\ name = <<Here.name>>
           \/ garbage /\ name \in Garbage
           \/ ~garbage /\ name = <<>>
  <2>. DEFINE isDecl == Here.type \in {"DECL_VARIABLE", "DECL_FUNCTION"}
              isGarbage == Here.type \in {"EXPRESSION", "CONSTANT", "KEYWORD"}
  <2>1. PICK name \in IF isDecl THEN {<<Here.name>>} ELSE IF isGarbage THEN Garbage ELSE {<<>>} :
          /\ Write(name)
          /\ stray' = IF isGarbage THEN stray \cup (Len(out) + 1 .. Len(out) + Len(name)) ELSE stray
    BY DEF PutParam
  <2>2. isDecl => ~isGarbage
    BY Zenon
  <2>. HIDE DEF isDecl, isGarbage
  <2>3. \/ ~isGarbage /\ name = <<Here.name>>
        \/ isGarbage /\ name \in Garbage
        \/ ~isGarbage /\ name = <<>>
    BY <2>1, <2>2
  <2>. QED
    BY <2>1, <2>3
<1>8. Here.name \in Common
  BY <1>4, NodeFacts
<1>9. name \in Seq(Token)
  <2>1. Here.name \in Token
    BY <1>8, Zenon DEF Common, Inert
  <2>2. \A g \in Garbage : g \in Seq(Token)
    BY GarbageAssumption DEF Token
  <2>3. <<Here.name>> \in Seq(Token) /\ <<>> \in Seq(Token)
    BY <2>1
  <2>. QED
    BY <1>7, <2>2, <2>3, Zenon
<1>10. out' = out \o name /\ Len(out') = Len(out) + Len(name) /\ Len(out) \in Nat /\ Len(name) \in Nat
  <2>1. out' = out \o name
    BY <1>7 DEF Write
  <2>. QED
    BY <1>5, <1>9, <2>1
<1>11. stray' \subseteq 1 .. Len(out')
  <2>1. stray' \subseteq stray \cup (Len(out) + 1 .. Len(out) + Len(name))
    BY <1>7
  <2>. QED
    BY <1>5, <1>10, <2>1
<1>12. program' = program /\ indent' = indent /\ Instead(<<>>)
  BY DEF PutParam
<1>13. Books' /\ status' # "done"
  BY <1>1, <1>5, <1>7, <1>9, <1>11, <1>12, BooksWrite
<1>14. Written(Sound', m)
  <2>1. stray' = stray => Sound' = Sound \o name
    BY <1>5, <1>9, <1>10, SoundGrows
  <2>2. stray' = stray \cup (Len(out) + 1 .. Len(out) + Len(name)) => Sound' = Sound
    BY <1>5, <1>9, <1>10, SoundGrows
  <2>3. CASE ~garbage /\ name = <<Here.name>>
    BY <1>6, <1>7, <1>8, <2>1, <2>3
  <2>4. CASE garbage
    BY <1>6, <1>7, <2>2, <2>4
  <2>5. CASE ~garbage /\ name = <<>>
    <3>1. Sound \in Seq(Token)
      BY <1>3 DEF Written, Neat
    <3>2. Sound \o <<>> = Sound
      BY <3>1, PutOne
    <3>. QED
      BY <1>6, <1>7, <2>1, <2>5, <3>2
  <2>. QED
    BY <1>7, <2>3, <2>4, <2>5
<1>. QED
  BY <1>2, <1>3, <1>6, <1>12, <1>13, <1>14, TakesNext

\* The indent of the next lines.
LEMMA ChangeIndentKeeps ==
  ASSUME GenInv, ChangeIndent
  PROVE  GenInv'
<1>1. status = "running" /\ todo # <<>> /\ Head(todo).do = "indent"
  BY DEF ChangeIndent, Doing
<1>2. PICK task \in Task, q, m \in Layout, r \in Ends : Takes(task, q, m, r)
  BY <1>1, TakesOne
<1>3. task = Head(todo) /\ Written(Sound, q) /\ indent = IndentOf(q) /\ Goes(q, task, m)
  BY <1>2 DEF Takes
<1>4. Books' /\ status' # "done" /\ Sound' = Sound /\ indent' = indent + task.by /\ Instead(<<>>)
  BY <1>1, <1>3 DEF GenInv, Books, ChangeIndent, Sound
<1>5. q.owed \in Dues /\ q.depth \in Nat /\ m.depth \in Nat
  BY DEF Layout
<1>6. m.owed = q.owed
  <2>1. m.owed = Owing(q.owed, <<>>)
    BY <1>1, <1>3 DEF Goes, TextOf
  <2>. QED
    BY <1>5, <2>1, OwingShort
<1>7. \/ task.by = 1 /\ Turns(q, m, {<<"newline", "fresh">>, <<"headed", "open">>}, 0)
      \/ task.by = -1 /\ Turns(q, m, {<<"open", "head">>}, 0)
  BY <1>1, <1>3, Zenon DEF Goes
<1>8. /\ m.depth = q.depth
      /\ \/ task.by = 1 /\ q.line = "newline" /\ m.line = "fresh"
         \/ task.by = 1 /\ q.line = "headed" /\ m.line = "open"
         \/ task.by = -1 /\ q.line = "open" /\ m.line = "head"
  BY <1>5, <1>7 DEF Turns
<1>9. IndentOf(m) = IndentOf(q) + task.by /\ Left(q) \subseteq Left(m)
  BY <1>5, <1>8 DEF IndentOf, Left
<1>10. Written(Sound, m)
  BY <1>3, <1>6, <1>8, <1>9 DEF Written
<1>. QED
  BY <1>2, <1>3, <1>4, <1>9, <1>10, TakesNext

\* The levels in front of a line.
LEMMA PrintLevelsKeeps ==
  ASSUME GenInv, PrintLevels
  PROVE  GenInv'
<1>1. status = "running" /\ todo # <<>> /\ Head(todo).do = "print"
  BY DEF PrintLevels, Doing
<1>2. PICK task \in Task, q, m \in Layout, r \in Ends : Takes(task, q, m, r)
  BY <1>1, TakesOne
<1>3. task = Head(todo) /\ Written(Sound, q) /\ indent = IndentOf(q) /\ Goes(q, task, m)
  BY <1>2 DEF Takes
<1>4. /\ IndentOf(m) = IndentOf(q)
      /\ IndentOf(q) < 0 => Written(Sound, m)
      /\ IndentOf(q) >= 0 => Written(Sound \o [i \in 1 .. IndentOf(q) |-> Level], m)
  BY <1>1, <1>3, WrittenLevels
<1>5. Books /\ out \in Seq(Token) /\ stray \subseteq 1 .. Len(out) /\ indent \in Int
  <2>1. q.depth \in Nat
    BY DEF Layout
  <2>. QED
    BY <1>3, <2>1 DEF GenInv, Books, IndentOf
<1>6. program' = program /\ stray' = stray /\ indent' = indent /\ Instead(<<>>)
  BY DEF PrintLevels
<1>7. CASE indent < 0
  <2>1. Books' /\ status' # "done" /\ Sound' = Sound
    BY <1>1, <1>5, <1>7 DEF Books, PrintLevels, Sound
  <2>. QED
    BY <1>2, <1>3, <1>4, <1>6, <1>7, <2>1, TakesNext
<1>8. CASE ~(indent < 0)
  <2>. DEFINE levels == [i \in 1 .. indent |-> Level]
  <2>1. levels \in Seq(Token)
    <3>1. Level \in Token
      BY FixedTokens, Zenon
    <3>. QED
      BY <1>5, <1>8, <3>1
  <2>2. Write(levels) /\ out' = out \o levels
    BY <1>8 DEF PrintLevels, Write
  <2>3. Written(Sound \o levels, m)
    BY <1>3, <1>4, <1>5, <1>8
  <2>. HIDE DEF levels
  <2>4. stray' \subseteq 1 .. Len(out')
    <3>1. Len(out') = Len(out) + Len(levels) /\ Len(out) \in Nat /\ Len(levels) \in Nat
      BY <1>5, <2>1, <2>2
    <3>. QED
      BY <1>5, <1>6, <3>1
  <2>5. Books' /\ status' # "done"
    BY <1>1, <1>5, <1>6, <2>1, <2>2, <2>4, BooksWrite
  <2>6. Sound' = Sound \o levels
    BY <1>5, <1>6, <2>1, <2>2, SoundGrows
  <2>. QED
    BY <1>2, <1>3, <1>4, <1>6, <2>3, <2>5, <2>6, TakesNext
<1>. QED
  BY <1>7, <1>8

-----------------------------------------------------------------------------
(* The handlers of the nodes keep it.                                      *)

\* Tasks that keep the layouts in which a node is generated.
Neutral(tasks) ==
  \A owed \in Dues, depth \in Nat : Reaches(At(owed, depth, "open"), tasks, At(owed, depth, "open"))

\* What there is to visit.
LEMMA Visited ==
  ASSUME GenInv, Doing("generate")
  PROVE  /\ Here.type # "ROOT" => Here \in Nodes
         /\ Here.type = "ROOT" => Here \in Programs
<1>1. todo # <<>> /\ Head(todo).do = "generate"
  BY DEF Doing
<1>2. PICK task \in Task, q, m \in Layout, r \in Ends : Takes(task, q, m, r)
  BY <1>1, TakesOne
<1>3. task.node \in Walked /\ Here = task.node
  BY <1>1, <1>2 DEF Takes, Task, Here
<1>4. Here \in Nodes \/ Here \in Programs
  BY <1>3 DEF Walked
<1>. QED
  BY <1>4, NodesAssumption, ProgramsAssumption, Zenon

\* A visit that leaves neutral tasks.
LEMMA VisitKeeps ==
  ASSUME GenInv, NEW type, type # "ROOT", NEW tasks, Visit(type, tasks), Neutral(tasks)
  PROVE  GenInv'
<1>1. /\ status = "running" /\ todo # <<>> /\ Head(todo).do = "generate" /\ Here.type # "ROOT"
      /\ Doing("generate")
  BY DEF Visit, Visits, Doing
<1>2. PICK task \in Task, q, m \in Layout, r \in Ends : Takes(task, q, m, r)
  BY <1>1, TakesOne
<1>3. task = Head(todo) /\ Written(Sound, q) /\ indent = IndentOf(q) /\ Goes(q, task, m) /\ Reaches(m, Tail(todo), r)
  BY <1>2 DEF Takes
<1>4. task.node \in Nodes
  BY <1>1, <1>3, Visited DEF Here
<1>5. m = q /\ q = At(q.owed, q.depth, "open")
  BY <1>1, <1>3, <1>4, GoesThrough
<1>6. q.owed \in Dues /\ q.depth \in Nat
  BY DEF Layout
<1>7. Reaches(q, tasks, q)
  BY <1>5, <1>6 DEF Neutral
<1>8. Reaches(q, todo', r)
  <2>1. Reaches(q, tasks \o Tail(todo), r)
    BY <1>3, <1>5, <1>7, ReachesConcat
  <2>. QED
    BY <2>1 DEF Visit, Instead
<1>9. Follows(q, r)' /\ Books' /\ status' # "done"
  BY <1>1, <1>3, <1>8 DEF Visit, Follows, GenInv, Books, Sound
<1>. QED
  BY <1>9 DEF GenInv

\* No tasks, and one node to generate, are neutral.
LEMMA NeutralShort ==
  Neutral(<<>>) /\ \A node \in Nodes : Neutral(<<Gen(node)>>)
<1>1. \A owed \in Dues, depth \in Nat : At(owed, depth, "open") \in Layout
  BY DEF At, Layout, Lines
<1>2. Neutral(<<>>)
  BY <1>1, ReachesShort DEF Neutral
<1>3. ASSUME NEW node \in Nodes
      PROVE  Neutral(<<Gen(node)>>)
  BY SilentGo DEF Neutral
<1>. QED
  BY <1>2, <1>3

\* Texts with a name in it are.
LEMMA NeutralNames ==
  ASSUME NEW name \in Common
  PROVE  /\ Neutral(<<Put(<<name>>)>>)
         /\ Neutral(<<Put(<<"_", name>>)>>)
         /\ Neutral(<<Put(<<"private ", "_", name>>)>>)
         /\ Neutral(<<Put(<<"\"", name, "\"">>)>>)
<1>1. ASSUME NEW owed \in Dues, NEW depth \in Nat
      PROVE  LET open == At(owed, depth, "open") IN
             /\ Reaches(open, <<Put(<<name>>)>>, open)
             /\ Reaches(open, <<Put(<<"_", name>>)>>, open)
             /\ Reaches(open, <<Put(<<"private ", "_", name>>)>>, open)
             /\ Reaches(open, <<Put(<<"\"", name, "\"">>)>>, open)
  BY NameGoes, Zenon
<1>. QED
  BY <1>1, Zenon DEF Neutral

\* The tasks of each kind of node are neutral.
LEMMA NeutralTasks ==
  ASSUME NEW node \in Nodes
  PROVE  /\ Neutral(<<Put(<<"private ", "_", node.name>>), Put(<<" = ", "{", "\n">>)>>
                      \o Params(node.args) \o <<Put(<<";">>)>> \o List(node.body) \o <<Put(<<"}">>)>>)
         /\ Neutral(ArrayOf(node.args) \o <<Put(<<" call ", "_", node.name>>)>>)
         /\ \A l, r \in Nodes :
              /\ Neutral(<<Gen(l), Put(<<" ", node.name, " ">>), Gen(r)>>)
              /\ Neutral(<<Put(<<"(">>)>> \o <<Gen(l), Put(<<" ", node.name, " ">>), Gen(r)>> \o <<Put(<<")">>)>>)
         /\ \A l \in Nodes : Neutral(<<Put(<<node.name>>), Gen(l)>>)
<1>1. Neutral(<<Put(<<"private ", "_", node.name>>), Put(<<" = ", "{", "\n">>)>>
                \o Params(node.args) \o <<Put(<<";">>)>> \o List(node.body) \o <<Put(<<"}">>)>>)
  BY FunctionReaches, Zenon DEF Neutral
<1>2. Neutral(ArrayOf(node.args) \o <<Put(<<" call ", "_", node.name>>)>>)
  BY CallReaches, Zenon DEF Neutral
<1>3. node.name \in Common
  BY NodeFacts
<1>4. ASSUME NEW l \in Nodes, NEW r \in Nodes
      PROVE  /\ Neutral(<<Gen(l), Put(<<" ", node.name, " ">>), Gen(r)>>)
             /\ Neutral(<<Put(<<"(">>)>> \o <<Gen(l), Put(<<" ", node.name, " ">>), Gen(r)>> \o <<Put(<<")">>)>>)
             /\ Neutral(<<Put(<<node.name>>), Gen(l)>>)
  <2>1. ASSUME NEW owed \in Dues, NEW depth \in Nat
        PROVE  LET open == At(owed, depth, "open") IN
               /\ Reaches(open, <<Gen(l), Put(<<" ", node.name, " ">>), Gen(r)>>, open)
               /\ Reaches(open, <<Put(<<"(">>)>> \o <<Gen(l), Put(<<" ", node.name, " ">>), Gen(r)>> \o <<Put(<<")">>)>>, open)
               /\ Reaches(open, <<Put(<<node.name>>), Gen(l)>>, open)
    BY <1>3, OperandsReach, Zenon
  <2>. QED
    BY <2>1, Zenon DEF Neutral
<1>. QED
  BY <1>1, <1>2, <1>4, Zenon

\* The handlers of all nodes below a root.
LEMMA HandlersKeep ==
  ASSUME GenInv,
         \/ GenKeyword \/ GenVariable \/ GenFunction \/ GenIdentifier \/ GenConstant
         \/ GenCall \/ GenNothing \/ GenOperation \/ GenAssignment
  PROVE  GenInv'
<1>1. CASE GenKeyword
  <2>1. PICK tasks : /\ Visit("KEYWORD", tasks)
                     /\ tasks = IF Here.name = "return" /\ Here.args # <<>> THEN <<Gen(Here.args[1])>> ELSE <<>>
    BY <1>1, Zenon DEF GenKeyword
  <2>2. Here.type = "KEYWORD" /\ Doing("generate")
    BY <2>1 DEF Visit, Visits
  <2>3. Here \in Nodes
    BY <2>2, Visited
  <2>4. Here.args # <<>> => Here.args[1] \in Nodes
    <3>1. Here.args \in Seq(Nodes)
      BY <2>3, NodeFacts
    <3>. QED
      BY <3>1
  <2>5. Neutral(tasks)
    BY <2>1, <2>4, NeutralShort, Zenon
  <2>6. "KEYWORD" # "ROOT"
    OBVIOUS
  <2>. QED
    BY <2>1, <2>5, <2>6, VisitKeeps
<1>2. CASE GenVariable
  <2>1. PICK tasks : Visit("DECL_VARIABLE", tasks) /\ tasks = <<Put(<<"private ", "_", Here.name>>)>>
    BY <1>2, Zenon DEF GenVariable
  <2>2. Here.type = "DECL_VARIABLE" /\ Doing("generate")
    BY <2>1, Zenon DEF Visit, Visits
  <2>3. Here.name \in Common
    BY <2>2, Visited, NodeFacts
  <2>4. Neutral(tasks)
    BY <2>1, <2>3, NeutralNames, Zenon
  <2>5. Visit("DECL_VARIABLE", tasks) /\ "DECL_VARIABLE" # "ROOT"
    BY <2>1, Zenon
  <2>. QED
    BY <2>4, <2>5, VisitKeeps
<1>3. CASE GenFunction
  <2>1. PICK tasks : /\ Visit("DECL_FUNCTION", tasks)
                     /\ tasks = <<Put(<<"private ", "_", Here.name>>), Put(<<" = ", "{", "\n">>)>>
                                  \o Params(Here.args) \o <<Put(<<";">>)>> \o List(Here.body) \o <<Put(<<"}">>)>>
    BY <1>3, Zenon DEF GenFunction
  <2>2. Here.type = "DECL_FUNCTION" /\ Doing("generate")
    BY <2>1, Zenon DEF Visit, Visits
  <2>3. Here \in Nodes
    BY <2>2, Visited
  <2>4. Neutral(tasks)
    BY <2>1, <2>3, NeutralTasks, Zenon
  <2>5. Visit("DECL_FUNCTION", tasks) /\ "DECL_FUNCTION" # "ROOT"
    BY <2>1, Zenon
  <2>. QED
    BY <2>4, <2>5, VisitKeeps
<1>4. CASE GenIdentifier
  <2>1. PICK tasks : Visit("IDENTIFIER", tasks) /\ tasks = <<Put(<<"_", Here.name>>)>>
    BY <1>4, Zenon DEF GenIdentifier
  <2>2. Here.type = "IDENTIFIER" /\ Doing("generate")
    BY <2>1, Zenon DEF Visit, Visits
  <2>3. Here.name \in Common
    BY <2>2, Visited, NodeFacts
  <2>4. Neutral(tasks)
    BY <2>1, <2>3, NeutralNames, Zenon
  <2>5. Visit("IDENTIFIER", tasks) /\ "IDENTIFIER" # "ROOT"
    BY <2>1, Zenon
  <2>. QED
    BY <2>4, <2>5, VisitKeeps
<1>5. CASE GenConstant
  <2>1. PICK tasks : /\ Visit("CONSTANT", tasks)
                     /\ tasks = <<Put(IF Here.info = "string" THEN <<"\"", Here.name, "\"">> ELSE <<Here.name>>)>>
    BY <1>5, Zenon DEF GenConstant
  <2>2. Here.type = "CONSTANT" /\ Doing("generate")
    BY <2>1, Zenon DEF Visit, Visits
  <2>3. Here.name \in Common
    BY <2>2, Visited, NodeFacts
  <2>4. tasks = <<Put(<<"\"", Here.name, "\"">>)>> \/ tasks = <<Put(<<Here.name>>)>>
    BY <2>1, Zenon
  <2>5. Neutral(tasks)
    BY <2>3, <2>4, NeutralNames, Zenon
  <2>6. Visit("CONSTANT", tasks) /\ "CONSTANT" # "ROOT"
    BY <2>1, Zenon
  <2>. QED
    BY <2>5, <2>6, VisitKeeps
<1>6. CASE GenCall
  <2>1. PICK tasks : /\ Visit("FUNCTION_CALL", tasks)
                     /\ tasks = ArrayOf(Here.args) \o <<Put(<<" call ", "_", Here.name>>)>>
    BY <1>6, Zenon DEF GenCall
  <2>2. Here.type = "FUNCTION_CALL" /\ Doing("generate")
    BY <2>1, Zenon DEF Visit, Visits
  <2>3. Here \in Nodes
    BY <2>2, Visited
  <2>4. Neutral(tasks)
    BY <2>1, <2>3, NeutralTasks, Zenon
  <2>5. Visit("FUNCTION_CALL", tasks) /\ "FUNCTION_CALL" # "ROOT"
    BY <2>1, Zenon
  <2>. QED
    BY <2>4, <2>5, VisitKeeps
<1>7. CASE GenNothing
  <2>1. Visit("EXPRESSION", <<>>) /\ "EXPRESSION" # "ROOT"
    BY <1>7, Zenon DEF GenNothing
  <2>. QED
    BY <2>1, NeutralShort, VisitKeeps
<1>8. CASE GenOperation
  <2>1. PICK tasks :
          /\ Visit("EXPRESSION", tasks)
          /\ tasks = IF Here.name \in UnaryOperators
                     THEN <<Put(<<Here.name>>), Gen(Here.operands[1])>>
                     ELSE <<Put(<<"(">>)>> \o Operands(Here.name) \o <<Put(<<")">>)>>
    BY <1>8, Zenon DEF GenOperation
  <2>2. Here.type = "EXPRESSION" /\ Doing("generate")
    BY <2>1, Zenon DEF Visit, Visits
  <2>3. Here \in Nodes
    BY <2>2, Visited
  <2>4. Here.operands[1] \in Nodes /\ (Here.name \notin UnaryOperators => Here.operands[2] \in Nodes)
    BY <2>2, <2>3, NodeFacts
  <2>5. Neutral(tasks)
    <3>1. CASE Here.name \in UnaryOperators
      BY <2>1, <2>3, <2>4, <3>1, NeutralTasks, Zenon
    <3>2. CASE Here.name \notin UnaryOperators
      BY <2>1, <2>3, <2>4, <3>2, NeutralTasks, Zenon DEF Operands
    <3>. QED
      BY <3>1, <3>2, Zenon
  <2>6. Visit("EXPRESSION", tasks) /\ "EXPRESSION" # "ROOT"
    BY <2>1, Zenon
  <2>. QED
    BY <2>5, <2>6, VisitKeeps
<1>9. CASE GenAssignment
  <2>1. PICK tasks : Visit("EXPRESSION", tasks) /\ (tasks = Operands("=") \/ tasks = <<>>)
    BY <1>9, Zenon DEF GenAssignment
  <2>2. Here.type = "EXPRESSION" /\ Here.name = "=" /\ Doing("generate")
    BY <1>9, Zenon DEF GenAssignment, IsAssignment, IsExpression
  <2>3. Here \in Nodes /\ Here.name \notin UnaryOperators
    <3>1. Here.name \notin UnaryOperators
      BY <2>2, Zenon DEF UnaryOperators
    <3>2. Here \in Nodes
      BY <2>2, Visited
    <3>. QED
      BY <3>1, <3>2
  <2>4. Here.operands[1] \in Nodes /\ Here.operands[2] \in Nodes
    BY <2>2, <2>3, NodeFacts
  <2>5. Neutral(tasks)
    <3>1. Neutral(<<Gen(Here.operands[1]), Put(<<" ", Here.name, " ">>), Gen(Here.operands[2])>>)
      BY <2>3, <2>4, NeutralTasks, Zenon
    <3>2. Neutral(Operands("="))
      BY <2>2, <3>1, Zenon DEF Operands
    <3>. QED
      BY <2>1, <3>2, NeutralShort, Zenon
  <2>6. Visit("EXPRESSION", tasks) /\ "EXPRESSION" # "ROOT"
    BY <2>1, Zenon
  <2>. QED
    BY <2>5, <2>6, VisitKeeps
<1>. QED
  BY <1>1, <1>2, <1>3, <1>4, <1>5, <1>6, <1>7, <1>8, <1>9, Zenon

\* The handler of the root.
LEMMA GenBlockKeeps ==
  ASSUME GenInv, GenBlock
  PROVE  GenInv'
<1>1. /\ status = "running" /\ todo # <<>> /\ Head(todo).do = "generate" /\ Here.type = "ROOT"
      /\ Doing("generate")
  BY DEF GenBlock, Visit, Visits, Doing
<1>2. PICK task \in Task, q, m \in Layout, r \in Ends : Takes(task, q, m, r)
  BY <1>1, TakesOne
<1>3. task = Head(todo) /\ Written(Sound, q) /\ indent = IndentOf(q) /\ Goes(q, task, m) /\ Reaches(m, Tail(todo), r)
  BY <1>2 DEF Takes
<1>4. Here \in Programs /\ Here \notin Nodes /\ task.node = Here /\ Here.body \in Seq(Nodes)
  <2>1. Here \in Programs
    BY <1>1, Visited
  <2>2. Here \notin Nodes
    BY <1>1, NodesAssumption, Zenon
  <2>3. Here.body \in Seq(Nodes)
    BY <2>1, ProgramsAssumption DEF IsNodeOver
  <2>. QED
    BY <1>3, <2>1, <2>2, <2>3 DEF Here
<1>5. /\ q.depth = 0 /\ m.depth = q.depth + 0 /\ q.line = "headed"
      /\ m.line = IF Here.body = <<>> THEN "headed" ELSE "close"
  <2>1. /\ q.depth = 0
        /\ Turns(q, m, IF Here.body = <<>> THEN {<<"headed", "headed">>} ELSE {<<"headed", "close">>}, 0)
    BY <1>1, <1>3, <1>4 DEF Goes
  <2>. QED
    BY <2>1 DEF Turns
<1>6. q.owed \in Dues /\ q.depth \in Nat
  BY DEF Layout
<1>7. m.owed = q.owed
  <2>1. m.owed = Owing(q.owed, <<>>)
    BY <1>1, <1>3 DEF Goes, TextOf
  <2>. QED
    BY <1>6, <2>1, OwingShort
<1>8. q = At(q.owed, q.depth, "headed") /\ m = At(q.owed, q.depth, IF Here.body = <<>> THEN "headed" ELSE "close")
  BY <1>5, <1>7 DEF At, Layout
<1>9. Reaches(q, List(Here.body), m)
  <2>1. Reaches(At(q.owed, q.depth, "headed"), List(Here.body),
                At(q.owed, q.depth, IF Here.body = <<>> THEN "headed" ELSE "close"))
    BY <1>4, <1>6, ListReaches
  <2>. QED
    BY <1>8, <2>1
<1>10. Reaches(q, todo', r)
  <2>1. Reaches(q, List(Here.body) \o Tail(todo), r)
    BY <1>3, <1>9, ReachesConcat
  <2>. QED
    BY <2>1 DEF GenBlock, Visit, Instead
<1>11. Follows(q, r)' /\ Books' /\ status' # "done"
  BY <1>1, <1>3, <1>10 DEF GenBlock, Visit, Follows, GenInv, Books, Sound
<1>. QED
  BY <1>11 DEF GenInv

\* An assignment to a member: the parenthesis is stray.
LEMMA GenMemberAssignmentKeeps ==
  ASSUME GenInv, GenMemberAssignment
  PROVE  GenInv'
<1>1. /\ status = "running" /\ todo # <<>> /\ Head(todo).do = "generate" /\ Here.type = "EXPRESSION"
      /\ Doing("generate")
  BY DEF GenMemberAssignment, IsAssignment, IsExpression, Doing
<1>2. PICK task \in Task, q, m \in Layout, r \in Ends : Takes(task, q, m, r)
  BY <1>1, TakesOne
<1>3. task = Head(todo) /\ Written(Sound, q) /\ indent = IndentOf(q) /\ Goes(q, task, m) /\ Reaches(m, Tail(todo), r)
  BY <1>2 DEF Takes
<1>4. Here \in Nodes /\ task.node = Here
  BY <1>1, <1>3, Visited DEF Here
<1>5. m = q /\ q = At(q.owed, q.depth, "open")
  BY <1>1, <1>3, <1>4, GoesThrough
<1>6. q.owed \in Dues /\ q.depth \in Nat
  BY DEF Layout
<1>7. Target \in Nodes
  BY <1>1, <1>4, NodeFacts DEF Target
<1>8. Reaches(q, <<Gen(Target)>>, q)
  BY <1>5, <1>6, <1>7, NeutralShort DEF Neutral
<1>9. Reaches(q, todo', r)
  <2>1. Reaches(q, <<Gen(Target)>> \o Tail(todo), r)
    BY <1>3, <1>5, <1>8, ReachesConcat
  <2>. QED
    BY <2>1, Zenon DEF GenMemberAssignment, Instead
<1>10. PICK text \in Seq(Token) : text = <<"(">> /\ Len(text) = 1
  <2>1. PICK t : t = "(" /\ t \in Token
    <3>1. "(" \in Token
      BY FixedTokens, Zenon DEF Inert
    <3>. QED
      BY <3>1, Zenon
  <2>2. <<t>> \in Seq(Token) /\ Len(<<t>>) = 1
    <3>1. t \in Token
      BY <2>1, Zenon
    <3>. QED
      BY <3>1
  <2>. QED
    BY <2>1, <2>2, Zenon
<1>11. /\ Write(text) /\ stray' = stray \cup {Len(out) + 1}
       /\ program' = program /\ indent' = indent
  BY <1>10, Zenon DEF GenMemberAssignment
<1>12. Books /\ out \in Seq(Token) /\ stray \subseteq 1 .. Len(out) /\ Len(out) \in Nat /\ Len(text) = 1
  <2>1. Books
    BY DEF GenInv
  <2>2. out \in Seq(Token) /\ stray \subseteq 1 .. Len(out)
    BY <2>1 DEF Books
  <2>3. Len(text) = 1
    BY <1>10, Zenon
  <2>. QED
    BY <2>1, <2>2, <2>3
<1>13. out' = out \o text
  BY <1>11 DEF Write
<1>14. stray' = stray \cup (Len(out) + 1 .. Len(out) + Len(text)) /\ stray' \subseteq 1 .. Len(out')
  <2>1. Len(out') = Len(out) + 1
    <3>1. out \in Seq(Token) /\ text \in Seq(Token)
      BY <1>12
    <3>2. Len(out \o text) = Len(out) + Len(text)
      BY <3>1
    <3>. QED
      BY <1>12, <1>13, <3>2
  <2>2. {Len(out) + 1} = Len(out) + 1 .. Len(out) + Len(text)
    BY <1>12
  <2>3. stray' = stray \cup (Len(out) + 1 .. Len(out) + Len(text))
    BY <1>11, <2>2
  <2>4. stray \subseteq 1 .. Len(out) /\ Len(out) \in Nat
    BY <1>12
  <2>. QED
    BY <1>11, <2>1, <2>3, <2>4
<1>15. Books' /\ status' # "done"
  BY <1>1, <1>11, <1>12, <1>14, BooksWrite
<1>16. Sound' = Sound
  BY <1>12, <1>13, <1>14, SoundGrows
<1>17. Follows(q, r)'
  BY <1>3, <1>9, <1>11, <1>16 DEF Follows
<1>. QED
  BY <1>15, <1>17 DEF GenInv

-----------------------------------------------------------------------------
(* The theorems.                                                           *)

\* The layout before the program, and the one behind it.
LEMMA InitGenInv ==
  ASSUME Init
  PROVE  GenInv
<1>1. /\ program \in Programs /\ todo = <<Gen(program)>> /\ out = <<>> /\ used = 0
      /\ indent = -1 /\ stray = {} /\ status = "running"
  BY DEF Init
<1>2. PICK none \in Seq(Token) : none = <<>> /\ Len(none) = 0
  <2>1. <<>> \in Seq(Token) /\ Len(<<>>) = 0
    OBVIOUS
  <2>. QED
    BY <2>1, Zenon
<1>3. Books
  <2>1. WidthOf(<<>>) = 0
    BY Widths
  <2>2. BufSize \in Nat \ {0}
    BY BufSizeAssumption
  <2>3. out \in Seq(Token) /\ stray \subseteq 1 .. Len(out)
    BY <1>1, <1>2
  <2>. QED
    BY <1>1, <2>1, <2>2, <2>3 DEF Books
<1>. DEFINE q == At(<<>>, 0, "headed")
            r == At(<<>>, 0, IF program.body = <<>> THEN "headed" ELSE "close")
<1>4. q \in Layout /\ r \in Layout /\ r \in Ends
  BY DEF At, Layout, Lines, Dues, Ends
<1>5. Reaches(q, todo, r)
  <2>1. Gen(program) \in Task /\ TextOf(Gen(program)) = <<>>
    BY <1>1, TaskKinds DEF Walked
  <2>2. Gen(program).do = "generate" /\ Gen(program).node = program
    BY DEF Gen
  <2>3. Owing(<<>>, <<>>) = <<>>
    <3>1. <<>> \in Dues
      BY DEF Dues
    <3>. QED
      BY <3>1, OwingShort
  <2>4. /\ q.owed = <<>> /\ q.depth = 0 /\ q.line = "headed"
        /\ r.owed = <<>> /\ r.depth = 0 /\ r.line = IF program.body = <<>> THEN "headed" ELSE "close"
    BY DEF At
  <2>. HIDE DEF q, r
  <2>5. r.owed = Owing(q.owed, TextOf(Gen(program)))
    BY <2>1, <2>3, <2>4
  <2>6. Turns(q, r, IF program.body = <<>> THEN {<<"headed", "headed">>} ELSE {<<"headed", "close">>}, 0)
    BY <2>4 DEF Turns
  <2>7. Goes(q, Gen(program), r)
    BY <1>1, <2>2, <2>4, <2>5, <2>6 DEF Goes
  <2>. QED
    BY <1>1, <1>4, <2>1, <2>7, ReachesShort
<1>6. Written(Sound, q)
  <2>1. Sound = none
    BY <1>1, <1>2, WithoutNone DEF Sound
  <2>2. Owing(<<>>, none) = <<>>
    <3>1. <<>> \in Dues
      BY DEF Dues
    <3>. QED
      BY <1>2, <3>1, OwingShort
  <2>3. SumOf(Braces, none) = 0
    <3>1. Braces \in [Token -> Int]
      BY BraceWeights, Zenon
    <3>. QED
      BY <1>2, <3>1, SumAppend
  <2>4. \A i : i \notin 1 .. Len(none)
    BY <1>2
  <2>5. Indented(none)
    BY <2>4, IndentedMeans
  <2>6. Neat(none, 0, -1)
    BY <2>3, <2>4, <2>5 DEF Neat
  <2>7. q.depth = 0 /\ q.owed = <<>> /\ -1 \in Left(q)
    BY DEF At, Left
  <2>. QED
    BY <2>1, <2>2, <2>6, <2>7 DEF Written
<1>7. indent = IndentOf(q)
  BY <1>1 DEF At, IndentOf
<1>. QED
  BY <1>1, <1>3, <1>4, <1>5, <1>6, <1>7 DEF GenInv, Follows

\* Every step keeps the invariant.
LEMMA NextGenInv ==
  ASSUME GenInv, [Next]_vars
  PROVE  GenInv'
<1>1. CASE PutText
  BY <1>1, PutTextKeeps
<1>2. CASE PutParam
  BY <1>2, PutParamKeeps
<1>3. CASE ChangeIndent
  BY <1>3, ChangeIndentKeeps
<1>4. CASE PrintLevels
  BY <1>4, PrintLevelsKeeps
<1>5. CASE GenBlock
  BY <1>5, GenBlockKeeps
<1>6. CASE \/ GenKeyword \/ GenVariable \/ GenFunction \/ GenIdentifier \/ GenConstant
           \/ GenCall \/ GenNothing \/ GenOperation \/ GenAssignment
  BY <1>6, HandlersKeep
<1>7. CASE GenMemberAssignment
  BY <1>7, GenMemberAssignmentKeeps
<1>8. PICK q \in Layout, r \in Ends : Follows(q, r)
  BY DEF GenInv
<1>9. CASE GenUnknown
  <2>1. /\ status = "running" /\ status' = "exit"
        /\ UNCHANGED <<program, todo, out, used, indent, stray>>
    BY <1>9 DEF GenUnknown, Visits, Doing
  <2>. QED
    BY <1>8, <2>1 DEF GenInv, Books, Follows, Sound
<1>10. CASE Return
  <2>1. /\ status = "running" /\ status' = "done" /\ todo = <<>>
        /\ UNCHANGED <<program, todo, out, used, indent, stray>>
    BY <1>10 DEF Return
  <2>. QED
    BY <1>8, <2>1 DEF GenInv, Books, Follows, Sound
<1>11. CASE UNCHANGED vars
  BY <1>8, <1>11 DEF GenInv, Books, Follows, Sound, vars
<1>. QED
  BY <1>1, <1>2, <1>3, <1>4, <1>5, <1>6, <1>7, <1>9, <1>10, <1>11 DEF Next, Over

\* The invariant holds in every state.
LEMMA AlwaysGenInv ==
  Spec => []GenInv
<1>1. Init => GenInv
  BY InitGenInv
<1>2. GenInv /\ [Next]_vars => GenInv'
  BY NextGenInv
<1>. QED
  BY <1>1, <1>2, PTL DEF Spec

\* The counter of the buffer is the length of what it holds, and the call has
\* overrun the buffer exactly if that is too long; gen->indent never falls below
\* -1 nor rises above the number of tokens, and is -1 again at the end.
THEOREM TypeCorrect ==
  Spec => []TypeOK
<1>1. ASSUME GenInv
      PROVE  TypeOK
  <2>1. PICK q \in Layout, r \in Ends : Follows(q, r)
    BY <1>1 DEF GenInv
  <2>2. Books /\ (status = "done" => todo = <<>>)
    BY <1>1 DEF GenInv
  <2>3. /\ out \in Seq(Token) /\ stray \subseteq 1 .. Len(out) /\ Len(out) \in Nat
        /\ DOMAIN out = 1 .. Len(out)
    BY <2>2 DEF Books
  <2>4. q.depth \in Nat /\ q.depth = SumOf(Braces, Sound) /\ Sound \in Seq(Token)
    BY <2>1 DEF Follows, Written, Neat, Layout
  <2>5. q.depth <= Len(out)
    <3>1. SumOf(Braces, Sound) <= Len(Sound)
      BY <2>4, DepthAtMost
    <3>2. Len(Sound) <= Len(out)
      BY <2>3, WithoutLen DEF Sound
    <3>3. Len(Sound) \in Nat
      BY <2>4
    <3>. QED
      BY <2>3, <2>4, <3>1, <3>2, <3>3
  <2>6. indent \in -1 .. Len(out)
    <3>1. indent = IndentOf(q)
      BY <2>1 DEF Follows
    <3>. QED
      BY <2>3, <2>4, <2>5, <3>1 DEF IndentOf
  <2>7. ASSUME status = "done"
        PROVE  todo = <<>> /\ indent = -1
    <3>1. todo = <<>>
      BY <2>2, <2>7
    <3>2. q = r
      BY <2>1, <3>1, ReachesShort DEF Follows
    <3>3. q.depth = 0 /\ q.line \in {"headed", "close"}
      BY <3>2 DEF Ends
    <3>. QED
      BY <2>1, <3>1, <3>3 DEF Follows, IndentOf
  <2>. QED
    BY <2>2, <2>3, <2>6, <2>7 DEF Books, TypeOK
<1>2. GenInv => TypeOK
  BY <1>1
<1>. QED
  BY <1>2, AlwaysGenInv, PTL

\* The text written and the text the active calls hold back close every bracket,
\* each by its own kind: no handler returns with a bracket open or closes one of
\* its caller's.
THEOREM BracketsAlwaysNest ==
  Spec => []BracketsNest
<1>1. ASSUME GenInv
      PROVE  BracketsNest
  <2>1. PICK q \in Layout, r \in Ends : Follows(q, r)
    BY <1>1 DEF GenInv
  <2>2. todo \in Seq(Task) /\ Reaches(q, todo, r)
    BY <2>1 DEF Follows, Reaches
  <2>3. Owing(q.owed, Texts(todo)) = r.owed
    BY <2>2, ReachesOwes
  <2>4. Texts(todo) \in Seq(Token)
    BY <2>2, TextsConcat
  <2>5. Sound \in Seq(Token) /\ Owing(<<>>, Sound) = q.owed
    BY <2>1 DEF Follows, Written, Neat
  <2>6. Owing(<<>>, Sound \o Texts(todo)) = Owing(q.owed, Texts(todo))
    BY <2>4, <2>5, OwesMore
  <2>7. r.owed = <<>> /\ Pending = Texts(todo)
    BY DEF Ends, Pending, Texts
  <2>. QED
    BY <2>3, <2>6, <2>7 DEF BracketsNest, Balanced
<1>2. GenInv => BracketsNest
  BY <1>1
<1>. QED
  BY <1>2, AlwaysGenInv, PTL

\* Each line of the output is indented by the braces that are open around it, for
\* every tree: functions in functions, in arguments and in operands.
THEOREM IndentIsAlwaysNesting ==
  Spec => []IndentIsNesting
<1>1. ASSUME GenInv
      PROVE  IndentIsNesting
  <2>1. PICK q \in Layout, r \in Ends : Follows(q, r)
    BY <1>1 DEF GenInv
  <2>. QED
    BY <2>1 DEF Follows, Written, Neat, IndentIsNesting
<1>2. GenInv => IndentIsNesting
  BY <1>1
<1>. QED
  BY <1>2, AlwaysGenInv, PTL

=============================================================================
