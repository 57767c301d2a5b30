---------------------------- MODULE SequenceLemmas ----------------------------
(***************************************************************************)
(* Facts about sequences, the brackets in them, functions over the nodes of *)
(* a tree and lists of steps that the proofs of several components need.   *)
(***************************************************************************)

EXTENDS Integers, Brackets, SequencesExt, SequenceTheorems, WellFoundedInduction, TLAPS

\* Induction over the numbers, for a set of them: the least number that is not
\* in it would be the successor of one that is.
LEMMA SetInduction ==
  ASSUME NEW S, 0 \in S, \A n \in Nat : n \in S => n + 1 \in S
  PROVE  Nat \subseteq S
<1>. DEFINE others == Nat \ S
<1>1. IsWellFoundedOn({p \in Nat \X Nat : p[1] < p[2]}, Nat)
  BY NatLessThanWellFounded DEF OpToRel
<1>2. CASE others # {}
  <2>1. PICK n \in others : \A m \in others : <<m, n>> \notin {p \in Nat \X Nat : p[1] < p[2]}
    BY <1>1, <1>2, WFMin
  <2>2. n \in Nat \ {0} /\ n - 1 \in Nat /\ n - 1 < n
    BY <2>1
  <2>3. n - 1 \notin others
    BY <2>1, <2>2
  <2>4. (n - 1) + 1 \in S
    BY <2>2, <2>3
  <2>. QED
    BY <2>2, <2>4
<1>. QED
  BY <1>2

\* Reversing keeps the type and the length, and mirrors the indices.
LEMMA ReverseProperties ==
  ASSUME NEW S, NEW s \in Seq(S)
  PROVE  /\ Reverse(s) \in Seq(S)
         /\ Len(Reverse(s)) = Len(s)
         /\ \A i \in 1 .. Len(s) : Reverse(s)[i] = s[Len(s) - i + 1]
<1>1. Reverse(s) = [i \in 1 .. Len(s) |-> s[Len(s) - i + 1]]
  BY DEF Reverse
<1>2. \A i \in 1 .. Len(s) : s[Len(s) - i + 1] \in S
  OBVIOUS
<1>3. Len(s) \in Nat
  OBVIOUS
<1>. HIDE DEF Reverse
<1>4. Reverse(s) \in Seq(S)
  BY <1>1, <1>2, <1>3, SMT
<1>. QED
  BY <1>1, <1>2, <1>3, <1>4

\* The first k elements of a sequence.
LEMMA LowestProperties ==
  ASSUME NEW S, NEW s \in Seq(S), NEW k \in 0 .. Len(s)
  PROVE  /\ SubSeq(s, 1, k) \in Seq(S)
         /\ Len(SubSeq(s, 1, k)) = k
         /\ \A i \in 1 .. k : SubSeq(s, 1, k)[i] = s[i]
BY SubSeqProperties

\* The elements behind the first k.
LEMMA UpperProperties ==
  ASSUME NEW S, NEW s \in Seq(S), NEW k \in 0 .. Len(s)
  PROVE  /\ SubSeq(s, k + 1, Len(s)) \in Seq(S)
         /\ Len(SubSeq(s, k + 1, Len(s))) = Len(s) - k
         /\ \A i \in 1 .. Len(s) - k : SubSeq(s, k + 1, Len(s))[i] = s[k + i]
<1>. DEFINE u == SubSeq(s, k + 1, Len(s))
<1>0. Len(s) \in Nat /\ k \in Nat /\ k <= Len(s)
  OBVIOUS
<1>1. \A i \in k + 1 .. Len(s) : s[i] \in S
  BY <1>0
<1>2. /\ u \in Seq(S)
      /\ Len(u) = IF k + 1 <= Len(s) THEN Len(s) - (k + 1) + 1 ELSE 0
      /\ \A i \in 1 .. Len(s) - (k + 1) + 1 : u[i] = s[(k + 1) + i - 1]
  BY <1>0, <1>1, SubSeqProperties
<1>. HIDE DEF u
<1>3. Len(u) = Len(s) - k
  BY <1>0, <1>2
<1>4. ASSUME NEW i \in 1 .. Len(s) - k
      PROVE  u[i] = s[k + i]
  <2>1. (k + 1) + i - 1 = k + i /\ Len(s) - (k + 1) + 1 = Len(s) - k
    BY <1>0
  <2>. QED
    BY <1>2, <2>1
<1>. QED
  BY <1>2, <1>3, <1>4 DEF u

\* A nonempty sequence is its last element behind the rest of it.
LEMMA FrontLast ==
  ASSUME NEW S, NEW s \in Seq(S), s # <<>>
  PROVE  /\ Front(s) \in Seq(S)
         /\ Last(s) \in S
         /\ Len(s) \in Nat \ {0}
         /\ Len(Front(s)) = Len(s) - 1
         /\ Last(s) = s[Len(s)]
         /\ \A i \in 1 .. Len(s) - 1 : Front(s)[i] = s[i]
<1>1. Len(s) \in Nat \ {0}
  BY EmptySeq
<1>2. Last(s) = s[Len(s)] /\ Last(s) \in S
  BY <1>1 DEF Last
<1>3. Len(s) - 1 \in 0 .. Len(s)
  BY <1>1
<1>4. /\ Front(s) \in Seq(S)
      /\ Len(Front(s)) = Len(s) - 1
      /\ \A i \in 1 .. Len(s) - 1 : Front(s)[i] = s[i]
  BY <1>3, LowestProperties DEF Front
<1>. QED
  BY <1>1, <1>2, <1>4

\* A sequence turned over behind another one.
LEMMA TurnedOver ==
  ASSUME NEW S, NEW s \in Seq(S), NEW t \in Seq(S)
  PROVE  /\ s \o Reverse(t) \in Seq(S)
         /\ Len(s \o Reverse(t)) = Len(s) + Len(t)
         /\ \A i \in 1 .. Len(s) : (s \o Reverse(t))[i] = s[i]
         /\ \A i \in 1 .. Len(t) : (s \o Reverse(t))[Len(s) + i] = t[Len(t) - i + 1]
<1>1. PICK r \in Seq(S) : /\ r = Reverse(t)
                          /\ Len(r) = Len(t)
                          /\ \A i \in 1 .. Len(t) : r[i] = t[Len(t) - i + 1]
  BY ReverseProperties
<1>2. /\ s \o r \in Seq(S)
      /\ Len(s \o r) = Len(s) + Len(r)
      /\ \A i \in 1 .. Len(s) + Len(r) :
           (s \o r)[i] = IF i <= Len(s) THEN s[i] ELSE r[i - Len(s)]
  BY ConcatProperties
<1>3. Len(s) \in Nat /\ Len(t) \in Nat
  OBVIOUS
<1>4. ASSUME NEW i \in 1 .. Len(t)
      PROVE  (s \o r)[Len(s) + i] = t[Len(t) - i + 1]
  <2>1. /\ Len(s) + i \in 1 .. Len(s) + Len(r)
        /\ ~(Len(s) + i <= Len(s))
        /\ (Len(s) + i) - Len(s) = i
    BY <1>1, <1>3
  <2>. QED
    BY <1>1, <1>2, <2>1
<1>5. \A i \in 1 .. Len(s) : (s \o r)[i] = s[i]
  BY <1>1, <1>2, <1>3
<1>. QED
  BY <1>1, <1>2, <1>4, <1>5

\* An element in front of a sequence.
LEMMA InFront ==
  ASSUME NEW S, NEW s \in Seq(S), NEW e \in S
  PROVE  /\ <<e>> \o s \in Seq(S)
         /\ Len(s) \in Nat /\ DOMAIN s = 1 .. Len(s)
         /\ Len(<<e>> \o s) = Len(s) + 1 /\ DOMAIN (<<e>> \o s) = 1 .. Len(s) + 1
         /\ (<<e>> \o s)[1] = e
         /\ \A i \in 1 .. Len(s) : (<<e>> \o s)[i + 1] = s[i]
         /\ \A i \in 2 .. Len(s) + 1 : (<<e>> \o s)[i] = s[i - 1] /\ i - 1 \in 1 .. Len(s)
<1>1. PICK one : one = <<e>> /\ one \in Seq(S) /\ Len(one) = 1 /\ one[1] = e
  <2>1. <<e>> \in Seq(S) /\ Len(<<e>>) = 1 /\ <<e>>[1] = e
    OBVIOUS
  <2>. QED
    BY <2>1
<1>2. PICK t : t = one \o s
  OBVIOUS
<1>3. /\ t \in Seq(S) /\ Len(t) = 1 + Len(s) /\ Len(s) \in Nat
      /\ \A i \in 1 .. 1 + Len(s) : t[i] = IF i <= 1 THEN one[i] ELSE s[i - 1]
  BY <1>1, <1>2, ConcatProperties
<1>4. DOMAIN t = 1 .. Len(s) + 1 /\ DOMAIN s = 1 .. Len(s) /\ t[1] = e
  BY <1>1, <1>3
<1>5. \A i \in 2 .. Len(s) + 1 : t[i] = s[i - 1] /\ i - 1 \in 1 .. Len(s)
  BY <1>3
<1>6. \A i \in 1 .. Len(s) : t[i + 1] = s[i]
  BY <1>3
<1>. QED
  BY <1>1, <1>2, <1>3, <1>4, <1>5, <1>6


\* Induction over the sequences, for a set of them.
LEMMA AppendInduction ==
  ASSUME NEW V, NEW S, <<>> \in S, \A s \in Seq(V) : \A e \in V : s \in S => Append(s, e) \in S
  PROVE  Seq(V) \subseteq S
<1>. DEFINE T == {n \in Nat : \A s \in Seq(V) : Len(s) = n => s \in S}
<1>1. 0 \in T
  BY EmptySeq
<1>2. ASSUME NEW n \in Nat, n \in T
      PROVE  n + 1 \in T
  <2>. SUFFICES ASSUME NEW s \in Seq(V), Len(s) = n + 1
                PROVE  s \in S
    OBVIOUS
  <2>1. s # <<>>
    OBVIOUS
  <2>2. /\ Front(s) \in Seq(V) /\ Last(s) \in V /\ Len(Front(s)) = n
        /\ Last(s) = s[n + 1] /\ \A i \in 1 .. n : Front(s)[i] = s[i]
    BY <2>1, FrontLast
  <2>3. PICK f \in Seq(V), e \in V : /\ Len(f) = n /\ e = s[n + 1]
                                     /\ \A i \in 1 .. n : f[i] = s[i]
    BY <2>2
  <2>4. Append(f, e) = s
    BY <2>3
  <2>5. Append(f, e) \in S
    BY <1>2, <2>3
  <2>. QED
    BY <2>4, <2>5
<1>. HIDE DEF T
<1>3. Nat \subseteq T
  BY <1>1, <1>2, SetInduction
<1>. QED
  BY <1>3 DEF T

\* A function on the numbers up to n, each value of which is a step from the
\* one before it.
StepsAlong(g, n, first, Steps) ==
  /\ DOMAIN g = 0 .. n
  /\ g[0] = first
  /\ \A i \in 1 .. n : g[i] = Steps[<<i, g[i - 1]>>]

\* There is one, by induction on the numbers.
LEMMA StepsExist ==
  ASSUME NEW V, NEW first \in V, NEW n \in Nat, NEW Steps \in [(1 .. n) \X V -> V]
  PROVE  \E g \in [0 .. n -> V] : StepsAlong(g, n, first, Steps)
<1>. DEFINE S == {k \in Nat : k <= n => \E g \in [0 .. k -> V] : StepsAlong(g, k, first, Steps)}
<1>1. 0 \in S
  <2>. DEFINE g == [i \in 0 .. 0 |-> first]
  <2>1. g \in [0 .. 0 -> V] /\ StepsAlong(g, 0, first, Steps)
    BY DEF StepsAlong
  <2>. QED
    BY <2>1
<1>2. ASSUME NEW k \in Nat, k \in S
      PROVE  k + 1 \in S
  <2>. SUFFICES ASSUME k + 1 <= n
                PROVE  \E g \in [0 .. k + 1 -> V] : StepsAlong(g, k + 1, first, Steps)
    OBVIOUS
  <2>1. PICK g \in [0 .. k -> V] : StepsAlong(g, k, first, Steps)
    BY <1>2
  <2>. DEFINE h == [i \in 0 .. k + 1 |-> IF i = k + 1 THEN Steps[<<k + 1, g[k]>>] ELSE g[i]]
  <2>2. k + 1 \in 1 .. n /\ g[k] \in V
    BY <2>1
  <2>3. Steps[<<k + 1, g[k]>>] \in V
    BY <2>2
  <2>4. h \in [0 .. k + 1 -> V]
    BY <2>1, <2>3
  <2>5. ASSUME NEW i \in 1 .. k + 1
        PROVE  h[i] = Steps[<<i, h[i - 1]>>]
    <3>1. CASE i = k + 1
      <4>1. h[i] = Steps[<<k + 1, g[k]>>] /\ i - 1 = k
        BY <3>1
      <4>2. h[k] = g[k]
        OBVIOUS
      <4>. QED
        BY <3>1, <4>1, <4>2
    <3>2. CASE i \in 1 .. k
      BY <2>1, <3>2 DEF StepsAlong
    <3>. QED
      BY <3>1, <3>2
  <2>6. h[0] = first
    BY <2>1 DEF StepsAlong
  <2>7. StepsAlong(h, k + 1, first, Steps)
    BY <2>4, <2>5, <2>6 DEF StepsAlong
  <2>. QED
    BY <2>4, <2>7
<1>. HIDE DEF S
<1>3. Nat \subseteq S
  BY <1>1, <1>2, SetInduction
<1>. QED
  BY <1>3 DEF S

-----------------------------------------------------------------------------
(* FlattenSeq.                                                             *)

\* The function whose last value FlattenSeq is.
Flattens(f, ss) ==
  /\ f[1] = ss[1]
  /\ \A i \in 2 .. Len(ss) : f[i] = f[i - 1] \o ss[i]

\* There is one, and FlattenSeq takes it.
LEMMA FlatExists ==
  ASSUME NEW V, NEW ss \in Seq(Seq(V)), Len(ss) > 0
  PROVE  \E f : f \in [1 .. Len(ss) -> Seq(V)] /\ Flattens(f, ss) /\ FlattenSeq(ss) = f[Len(ss)]
<1>. DEFINE n == Len(ss)
            Steps == [p \in (1 .. n) \X Seq(V) |-> IF p[1] = 1 THEN ss[1] ELSE p[2] \o ss[p[1]]]
            Is(f) == f = [i \in 1 .. n |-> IF i = 1 THEN ss[i] ELSE f[i - 1] \o ss[i]]
<1>1. n \in Nat \ {0} /\ 1 \in 1 .. n /\ \A i \in 1 .. n : ss[i] \in Seq(V)
  OBVIOUS
<1>. HIDE DEF n
<1>2. Steps \in [(1 .. n) \X Seq(V) -> Seq(V)]
  <2>1. ASSUME NEW p \in (1 .. n) \X Seq(V)
        PROVE  (IF p[1] = 1 THEN ss[1] ELSE p[2] \o ss[p[1]]) \in Seq(V)
    <3>1. p[1] \in 1 .. n /\ p[2] \in Seq(V)
      OBVIOUS
    <3>2. ss[1] \in Seq(V) /\ ss[p[1]] \in Seq(V)
      BY <1>1, <3>1
    <3>. QED
      BY <3>1, <3>2, ConcatProperties
  <2>. QED
    BY <2>1
<1>3. <<>> \in Seq(V)
  OBVIOUS
<1>4. PICK g \in [0 .. n -> Seq(V)] : StepsAlong(g, n, <<>>, Steps)
  <2>. HIDE DEF Steps
  <2>1. n \in Nat
    BY <1>1
  <2>. QED
    BY <1>2, <1>3, <2>1, StepsExist
<1>5. ASSUME NEW i \in 1 .. n
      PROVE  g[i] = IF i = 1 THEN ss[1] ELSE g[i - 1] \o ss[i]
  <2>1. i - 1 \in 0 .. n
    BY <1>1
  <2>2. g[i - 1] \in Seq(V)
    BY <1>4, <2>1
  <2>3. <<i, g[i - 1]>> \in (1 .. n) \X Seq(V)
    BY <2>2
  <2>. QED
    BY <1>4, <2>3 DEF StepsAlong
<1>. DEFINE h == [i \in 1 .. n |-> g[i]]
<1>6. Is(h)
  <2>1. ASSUME NEW i \in 1 .. n, i # 1
        PROVE  h[i - 1] = g[i - 1]
    <3>1. i - 1 \in 1 .. n
      BY <1>1, <2>1
    <3>. QED
      BY <3>1
  <2>. QED
    BY <1>5, <2>1
<1>. DEFINE f == CHOOSE f : Is(f)
<1>7. Is(f)
  BY <1>6
<1>8. FlattenSeq(ss) = f[n]
  BY <1>1 DEF FlattenSeq, n
<1>9. f = [i \in 1 .. n |-> IF i = 1 THEN ss[i] ELSE f[i - 1] \o ss[i]]
  BY <1>7
<1>. HIDE DEF f, h, Steps, Is
<1>10. ASSUME NEW i \in 1 .. n
       PROVE  f[i] = IF i = 1 THEN ss[i] ELSE f[i - 1] \o ss[i]
  BY <1>9
<1>11. ASSUME NEW i \in 2 .. n
       PROVE  f[i] = f[i - 1] \o ss[i]
  <2>1. i \in 1 .. n /\ i # 1
    BY <1>1
  <2>. QED
    BY <1>10, <2>1
<1>12. /\ f[1] = ss[1]
      /\ \A i \in 2 .. n : f[i] = f[i - 1] \o ss[i]
  BY <1>1, <1>10, <1>11
<1>13. \A i \in 1 .. n : f[i] \in Seq(V)
  <2>. DEFINE S == {k \in Nat : k + 1 <= n => f[k + 1] \in Seq(V)}
  <2>1. 0 \in S
    BY <1>1, <1>12
  <2>2. ASSUME NEW k \in Nat, k \in S
        PROVE  k + 1 \in S
    <3>. SUFFICES ASSUME (k + 1) + 1 <= n
                  PROVE  f[(k + 1) + 1] \in Seq(V)
      OBVIOUS
    <3>1. f[k + 1] \in Seq(V) /\ (k + 1) + 1 \in 2 .. n /\ ((k + 1) + 1) - 1 = k + 1
      BY <1>1, <2>2
    <3>2. PICK i : i = (k + 1) + 1 /\ i \in 2 .. n /\ i - 1 = k + 1
      BY <3>1
    <3>3. ss[i] \in Seq(V) /\ f[i - 1] \in Seq(V)
      BY <1>1, <3>1, <3>2
    <3>4. f[i] = f[i - 1] \o ss[i]
      BY <1>12, <3>2
    <3>. QED
      BY <3>2, <3>3, <3>4, ConcatProperties
  <2>. HIDE DEF S
  <2>3. Nat \subseteq S
    BY <2>1, <2>2, SetInduction
  <2>4. ASSUME NEW i \in 1 .. n
        PROVE  f[i] \in Seq(V)
    <3>1. i - 1 \in S /\ (i - 1) + 1 = i
      BY <1>1, <2>3
    <3>. QED
      BY <3>1 DEF S
  <2>. QED
    BY <2>4
<1>14. f \in [1 .. n -> Seq(V)]
  BY <1>9, <1>13
<1>. QED
  BY <1>8, <1>12, <1>14 DEF Flattens, n

\* No sequences, and one more.
LEMMA FlattenAppend ==
  ASSUME NEW V, NEW ss \in Seq(Seq(V)), NEW s \in Seq(V)
  PROVE  /\ FlattenSeq(<<>>) = <<>>
         /\ FlattenSeq(ss) \in Seq(V)
         /\ FlattenSeq(Append(ss, s)) = FlattenSeq(ss) \o s
<1>1. PICK none : none = <<>> /\ none \in Seq(Seq(V)) /\ Len(none) = 0 /\ none \in Seq(V)
  <2>1. <<>> \in Seq(Seq(V)) /\ Len(<<>>) = 0 /\ <<>> \in Seq(V)
    OBVIOUS
  <2>. QED
    BY <2>1, Zenon
<1>2. FlattenSeq(none) = none
  BY <1>1 DEF FlattenSeq
<1>3. PICK n : n = Len(ss) /\ n \in Nat
  OBVIOUS
<1>4. PICK tt \in Seq(Seq(V)) : /\ tt = Append(ss, s) /\ Len(tt) = n + 1 /\ tt[n + 1] = s
                                /\ \A i \in 1 .. n : tt[i] = ss[i]
  <2>1. /\ Append(ss, s) \in Seq(Seq(V)) /\ Len(Append(ss, s)) = Len(ss) + 1
        /\ Append(ss, s)[Len(ss) + 1] = s
        /\ \A i \in 1 .. Len(ss) : Append(ss, s)[i] = ss[i]
    BY AppendProperties
  <2>. QED
    BY <1>3, <2>1, Zenon
<1>5. PICK g : g \in [1 .. n + 1 -> Seq(V)] /\ Flattens(g, tt) /\ FlattenSeq(tt) = g[n + 1]
  <2>1. Len(tt) > 0
    BY <1>3, <1>4
  <2>2. \E g : g \in [1 .. Len(tt) -> Seq(V)] /\ Flattens(g, tt) /\ FlattenSeq(tt) = g[Len(tt)]
    BY <1>4, <2>1, FlatExists
  <2>. QED
    BY <1>4, <2>2
<1>6. CASE n = 0
  <2>1. ss = none
    BY <1>1, <1>3, <1>6, EmptySeq
  <2>2. g[1] = s
    BY <1>4, <1>5, <1>6 DEF Flattens
  <2>3. none \o s = s
    <3>1. <<>> \o s = s
      OBVIOUS
    <3>. QED
      BY <1>1, <3>1
  <2>4. FlattenSeq(tt) = s /\ FlattenSeq(ss) = none
    BY <1>2, <1>5, <1>6, <2>1, <2>2
  <2>. QED
    BY <1>1, <1>2, <1>4, <2>3, <2>4, Zenon
<1>7. CASE n > 0
  <2>1. PICK f : f \in [1 .. n -> Seq(V)] /\ Flattens(f, ss) /\ FlattenSeq(ss) = f[n]
    BY <1>3, <1>7, FlatExists
  <2>2. /\ f[1] = ss[1] /\ \A i \in 2 .. n : f[i] = f[i - 1] \o ss[i]
        /\ g[1] = tt[1] /\ \A i \in 2 .. n + 1 : g[i] = g[i - 1] \o tt[i]
    BY <1>3, <1>4, <1>5, <2>1 DEF Flattens
  <2>. DEFINE S == {k \in Nat : k + 1 <= n => f[k + 1] = g[k + 1]}
  <2>3. 0 \in S
    BY <1>3, <1>4, <1>7, <2>2
  <2>4. ASSUME NEW k \in Nat, k \in S
        PROVE  k + 1 \in S
    <3>. SUFFICES ASSUME (k + 1) + 1 <= n
                  PROVE  f[(k + 1) + 1] = g[(k + 1) + 1]
      OBVIOUS
    <3>1. f[k + 1] = g[k + 1]
      BY <1>3, <2>4
    <3>2. PICK i : /\ i = (k + 1) + 1 /\ i \in 2 .. n /\ i \in 2 .. n + 1
                   /\ i \in 1 .. n /\ i - 1 = k + 1
      BY <1>3
    <3>3. f[i] = f[i - 1] \o ss[i] /\ g[i] = g[i - 1] \o tt[i] /\ tt[i] = ss[i]
      BY <1>4, <2>2, <3>2
    <3>. QED
      BY <3>1, <3>2, <3>3
  <2>. HIDE DEF S
  <2>5. Nat \subseteq S
    BY <2>3, <2>4, SetInduction
  <2>6. f[n] = g[n]
    <3>1. n - 1 \in S /\ (n - 1) + 1 = n
      BY <1>3, <1>7, <2>5
    <3>. QED
      BY <1>3, <3>1 DEF S
  <2>7. n + 1 \in 2 .. n + 1 /\ (n + 1) - 1 = n /\ n \in 1 .. n
    BY <1>3, <1>7
  <2>8. g[n + 1] = g[n] \o s
    BY <1>4, <2>2, <2>7
  <2>9. f[n] \in Seq(V)
    BY <2>1, <2>7
  <2>. QED
    BY <1>1, <1>2, <1>4, <1>5, <2>1, <2>6, <2>8, <2>9
<1>. QED
  BY <1>3, <1>6, <1>7

\* Sequences of sequences one behind the other.
LEMMA FlattenConcat ==
  ASSUME NEW V, NEW ss \in Seq(Seq(V)), NEW tt \in Seq(Seq(V))
  PROVE  FlattenSeq(ss \o tt) = FlattenSeq(ss) \o FlattenSeq(tt)
<1>. DEFINE S == {uu \in Seq(Seq(V)) : FlattenSeq(ss \o uu) = FlattenSeq(ss) \o FlattenSeq(uu)}
<1>1. <<>> \in S
  <2>1. ss \o <<>> = ss /\ <<>> \in Seq(Seq(V)) /\ <<>> \in Seq(V)
    OBVIOUS
  <2>2. FlattenSeq(<<>>) = <<>> /\ FlattenSeq(ss) \in Seq(V)
    BY <2>1, FlattenAppend
  <2>3. FlattenSeq(ss) \o <<>> = FlattenSeq(ss)
    BY <2>2
  <2>. QED
    BY <2>1, <2>2, <2>3, Zenon
<1>2. ASSUME NEW uu \in Seq(Seq(V)), NEW u \in Seq(V), uu \in S
      PROVE  Append(uu, u) \in S
  <2>1. ss \o Append(uu, u) = Append(ss \o uu, u) /\ ss \o uu \in Seq(Seq(V))
        /\ Append(uu, u) \in Seq(Seq(V))
    OBVIOUS
  <2>2. /\ FlattenSeq(Append(ss \o uu, u)) = FlattenSeq(ss \o uu) \o u
        /\ FlattenSeq(Append(uu, u)) = FlattenSeq(uu) \o u
        /\ FlattenSeq(ss) \in Seq(V) /\ FlattenSeq(uu) \in Seq(V)
    BY <2>1, FlattenAppend
  <2>3. FlattenSeq(ss \o uu) = FlattenSeq(ss) \o FlattenSeq(uu)
    BY <1>2
  <2>4. (FlattenSeq(ss) \o FlattenSeq(uu)) \o u = FlattenSeq(ss) \o (FlattenSeq(uu) \o u)
    <3>1. PICK a \in Seq(V), b \in Seq(V) : a = FlattenSeq(ss) /\ b = FlattenSeq(uu)
      BY <2>2
    <3>2. (a \o b) \o u = a \o (b \o u)
      OBVIOUS
    <3>. QED
      BY <3>1, <3>2, Zenon
  <2>. QED
    BY <2>1, <2>2, <2>3, <2>4
<1>. HIDE DEF S
<1>3. Seq(Seq(V)) \subseteq S
  BY <1>1, <1>2, AppendInduction
<1>. QED
  BY <1>3 DEF S

-----------------------------------------------------------------------------
(* The brackets of a sequence of tokens.                                   *)


\* The sequences of closing brackets that can be owed.
Dues == Seq(Closing \cup {"unmatched"})

\* One more token keeps the type.
LEMMA OwedBehindType ==
  ASSUME NEW w \in Dues, NEW t
  PROVE  OwedBehind(w, t) \in Dues
<1>1. CASE t \in Opening
  <2>1. Closer[t] \in Closing
    BY <1>1 DEF Closer, Opening, Closing
  <2>. QED
    BY <1>1, <2>1 DEF OwedBehind, Dues
<1>2. CASE t \notin Opening /\ t \notin Closing
  BY <1>2 DEF OwedBehind
<1>3. CASE t \notin Opening /\ t \in Closing
  <2>1. CASE w # <<>> /\ Last(w) = t
    BY <1>3, <2>1, FrontLast DEF OwedBehind, Dues
  <2>2. CASE ~(w # <<>> /\ Last(w) = t)
    BY <1>3, <2>2 DEF OwedBehind, Dues
  <2>. QED
    BY <2>1, <2>2
<1>. QED
  BY <1>1, <1>2, <1>3

\* Owed is the function that its equation describes.
LEMMA OwedSteps ==
  ASSUME NEW V, NEW seq \in Seq(V), NEW w \in Dues
  PROVE  /\ Owed(w, seq) \in [0 .. Len(seq) -> Dues]
         /\ Owed(w, seq)[0] = w
         /\ \A i \in 1 .. Len(seq) : Owed(w, seq)[i] = OwedBehind(Owed(w, seq)[i - 1], seq[i])
<1>. DEFINE n == Len(seq)
            Steps == [p \in (1 .. n) \X Dues |-> OwedBehind(p[2], seq[p[1]])]
            Is(f) == f = [i \in 0 .. n |-> IF i = 0 THEN w ELSE OwedBehind(f[i - 1], seq[i])]
<1>1. Steps \in [(1 .. n) \X Dues -> Dues] /\ n \in Nat
  BY OwedBehindType
<1>2. PICK g \in [0 .. n -> Dues] : StepsAlong(g, n, w, Steps)
  <2>. HIDE DEF Steps, n
  <2>. QED
    BY <1>1, StepsExist
<1>3. ASSUME NEW i \in 1 .. n
      PROVE  g[i] = OwedBehind(g[i - 1], seq[i])
  <2>1. <<i, g[i - 1]>> \in (1 .. n) \X Dues
    <3>1. i - 1 \in 0 .. n
      BY <1>1
    <3>. HIDE DEF n
    <3>2. g[i - 1] \in Dues
      BY <1>2, <3>1
    <3>. QED
      BY <3>2
  <2>. QED
    BY <1>2, <2>1 DEF StepsAlong
<1>4. \A i \in 0 .. n : g[i] = IF i = 0 THEN w ELSE OwedBehind(g[i - 1], seq[i])
  BY <1>1, <1>2, <1>3 DEF StepsAlong
<1>5. Is(g)
  BY <1>2, <1>4
<1>6. Owed(w, seq) = CHOOSE f : Is(f)
  BY DEF Owed
<1>7. Is(Owed(w, seq))
  BY <1>5, <1>6
<1>. DEFINE f == Owed(w, seq)
<1>8. f = [i \in 0 .. n |-> IF i = 0 THEN w ELSE OwedBehind(f[i - 1], seq[i])]
  BY <1>7
<1>. HIDE DEF f, Is, Steps
<1>9. /\ DOMAIN f = 0 .. n
      /\ f[0] = w
      /\ \A i \in 1 .. n : f[i] = OwedBehind(f[i - 1], seq[i])
  BY <1>1, <1>8
<1>10. \A i \in 0 .. n : f[i] \in Dues
  <2>. DEFINE S == {k \in Nat : k <= n => f[k] \in Dues}
  <2>1. 0 \in S
    BY <1>9
  <2>2. ASSUME NEW k \in Nat, k \in S
        PROVE  k + 1 \in S
    <3>. SUFFICES ASSUME k + 1 <= n
                  PROVE  f[k + 1] \in Dues
      OBVIOUS
    <3>1. f[k] \in Dues /\ k + 1 \in 1 .. n /\ (k + 1) - 1 = k
      BY <1>1, <2>2
    <3>. QED
      BY <1>9, <3>1, OwedBehindType
  <2>. HIDE DEF S
  <2>3. Nat \subseteq S
    BY <2>1, <2>2, SetInduction
  <2>. QED
    BY <1>1, <2>3 DEF S
<1>11. f \in [0 .. n -> Dues]
  BY <1>8, <1>9, <1>10
<1>. QED
  BY <1>9, <1>11 DEF f

\* What is owed behind a token depends on the tokens up to it alone.
LEMMA OwedAgrees ==
  ASSUME NEW V, NEW s \in Seq(V), NEW t \in Seq(V), NEW w \in Dues,
         NEW n \in Nat, n <= Len(s), n <= Len(t), \A i \in 1 .. n : s[i] = t[i]
  PROVE  \A k \in 0 .. n : Owed(w, s)[k] = Owed(w, t)[k]
<1>. DEFINE S == {k \in Nat : k <= n => Owed(w, s)[k] = Owed(w, t)[k]}
<1>1. /\ Owed(w, s)[0] = w /\ Owed(w, t)[0] = w
      /\ \A i \in 1 .. Len(s) : Owed(w, s)[i] = OwedBehind(Owed(w, s)[i - 1], s[i])
      /\ \A i \in 1 .. Len(t) : Owed(w, t)[i] = OwedBehind(Owed(w, t)[i - 1], t[i])
  BY OwedSteps
<1>2. 0 \in S
  BY <1>1
<1>3. ASSUME NEW k \in Nat, k \in S
      PROVE  k + 1 \in S
  <2>. SUFFICES ASSUME k + 1 <= n
                PROVE  Owed(w, s)[k + 1] = Owed(w, t)[k + 1]
    OBVIOUS
  <2>1. /\ Owed(w, s)[k] = Owed(w, t)[k]
        /\ k + 1 \in 1 .. n /\ (k + 1) - 1 = k
        /\ k + 1 \in 1 .. Len(s) /\ k + 1 \in 1 .. Len(t)
    BY <1>3
  <2>. QED
    BY <1>1, <2>1
<1>. HIDE DEF S
<1>4. Nat \subseteq S
  BY <1>2, <1>3, SetInduction
<1>. QED
  BY <1>4 DEF S

\* One sequence behind another starts with what the other one leaves.
LEMMA OwingConcat ==
  ASSUME NEW V, NEW s \in Seq(V), NEW t \in Seq(V), NEW w \in Dues
  PROVE  /\ Owing(w, s) \in Dues
         /\ Owing(w, s \o t) = Owing(Owing(w, s), t)
<1>1. PICK u : /\ u = s \o t /\ u \in Seq(V) /\ Len(u) = Len(s) + Len(t)
               /\ \A i \in 1 .. Len(s) : u[i] = s[i]
               /\ \A i \in 1 .. Len(t) : u[Len(s) + i] = t[i]
  <2>1. /\ s \o t \in Seq(V)
        /\ Len(s \o t) = Len(s) + Len(t)
        /\ \A i \in 1 .. Len(s) + Len(t) :
             (s \o t)[i] = IF i <= Len(s) THEN s[i] ELSE t[i - Len(s)]
    BY ConcatProperties
  <2>2. ASSUME NEW i \in 1 .. Len(t)
        PROVE  (s \o t)[Len(s) + i] = t[i]
    <3>1. Len(s) + i \in 1 .. Len(s) + Len(t) /\ ~(Len(s) + i <= Len(s)) /\ (Len(s) + i) - Len(s) = i
      OBVIOUS
    <3>. QED
      BY <2>1, <3>1
  <2>3. \A i \in 1 .. Len(s) : (s \o t)[i] = s[i]
    BY <2>1
  <2>. QED
    BY <2>1, <2>2, <2>3
<1>2. Len(s) \in Nat /\ Len(t) \in Nat
  OBVIOUS
<1>3. /\ Owed(w, s) \in [0 .. Len(s) -> Dues]
      /\ \A k \in 0 .. Len(s) : Owed(w, u)[k] = Owed(w, s)[k]
  <2>1. /\ Len(s) \in Nat /\ Len(s) <= Len(u) /\ Len(s) <= Len(s)
        /\ u \in Seq(V) /\ \A i \in 1 .. Len(s) : u[i] = s[i]
    BY <1>1, <1>2
  <2>2. Owed(w, s) \in [0 .. Len(s) -> Dues]
    BY OwedSteps
  <2>3. \A k \in 0 .. Len(s) : Owed(w, u)[k] = Owed(w, s)[k]
    BY <2>1, OwedAgrees
  <2>. QED
    BY <2>2, <2>3
<1>4. PICK v \in Dues : v = Owed(w, s)[Len(s)] /\ v = Owed(w, u)[Len(s)]
  <2>1. Len(s) \in 0 .. Len(s)
    BY <1>2
  <2>2. Owed(w, s)[Len(s)] \in Dues /\ Owed(w, u)[Len(s)] = Owed(w, s)[Len(s)]
    BY <1>3, <2>1
  <2>. QED
    BY <2>2, Zenon
<1>5. /\ Owed(v, t)[0] = v
      /\ \A i \in 1 .. Len(t) : Owed(v, t)[i] = OwedBehind(Owed(v, t)[i - 1], t[i])
      /\ \A i \in 1 .. Len(u) : Owed(w, u)[i] = OwedBehind(Owed(w, u)[i - 1], u[i])
  BY <1>1, OwedSteps
<1>. DEFINE S == {k \in Nat : k <= Len(t) => Owed(w, u)[Len(s) + k] = Owed(v, t)[k]}
<1>6. 0 \in S
  BY <1>2, <1>4, <1>5
<1>7. ASSUME NEW k \in Nat, k \in S
      PROVE  k + 1 \in S
  <2>. SUFFICES ASSUME k + 1 <= Len(t)
                PROVE  Owed(w, u)[Len(s) + (k + 1)] = Owed(v, t)[k + 1]
    OBVIOUS
  <2>1. /\ Owed(w, u)[Len(s) + k] = Owed(v, t)[k]
        /\ k + 1 \in 1 .. Len(t) /\ (k + 1) - 1 = k
        /\ Len(s) + (k + 1) \in 1 .. Len(u) /\ (Len(s) + (k + 1)) - 1 = Len(s) + k
    BY <1>1, <1>2, <1>7
  <2>. QED
    BY <1>1, <1>5, <2>1
<1>. HIDE DEF S
<1>8. Nat \subseteq S
  BY <1>6, <1>7, SetInduction
<1>9. Owed(w, u)[Len(s) + Len(t)] = Owed(v, t)[Len(t)]
  BY <1>2, <1>8 DEF S
<1>. QED
  BY <1>1, <1>4, <1>9 DEF Owing

\* No token, and one.
LEMMA OwingShort ==
  ASSUME NEW V, NEW t \in V, NEW w \in Dues
  PROVE  Owing(w, <<>>) = w /\ Owing(w, <<t>>) = OwedBehind(w, t)
<1>1. PICK none : none = <<>> /\ none \in Seq(V) /\ Len(none) = 0
  <2>1. <<>> \in Seq(V) /\ Len(<<>>) = 0
    OBVIOUS
  <2>. QED
    BY <2>1, Zenon
<1>2. PICK one : one = <<t>> /\ one \in Seq(V) /\ Len(one) = 1 /\ one[1] = t
  <2>1. <<t>> \in Seq(V) /\ Len(<<t>>) = 1 /\ <<t>>[1] = t
    OBVIOUS
  <2>. QED
    BY <2>1
<1>3. Owing(w, none) = w
  BY <1>1, OwedSteps DEF Owing
<1>4. Owing(w, one) = OwedBehind(w, t)
  <2>1. /\ Owed(w, one)[0] = w
        /\ \A i \in 1 .. 1 : Owed(w, one)[i] = OwedBehind(Owed(w, one)[i - 1], one[i])
    BY <1>2, OwedSteps
  <2>2. Owed(w, one)[1] = OwedBehind(w, t)
    BY <1>2, <2>1
  <2>. QED
    BY <1>2, <2>2 DEF Owing
<1>. QED
  BY <1>1, <1>2, <1>3, <1>4

-----------------------------------------------------------------------------
(* Recursive functions over the nodes of trees.                            *)

\* f has the value its equation asks for at the nodes lower than k.
SolvesBelow(f, N, height, Step, k) == \A n \in N : height[n] < k => f[n] = Step[<<n, f>>]

\* The value a step has for a node is made of the values at lower nodes.
Descends(N, V, height, Step) ==
  \A n \in N : \A f, g \in [N -> V] :
    (\A m \in N : height[m] < height[n] => f[m] = g[m]) => Step[<<n, f>>] = Step[<<n, g>>]

Solves(f, N, Step) == \A n \in N : f[n] = Step[<<n, f>>]

\* A function whose value at a node is made of its values at lower nodes exists.
LEMMA RecursionExists ==
  ASSUME NEW N, NEW V, V # {}, NEW height \in [N -> Nat], NEW Step \in [N \X [N -> V] -> V],
         Descends(N, V, height, Step)
  PROVE  \E f \in [N -> V] : Solves(f, N, Step)
<1>. DEFINE Lower(f, k) == SolvesBelow(f, N, height, Step, k)
            S == {k \in Nat : \E f \in [N -> V] : Lower(f, k)}
            T == {k \in Nat : \A f, g \in [N -> V] :
                    Lower(f, k) /\ Lower(g, k) => \A n \in N : height[n] < k => f[n] = g[n]}
<1>0. /\ \A n \in N : height[n] \in Nat
      /\ \A n \in N : \A f, g \in [N -> V] :
           (\A m \in N : height[m] < height[n] => f[m] = g[m]) => Step[<<n, f>>] = Step[<<n, g>>]
  BY DEF Descends
<1>1. Nat \subseteq S
  <2>1. 0 \in S
    <3>1. PICK v \in V : TRUE
      OBVIOUS
    <3>2. [n \in N |-> v] \in [N -> V]
      OBVIOUS
    <3>3. Lower([n \in N |-> v], 0)
      BY <1>0 DEF SolvesBelow
    <3>. QED
      BY <3>2, <3>3
  <2>2. ASSUME NEW k \in Nat, k \in S
        PROVE  k + 1 \in S
    <3>1. PICK f \in [N -> V] : Lower(f, k)
      BY <2>2
    <3>. DEFINE next == [n \in N |-> Step[<<n, f>>]]
    <3>2. next \in [N -> V] /\ \A n \in N : next[n] = Step[<<n, f>>]
      OBVIOUS
    <3>. HIDE DEF next
    <3>3. ASSUME NEW n \in N, height[n] < k + 1
          PROVE  next[n] = Step[<<n, next>>]
      <4>1. ASSUME NEW m \in N, height[m] < height[n]
            PROVE  f[m] = next[m]
        <5>1. height[m] < k
          BY <1>0, <3>3, <4>1
        <5>. QED
          BY <3>1, <3>2, <5>1 DEF SolvesBelow
      <4>2. Step[<<n, f>>] = Step[<<n, next>>]
        BY <1>0, <3>2, <4>1
      <4>. QED
        BY <3>2, <4>2
    <3>4. Lower(next, k + 1)
      BY <3>3 DEF SolvesBelow
    <3>. QED
      BY <3>2, <3>4
  <2>. HIDE DEF S
  <2>. QED
    BY <2>1, <2>2, SetInduction
<1>2. Nat \subseteq T
  <2>1. 0 \in T
    BY <1>0
  <2>2. ASSUME NEW k \in Nat, k \in T
        PROVE  k + 1 \in T
    <3>1. ASSUME NEW f \in [N -> V], NEW g \in [N -> V], Lower(f, k + 1), Lower(g, k + 1),
                 NEW n \in N, height[n] < k + 1
          PROVE  f[n] = g[n]
      <4>1. Lower(f, k) /\ Lower(g, k)
        <5>1. \A m \in N : height[m] < k => height[m] < k + 1
          BY <1>0
        <5>2. /\ \A m \in N : height[m] < k + 1 => f[m] = Step[<<m, f>>]
              /\ \A m \in N : height[m] < k + 1 => g[m] = Step[<<m, g>>]
          BY <3>1 DEF SolvesBelow
        <5>. QED
          BY <5>1, <5>2 DEF SolvesBelow
      <4>2. \A m \in N : height[m] < k => f[m] = g[m]
        BY <2>2, <4>1
      <4>3. \A m \in N : height[m] < height[n] => f[m] = g[m]
        BY <1>0, <3>1, <4>2
      <4>4. Step[<<n, f>>] = Step[<<n, g>>]
        BY <1>0, <4>3
      <4>5. f[n] = Step[<<n, f>>] /\ g[n] = Step[<<n, g>>]
        BY <3>1 DEF SolvesBelow
      <4>. QED
        BY <4>4, <4>5
    <3>. HIDE DEF Lower
    <3>. QED
      BY <3>1
  <2>. HIDE DEF T
  <2>. QED
    BY <2>1, <2>2, SetInduction
<1>. DEFINE Below(n) == CHOOSE f \in [N -> V] : Lower(f, height[n] + 1)
            all == [n \in N |-> Below(n)[n]]
<1>3. ASSUME NEW n \in N
      PROVE  Below(n) \in [N -> V] /\ Lower(Below(n), height[n] + 1)
  <2>1. height[n] + 1 \in S
    BY <1>0, <1>1
  <2>2. \E f \in [N -> V] : Lower(f, height[n] + 1)
    BY <2>1
  <2>. HIDE DEF Lower
  <2>. QED
    BY <2>2
<1>4. all \in [N -> V] /\ \A n \in N : all[n] = Below(n)[n]
  <2>. HIDE DEF Below
  <2>1. \A n \in N : Below(n)[n] \in V
    BY <1>3
  <2>. QED
    BY <2>1
<1>. HIDE DEF all, Below
<1>5. ASSUME NEW n \in N
      PROVE  all[n] = Step[<<n, all>>]
  <2>1. ASSUME NEW m \in N, height[m] < height[n]
        PROVE  Below(n)[m] = all[m]
    <3>1. Lower(Below(n), height[m] + 1)
      <4>1. PICK f : f = Below(n) /\ Lower(f, height[n] + 1)
        BY <1>3
      <4>2. \A x \in N : height[x] < height[m] + 1 => height[x] < height[n] + 1
        BY <1>0, <2>1
      <4>3. Lower(f, height[m] + 1)
        BY <4>1, <4>2 DEF SolvesBelow
      <4>. QED
        BY <4>1, <4>3
    <3>2. height[m] + 1 \in T /\ height[m] < height[m] + 1
      BY <1>0, <1>2
    <3>3. Below(n)[m] = Below(m)[m]
      <4>1. Below(n) \in [N -> V] /\ Below(m) \in [N -> V] /\ Lower(Below(m), height[m] + 1)
        BY <1>3
      <4>. HIDE DEF Lower
      <4>. QED
        BY <3>1, <3>2, <4>1
    <3>. QED
      BY <1>4, <3>3
  <2>2. Step[<<n, Below(n)>>] = Step[<<n, all>>]
    BY <1>0, <1>3, <1>4, <2>1
  <2>3. Below(n)[n] = Step[<<n, Below(n)>>]
    <3>1. PICK f : f = Below(n) /\ Lower(f, height[n] + 1)
      BY <1>3
    <3>2. height[n] < height[n] + 1
      BY <1>0
    <3>3. f[n] = Step[<<n, f>>]
      BY <3>1, <3>2 DEF SolvesBelow
    <3>. QED
      BY <3>1, <3>3
  <2>. QED
    BY <1>4, <2>2, <2>3
<1>. QED
  BY <1>4, <1>5 DEF Solves

-----------------------------------------------------------------------------
(* What a list of steps leads to.  A step s of the set T takes a state q to *)
(* a state r if <<q, s, r>> is in Goes.                                    *)

\* States of S from q to r, one behind each step.
Along(path, Goes, S, q, steps, r) ==
  /\ path \in [0 .. Len(steps) -> S]
  /\ path[0] = q /\ path[Len(steps)] = r
  /\ \A i \in 1 .. Len(steps) : <<path[i - 1], steps[i], path[i]>> \in Goes

Leads(Goes, S, q, steps, r) == \E path \in [0 .. Len(steps) -> S] : Along(path, Goes, S, q, steps, r)

\* No step, and one.
LEMMA LeadsShort ==
  ASSUME NEW S, NEW T, NEW Goes
  PROVE  /\ \A q \in S : Leads(Goes, S, q, <<>>, q)
         /\ \A q, r : Leads(Goes, S, q, <<>>, r) => q = r
         /\ \A q, r \in S, t \in T : <<q, t, r>> \in Goes => Leads(Goes, S, q, <<t>>, r)
<1>1. PICK none : none = <<>> /\ none \in Seq(T) /\ Len(none) = 0
  <2>1. <<>> \in Seq(T) /\ Len(<<>>) = 0
    OBVIOUS
  <2>. QED
    BY <2>1, Zenon
<1>2. ASSUME NEW q \in S
      PROVE  Leads(Goes, S, q, none, q)
  <2>. DEFINE path == [i \in 0 .. 0 |-> q]
  <2>1. Along(path, Goes, S, q, none, q) /\ path \in [0 .. Len(none) -> S]
    BY <1>1 DEF Along
  <2>. QED
    BY <1>1, <2>1 DEF Leads
<1>3. ASSUME NEW q, NEW r, Leads(Goes, S, q, none, r)
      PROVE  q = r
  BY <1>1, <1>3 DEF Leads, Along
<1>4. ASSUME NEW q \in S, NEW r \in S, NEW t \in T, <<q, t, r>> \in Goes
      PROVE  Leads(Goes, S, q, <<t>>, r)
  <2>1. PICK one : one = <<t>> /\ one \in Seq(T) /\ Len(one) = 1 /\ one[1] = t
    <3>1. <<t>> \in Seq(T) /\ Len(<<t>>) = 1 /\ <<t>>[1] = t
      OBVIOUS
    <3>. QED
      BY <3>1, Zenon
  <2>. DEFINE path == [i \in 0 .. 1 |-> IF i = 0 THEN q ELSE r]
  <2>2. path \in [0 .. 1 -> S] /\ path[0] = q /\ path[1] = r
    OBVIOUS
  <2>. HIDE DEF path
  <2>3. \A i \in 1 .. 1 : i = 1 /\ i - 1 = 0
    OBVIOUS
  <2>4. \A i \in 1 .. 1 : <<path[i - 1], one[i], path[i]>> \in Goes
    BY <1>4, <2>1, <2>2, <2>3, Zenon
  <2>5. Along(path, Goes, S, q, one, r)
    BY <2>1, <2>2, <2>4, Zenon DEF Along
  <2>. QED
    BY <2>1, <2>2, <2>5 DEF Leads
<1>. QED
  BY <1>1, <1>2, <1>3, <1>4, Zenon

\* One list of steps behind another.
LEMMA LeadsConcat ==
  ASSUME NEW S, NEW T, NEW Goes, NEW q, NEW m, NEW r, NEW s \in Seq(T), NEW t \in Seq(T),
         Leads(Goes, S, q, s, m), Leads(Goes, S, m, t, r)
  PROVE  Leads(Goes, S, q, s \o t, r)
<1>1. s \in Seq(T) /\ t \in Seq(T) /\ Len(s) \in Nat /\ Len(t) \in Nat
  OBVIOUS
<1>2. PICK f \in [0 .. Len(s) -> S] : Along(f, Goes, S, q, s, m)
  BY DEF Leads
<1>3. PICK g \in [0 .. Len(t) -> S] : Along(g, Goes, S, m, t, r)
  BY DEF Leads
<1>4. PICK u \in Seq(T) :
        /\ u = s \o t /\ Len(u) = Len(s) + Len(t)
        /\ \A i \in 1 .. Len(u) : u[i] = IF i <= Len(s) THEN s[i] ELSE t[i - Len(s)]
  <2>1. /\ s \o t \in Seq(T) /\ Len(s \o t) = Len(s) + Len(t)
        /\ \A i \in 1 .. Len(s) + Len(t) : (s \o t)[i] = IF i <= Len(s) THEN s[i] ELSE t[i - Len(s)]
    BY <1>1, ConcatProperties
  <2>2. \A i \in 1 .. Len(s \o t) : (s \o t)[i] = IF i <= Len(s) THEN s[i] ELSE t[i - Len(s)]
    BY <2>1
  <2>. QED
    BY <2>1, <2>2, Zenon
<1>. DEFINE path == [i \in 0 .. Len(u) |-> IF i <= Len(s) THEN f[i] ELSE g[i - Len(s)]]
<1>5. \A i \in 0 .. Len(u) : path[i] = IF i <= Len(s) THEN f[i] ELSE g[i - Len(s)]
  OBVIOUS
<1>6. path \in [0 .. Len(u) -> S]
  <2>1. ASSUME NEW i \in 0 .. Len(u)
        PROVE  (IF i <= Len(s) THEN f[i] ELSE g[i - Len(s)]) \in S
    <3>1. CASE i <= Len(s)
      <4>1. i \in 0 .. Len(s)
        BY <1>1, <3>1
      <4>. QED
        BY <3>1, <4>1
    <3>2. CASE ~(i <= Len(s))
      <4>1. i - Len(s) \in 0 .. Len(t)
        BY <1>1, <1>4, <3>2
      <4>. QED
        BY <3>2, <4>1
    <3>. QED
      BY <3>1, <3>2
  <2>. QED
    BY <2>1
<1>7. /\ f[0] = q /\ f[Len(s)] = m /\ \A i \in 1 .. Len(s) : <<f[i - 1], s[i], f[i]>> \in Goes
      /\ g[0] = m /\ g[Len(t)] = r /\ \A i \in 1 .. Len(t) : <<g[i - 1], t[i], g[i]>> \in Goes
  BY <1>2, <1>3 DEF Along
<1>. HIDE DEF path
<1>8. path[0] = q /\ path[Len(u)] = r
  <2>1. path[0] = q
    BY <1>1, <1>4, <1>5, <1>7
  <2>2. CASE Len(t) = 0
    BY <1>1, <1>4, <1>5, <1>7, <2>2
  <2>3. CASE Len(t) # 0
    <3>1. Len(u) \in 0 .. Len(u) /\ ~(Len(u) <= Len(s)) /\ Len(u) - Len(s) = Len(t)
      BY <1>1, <1>4, <2>3
    <3>. QED
      BY <1>5, <1>7, <2>1, <3>1
  <2>. QED
    BY <2>1, <2>2, <2>3
<1>9. ASSUME NEW i \in 1 .. Len(u)
      PROVE  <<path[i - 1], u[i], path[i]>> \in Goes
  <2>1. CASE i <= Len(s)
    <3>1. i \in 1 .. Len(s) /\ i \in 0 .. Len(u) /\ i - 1 \in 0 .. Len(u) /\ i - 1 <= Len(s)
      BY <1>1, <1>4, <2>1
    <3>2. path[i - 1] = f[i - 1] /\ path[i] = f[i] /\ u[i] = s[i]
      BY <1>4, <1>5, <2>1, <3>1
    <3>. QED
      BY <1>7, <3>1, <3>2
  <2>2. CASE ~(i <= Len(s))
    <3>1. PICK j \in 1 .. Len(t) : j = i - Len(s)
      BY <1>1, <1>4, <2>2
    <3>2. i \in 0 .. Len(u) /\ i - 1 \in 0 .. Len(u) /\ (i - 1) - Len(s) = j - 1 /\ (i - 1 <= Len(s) => j = 1 /\ i - 1 = Len(s))
      BY <1>1, <1>4, <2>2, <3>1
    <3>3. path[i] = g[j] /\ u[i] = t[j]
      BY <1>4, <1>5, <2>2, <3>1, <3>2
    <3>4. path[i - 1] = g[j - 1]
      <4>1. CASE i - 1 <= Len(s)
        <5>1. j - 1 = 0
          BY <3>2, <4>1
        <5>. QED
          BY <1>5, <1>7, <3>2, <4>1, <5>1
      <4>2. CASE ~(i - 1 <= Len(s))
        BY <1>5, <3>2, <4>2
      <4>. QED
        BY <4>1, <4>2
    <3>. QED
      BY <1>7, <3>3, <3>4
  <2>. QED
    BY <2>1, <2>2
<1>10. Along(path, Goes, S, q, u, r)
  BY <1>6, <1>8, <1>9 DEF Along
<1>. QED
  BY <1>4, <1>6, <1>10 DEF Leads

\* The first step, and those behind it.
LEMMA LeadsFirst ==
  ASSUME NEW S, NEW T, NEW Goes, NEW q, NEW r, NEW steps \in Seq(T), steps # <<>>,
         Leads(Goes, S, q, steps, r)
  PROVE  \E m \in S : <<q, Head(steps), m>> \in Goes /\ Leads(Goes, S, m, Tail(steps), r)
<1>1. steps \in Seq(T) /\ Len(steps) \in Nat \ {0}
  OBVIOUS
<1>2. PICK f \in [0 .. Len(steps) -> S] : Along(f, Goes, S, q, steps, r)
  BY DEF Leads
<1>3. PICK n \in Nat : n = Len(steps) - 1
  BY <1>1
<1>4. PICK rest \in Seq(T) : /\ rest = Tail(steps) /\ Len(rest) = n
                                /\ \A i \in 1 .. n : rest[i] = steps[i + 1]
  BY <1>1, <1>3
<1>. DEFINE path == [i \in 0 .. n |-> f[i + 1]]
<1>5. path \in [0 .. n -> S] /\ \A i \in 0 .. n : path[i] = f[i + 1]
  <2>1. \A i \in 0 .. n : i + 1 \in 0 .. Len(steps)
    BY <1>1, <1>3
  <2>2. \A i \in 0 .. n : f[i + 1] \in S
    BY <2>1
  <2>. QED
    BY <2>2
<1>6. /\ f[0] = q /\ f[Len(steps)] = r
      /\ \A i \in 1 .. Len(steps) : <<f[i - 1], steps[i], f[i]>> \in Goes
  BY <1>2 DEF Along
<1>. HIDE DEF path
<1>7. path[0] = f[1] /\ path[n] = r
  <2>1. 0 \in 0 .. n /\ n \in 0 .. n /\ 0 + 1 = 1 /\ n + 1 = Len(steps)
    BY <1>1, <1>3
  <2>. QED
    BY <1>5, <1>6, <2>1
<1>8. ASSUME NEW i \in 1 .. n
      PROVE  <<path[i - 1], rest[i], path[i]>> \in Goes
  <2>1. /\ i + 1 \in 1 .. Len(steps) /\ (i + 1) - 1 = i /\ (i - 1) + 1 = i
        /\ i \in 0 .. n /\ i - 1 \in 0 .. n
    BY <1>1, <1>3
  <2>2. <<f[i], steps[i + 1], f[i + 1]>> \in Goes
    BY <1>6, <2>1
  <2>3. path[i - 1] = f[i] /\ path[i] = f[i + 1] /\ rest[i] = steps[i + 1]
    BY <1>4, <1>5, <2>1
  <2>. QED
    BY <2>2, <2>3
<1>9. Leads(Goes, S, f[1], rest, r)
  <2>1. Along(path, Goes, S, f[1], rest, r)
    BY <1>4, <1>5, <1>7, <1>8 DEF Along
  <2>. QED
    BY <1>4, <1>5, <2>1 DEF Leads
<1>10. <<q, Head(steps), f[1]>> \in Goes /\ f[1] \in S
  <2>1. 1 \in 1 .. Len(steps) /\ 1 \in 0 .. Len(steps) /\ 1 - 1 = 0 /\ Head(steps) = steps[1]
    BY <1>1
  <2>. QED
    BY <1>6, <2>1
<1>. QED
  BY <1>4, <1>9, <1>10

\* Two functions are the same if they are the same at a node whenever they are at
\* all lower nodes.
LEMMA SameFromBelow ==
  ASSUME NEW N, NEW height \in [N -> Nat], NEW f, NEW g,
         \A n \in N : (\A m \in N : height[m] < height[n] => f[m] = g[m]) => f[n] = g[n]
  PROVE  \A n \in N : f[n] = g[n]
<1>. DEFINE S == {k \in Nat : \A n \in N : height[n] < k => f[n] = g[n]}
<1>1. \A n \in N : height[n] \in Nat
  OBVIOUS
<1>2. 0 \in S
  BY <1>1
<1>3. ASSUME NEW k \in Nat, k \in S
      PROVE  k + 1 \in S
  <2>1. ASSUME NEW n \in N, height[n] < k + 1
        PROVE  f[n] = g[n]
    <3>1. \A m \in N : height[m] < height[n] => height[m] < k
      BY <1>1, <2>1
    <3>2. \A m \in N : height[m] < height[n] => f[m] = g[m]
      BY <1>3, <3>1
    <3>. QED
      BY <3>2
  <2>. QED
    BY <2>1
<1>4. Nat \subseteq S
  <2>. HIDE DEF S
  <2>. QED
    BY <1>2, <1>3, SetInduction
<1>5. ASSUME NEW n \in N
      PROVE  f[n] = g[n]
  <2>1. height[n] + 1 \in S /\ height[n] < height[n] + 1
    BY <1>1, <1>4
  <2>. QED
    BY <2>1
<1>. QED
  BY <1>5

=============================================================================
