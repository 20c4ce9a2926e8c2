---------------------------- MODULE SequenceFacts -----------------------------
(***************************************************************************)
(* Facts about FlattenSeq, the fold the models are built with.             *)
(*                                                                         *)
(* They need induction, and induction theorems whose hypotheses are        *)
(* operators cannot be applied here.  What can is that every non-empty set *)
(* of naturals has a least element: induction is stated of sets.           *)
(***************************************************************************)
EXTENDS Naturals, Sequences, SequencesExt, WellFoundedInduction, TLAPS

LEMMA Least ==
    ASSUME NEW T, T \subseteq Nat, T # {}
    PROVE  \E m \in T : \A n \in T : m <= n
<1>1. \E m \in T : \A n \in T : ~(<<n, m>> \in OpToRel(<, Nat))
  BY NatLessThanWellFounded, WFMin
<1>2. PICK m \in T : \A n \in T : ~(<<n, m>> \in OpToRel(<, Nat))
  BY <1>1
<1>3. \A n \in T : ~(n < m)
  BY <1>2 DEF OpToRel
<1> QED
  BY <1>3

LEMMA Induction ==
    ASSUME NEW S, 0 \in S, \A n \in Nat : n \in S => n + 1 \in S
    PROVE  \A n \in Nat : n \in S
<1> SUFFICES ASSUME Nat \ S # {} PROVE FALSE
  OBVIOUS
<1>1. PICK m \in Nat \ S : \A n \in Nat \ S : m <= n
  BY Least
<1>2. m # 0 /\ m - 1 \in Nat /\ m - 1 \notin Nat \ S
  BY <1>1
<1> QED
  BY <1>1, <1>2

\* What holds of <<>>, and of a sequence with one element more, holds of all.
LEMMA SequenceInduction ==
    ASSUME NEW S, NEW P, <<>> \in P,
           \A s \in Seq(S), x \in S : s \in P => Append(s, x) \in P
    PROVE  Seq(S) \subseteq P
<1> DEFINE Q == {n \in Nat : \A s \in Seq(S) : Len(s) = n => s \in P}
<1>1. 0 \in Q
  OBVIOUS
<1>2. ASSUME NEW n \in Nat, n \in Q PROVE n + 1 \in Q
  <2> SUFFICES ASSUME NEW s \in Seq(S), Len(s) = n + 1 PROVE s \in P
    OBVIOUS
  <2> DEFINE front == SubSeq(s, 1, n)
  <2>1. front \in Seq(S) /\ Len(front) = n /\ s[n + 1] \in S
    OBVIOUS
  <2>2. s = Append(front, s[n + 1])
    OBVIOUS
  <2>3. front \in P
    BY <1>2, <2>1
  <2> QED
    BY <2>1, <2>2, <2>3
<1> HIDE DEF Q
<1>3. \A n \in Nat : n \in Q
  BY <1>1, <1>2, Induction
<1> QED
  BY <1>3 DEF Q

LEMMA ShortSequences ==
    ASSUME NEW S
    PROVE  /\ <<>> \in Seq(S) /\ Len(<<>>) = 0 /\ 1 .. Len(<<>>) = {}
           /\ \A x \in S : <<x>> \in Seq(S) /\ Len(<<x>>) = 1 /\ <<x>>[1] = x
OBVIOUS

-----------------------------------------------------------------------------
(* The recursion inside FlattenSeq.                                        *)

Flattens(f, ss, n) ==
    f = [i \in 1 .. n |-> IF i = 1 THEN ss[i] ELSE f[i - 1] \o ss[i]]

\* Its equation, cell by cell.
LEMMA FlattensFirst ==
    ASSUME NEW f, NEW ss, NEW n \in Nat, n >= 1, Flattens(f, ss, n)
    PROVE  f[1] = ss[1]
BY 1 \in 1 .. n DEF Flattens

LEMMA FlattensNext ==
    ASSUME NEW f, NEW ss, NEW n \in Nat, Flattens(f, ss, n),
           NEW i \in Nat, 1 <= i, i < n
    PROVE  f[i + 1] = f[i] \o ss[i + 1]
<1>1. i + 1 \in 1 .. n /\ i + 1 # 1 /\ (i + 1) - 1 = i
  OBVIOUS
<1> DEFINE j == i + 1
<1>2. f[j] = IF j = 1 THEN ss[j] ELSE f[j - 1] \o ss[j]
  <2> HIDE DEF j
  <2>1. j \in 1 .. n
    BY <1>1 DEF j
  <2> QED
    BY <2>1 DEF Flattens
<1> QED
  BY <1>1, <1>2

\* A solution for n and a cell more are one for n + 1.
LEMMA FlattensExtends ==
    ASSUME NEW f, NEW g, NEW ss, NEW n \in Nat, Flattens(f, ss, n),
           g = [i \in 1 .. n + 1 |->
                   IF i \in 1 .. n THEN f[i]
                   ELSE IF i = 1 THEN ss[i] ELSE f[i - 1] \o ss[i]]
    PROVE  Flattens(g, ss, n + 1)
<1>1. ASSUME NEW i \in 1 .. n + 1
      PROVE  g[i] = IF i = 1 THEN ss[i] ELSE g[i - 1] \o ss[i]
  <2>1. i # 1 => i - 1 \in 1 .. n /\ i - 1 \in 1 .. n + 1
    OBVIOUS
  <2>2. i # 1 => g[i - 1] = f[i - 1]
    BY <2>1
  <2>3. CASE i \in 1 .. n
    <3>1. g[i] = f[i]
      BY <2>3
    <3>2. f[i] = IF i = 1 THEN ss[i] ELSE f[i - 1] \o ss[i]
      BY <2>3 DEF Flattens
    <3> QED
      BY <2>2, <3>1, <3>2
  <2>4. CASE i \notin 1 .. n
    BY <2>2, <2>4
  <2> QED
    BY <2>3, <2>4
<1>2. g = [i \in 1 .. n + 1 |-> g[i]]
  OBVIOUS
<1> QED
  BY <1>1, <1>2 DEF Flattens

LEMMA FlattensExists ==
    ASSUME NEW ss PROVE \A n \in Nat : \E f : Flattens(f, ss, n)
<1> DEFINE Q == {n \in Nat : \E f : Flattens(f, ss, n)}
<1>1. 0 \in Q
  <2>1. Flattens([i \in 1 .. 0 |-> 0], ss, 0)
    BY DEF Flattens
  <2> QED
    BY <2>1
<1>2. ASSUME NEW n \in Nat, n \in Q PROVE n + 1 \in Q
  <2>1. PICK f : Flattens(f, ss, n)
    BY <1>2
  <2> DEFINE g == [i \in 1 .. n + 1 |->
                     IF i \in 1 .. n THEN f[i]
                     ELSE IF i = 1 THEN ss[i] ELSE f[i - 1] \o ss[i]]
  <2>2. Flattens(g, ss, n + 1)
    BY <2>1, FlattensExtends
  <2> HIDE DEF g
  <2>3. n + 1 \in Nat
    OBVIOUS
  <2> QED
    BY <2>2, <2>3
<1> HIDE DEF Q
<1>3. \A n \in Nat : n \in Q
  BY <1>1, <1>2, Induction
<1> QED
  BY <1>3 DEF Q

LEMMA FlattensAgree ==
    ASSUME NEW ss, NEW tt, NEW m \in Nat, NEW n \in Nat, NEW f, NEW g,
           Flattens(f, ss, m), Flattens(g, tt, n), m <= n,
           \A i \in 1 .. m : ss[i] = tt[i]
    PROVE  \A i \in 1 .. m : f[i] = g[i]
<1> DEFINE Q == {i \in Nat : i \in 1 .. m => f[i] = g[i]}
<1>1. 0 \in Q
  OBVIOUS
<1>2. ASSUME NEW i \in Nat, i \in Q PROVE i + 1 \in Q
  <2> SUFFICES ASSUME i + 1 \in 1 .. m PROVE f[i + 1] = g[i + 1]
    OBVIOUS
  <2>1. CASE i = 0
    <3>1. m >= 1 /\ n >= 1 /\ 1 \in 1 .. m
      OBVIOUS
    <3>2. f[1] = ss[1]
      BY <3>1, FlattensFirst
    <3>3. g[1] = tt[1]
      BY <3>1, FlattensFirst
    <3> QED
      BY <2>1, <3>1, <3>2, <3>3
  <2>2. CASE i # 0
    <3>1. 1 <= i /\ i < m /\ i < n
      BY <2>2
    <3>2. f[i + 1] = f[i] \o ss[i + 1]
      BY <3>1, FlattensNext
    <3>3. g[i + 1] = g[i] \o tt[i + 1]
      BY <3>1, FlattensNext
    <3>4. f[i] = g[i]
      <4>1. i \in 1 .. m
        BY <3>1
      <4> QED
        BY <1>2, <4>1
    <3>5. ss[i + 1] = tt[i + 1]
      OBVIOUS
    <3> QED
      BY <3>2, <3>3, <3>4, <3>5
  <2> QED
    BY <2>1, <2>2
<1> HIDE DEF Q
<1>3. \A i \in Nat : i \in Q
  BY <1>1, <1>2, Induction
<1> QED
  BY <1>3 DEF Q

LEMMA FlattenIs ==
    ASSUME NEW ss, Len(ss) \in Nat \ {0}
    PROVE  \E f : Flattens(f, ss, Len(ss)) /\ FlattenSeq(ss) = f[Len(ss)]
<1> DEFINE h == CHOOSE f : Flattens(f, ss, Len(ss))
<1>1. Flattens(h, ss, Len(ss))
  BY FlattensExists
<1>2. FlattenSeq(ss) = h[Len(ss)]
  BY DEF FlattenSeq, Flattens
<1> QED
  BY <1>1, <1>2

LEMMA FlattenEmpty == FlattenSeq(<<>>) = <<>>
BY DEF FlattenSeq

LEMMA FlattenOne ==
    ASSUME NEW s PROVE FlattenSeq(<<s>>) = s
<1> DEFINE ss == <<s>>
<1>1. Len(ss) = 1 /\ ss[1] = s
  OBVIOUS
<1> HIDE DEF ss
<1>2. \E f : Flattens(f, ss, Len(ss)) /\ FlattenSeq(ss) = f[Len(ss)]
  <2>1. Len(ss) \in Nat \ {0}
    BY <1>1
  <2> QED
    BY <2>1, FlattenIs
<1>3. PICK f : Flattens(f, ss, Len(ss)) /\ FlattenSeq(ss) = f[Len(ss)]
  BY <1>2
<1>4. f[1] = ss[1]
  BY <1>1, <1>3, FlattensFirst
<1> QED
  BY <1>1, <1>3, <1>4 DEF ss

\* One more sequence is concatenated.
LEMMA FlattenAppend ==
    ASSUME NEW S, NEW ss \in Seq(Seq(S)), NEW s \in Seq(S)
    PROVE  FlattenSeq(Append(ss, s)) = FlattenSeq(ss) \o s
<1> DEFINE n == Len(ss)  tt == Append(ss, s)
<1>0. /\ n \in Nat /\ Len(tt) = n + 1 /\ tt[n + 1] = s
      /\ \A i \in 1 .. n : ss[i] = tt[i]
  OBVIOUS
<1>1. CASE n = 0
  <2>1. ss = <<>> /\ tt = <<s>>
    BY <1>0, <1>1
  <2> QED
    BY <2>1, FlattenOne, FlattenEmpty
<1>2. CASE n # 0
  <2> HIDE DEF n, tt
  <2>1. PICK g : Flattens(g, tt, n + 1) /\ FlattenSeq(tt) = g[n + 1]
    BY <1>0, <1>2, FlattenIs
  <2>2. PICK f : Flattens(f, ss, n) /\ FlattenSeq(ss) = f[n]
    BY <1>0, <1>2, FlattenIs DEF n
  <2>3. f[n] = g[n]
    BY <1>0, <1>2, <2>1, <2>2, FlattensAgree
  <2>4. g[n + 1] = g[n] \o tt[n + 1]
    <3>1. n + 1 \in Nat /\ 1 <= n /\ n < n + 1
      BY <1>0, <1>2
    <3> QED
      BY <1>0, <2>1, <3>1, FlattensNext
  <2> QED
    BY <1>0, <2>1, <2>2, <2>3, <2>4 DEF tt
<1> QED
  BY <1>1, <1>2

LEMMA FlattenType ==
    ASSUME NEW S, NEW ss \in Seq(Seq(S))
    PROVE  FlattenSeq(ss) \in Seq(S)
<1> DEFINE P == {tt \in Seq(Seq(S)) : FlattenSeq(tt) \in Seq(S)}
<1>1. <<>> \in P
  <2>1. <<>> \in Seq(Seq(S)) /\ <<>> \in Seq(S)
    OBVIOUS
  <2> QED
    BY <2>1, FlattenEmpty
<1>2. ASSUME NEW tt \in Seq(Seq(S)), NEW s \in Seq(S), tt \in P
      PROVE  Append(tt, s) \in P
  <2>1. FlattenSeq(Append(tt, s)) = FlattenSeq(tt) \o s
    BY FlattenAppend
  <2>2. FlattenSeq(tt) \o s \in Seq(S) /\ Append(tt, s) \in Seq(Seq(S))
    BY <1>2
  <2> QED
    BY <2>1, <2>2
<1> HIDE DEF P
<1>3. Seq(Seq(S)) \subseteq P
  BY <1>1, <1>2, SequenceInduction
<1> QED
  BY <1>3 DEF P

LEMMA FlattenConcat ==
    ASSUME NEW S, NEW ss \in Seq(Seq(S)), NEW tt \in Seq(Seq(S))
    PROVE  FlattenSeq(ss \o tt) = FlattenSeq(ss) \o FlattenSeq(tt)
<1> DEFINE P == {uu \in Seq(Seq(S)) :
                    FlattenSeq(ss \o uu) = FlattenSeq(ss) \o FlattenSeq(uu)}
<1>1. <<>> \in P
  <2>1. <<>> \in Seq(Seq(S)) /\ ss \o <<>> = ss
    OBVIOUS
  <2>2. FlattenSeq(ss) \in Seq(S)
    BY FlattenType
  <2>3. FlattenSeq(ss) \o <<>> = FlattenSeq(ss)
    BY <2>2
  <2> QED
    BY <2>1, <2>3, FlattenEmpty
<1>2. ASSUME NEW uu \in Seq(Seq(S)), NEW s \in Seq(S), uu \in P
      PROVE  Append(uu, s) \in P
  <2>1. ss \o Append(uu, s) = Append(ss \o uu, s) /\ ss \o uu \in Seq(Seq(S))
    OBVIOUS
  <2>2. FlattenSeq(Append(ss \o uu, s)) = FlattenSeq(ss \o uu) \o s
    BY <2>1, FlattenAppend
  <2>3. FlattenSeq(Append(uu, s)) = FlattenSeq(uu) \o s
    BY FlattenAppend
  <2>4. FlattenSeq(ss \o uu) = FlattenSeq(ss) \o FlattenSeq(uu)
    BY <1>2
  <2> DEFINE a == FlattenSeq(ss)  b == FlattenSeq(uu)
  <2>5. a \in Seq(S) /\ b \in Seq(S)
    BY FlattenType
  <2> HIDE DEF a, b
  <2>6. (a \o b) \o s = a \o (b \o s)
    BY <2>5
  <2>7. Append(uu, s) \in Seq(Seq(S))
    OBVIOUS
  <2> QED
    BY <2>1, <2>2, <2>3, <2>4, <2>6, <2>7 DEF a, b
<1> HIDE DEF P
<1>3. Seq(Seq(S)) \subseteq P
  BY <1>1, <1>2, SequenceInduction
<1> QED
  BY <1>3 DEF P

Holds(s, x) == \E k \in 1 .. Len(s) : s[k] = x

\* What a flattened sequence holds is what its parts hold.
LEMMA FlattenHolds ==
    ASSUME NEW S, NEW ss \in Seq(Seq(S)), NEW x
    PROVE  Holds(FlattenSeq(ss), x) <=> \E i \in 1 .. Len(ss) : Holds(ss[i], x)
<1> DEFINE In(s) == Holds(s, x)
           P == {tt \in Seq(Seq(S)) :
                    In(FlattenSeq(tt)) <=> \E i \in 1 .. Len(tt) : In(tt[i])}
<1>1. <<>> \in P
  <2>1. <<>> \in Seq(Seq(S)) /\ ~In(<<>>) /\ 1 .. Len(<<>>) = {}
    BY DEF Holds
  <2> QED
    BY <2>1, FlattenEmpty
<1>2. ASSUME NEW tt \in Seq(Seq(S)), NEW s \in Seq(S), tt \in P
      PROVE  Append(tt, s) \in P
  <2> DEFINE a == FlattenSeq(tt)  uu == Append(tt, s)  n == Len(tt)
  <2>1. FlattenSeq(uu) = a \o s /\ a \in Seq(S)
    BY FlattenAppend, FlattenType
  <2>2. In(a) <=> \E i \in 1 .. n : In(tt[i])
    BY <1>2
  <2>3. /\ n \in Nat /\ Len(uu) = n + 1 /\ uu[n + 1] = s /\ uu \in Seq(Seq(S))
        /\ \A i \in 1 .. n : uu[i] = tt[i]
    OBVIOUS
  <2> HIDE DEF a, uu, n
  <2>4. In(a \o s) <=> In(a) \/ In(s)
    <3> USE DEF Holds
    <3>1. /\ Len(a) \in Nat /\ Len(s) \in Nat /\ Len(a \o s) = Len(a) + Len(s)
          /\ \A k \in 1 .. Len(a) : (a \o s)[k] = a[k]
          /\ \A k \in 1 .. Len(s) : (a \o s)[Len(a) + k] = s[k]
      BY <2>1
    <3>2. ASSUME In(a \o s) PROVE In(a) \/ In(s)
      <4>1. PICK k \in 1 .. Len(a \o s) : (a \o s)[k] = x
        BY <3>2
      <4>2. CASE k \in 1 .. Len(a)
        BY <3>1, <4>1, <4>2
      <4>3. CASE k \notin 1 .. Len(a)
        <5>1. k - Len(a) \in 1 .. Len(s) /\ Len(a) + (k - Len(a)) = k
          BY <3>1, <4>1, <4>3
        <5>2. s[k - Len(a)] = x
          BY <3>1, <4>1, <5>1
        <5> QED
          BY <5>1, <5>2
      <4> QED
        BY <4>2, <4>3
    <3>3. ASSUME In(a) PROVE In(a \o s)
      <4>1. PICK k \in 1 .. Len(a) : a[k] = x
        BY <3>3
      <4>2. k \in 1 .. Len(a \o s)
        BY <3>1, <4>1
      <4> QED
        BY <3>1, <4>1, <4>2
    <3>4. ASSUME In(s) PROVE In(a \o s)
      <4>1. PICK k \in 1 .. Len(s) : s[k] = x
        BY <3>4
      <4>2. Len(a) + k \in 1 .. Len(a \o s)
        BY <3>1, <4>1
      <4> QED
        BY <3>1, <4>1, <4>2
    <3> QED
      BY <3>2, <3>3, <3>4
  <2>5. (\E i \in 1 .. n + 1 : In(uu[i])) <=> (\E i \in 1 .. n : In(tt[i])) \/ In(s)
    <3> HIDE DEF In
    <3>1. \A i \in 1 .. n : i \in 1 .. n + 1
      BY <2>3
    <3>2. \A i \in 1 .. n + 1 : i \in 1 .. n \/ i = n + 1
      BY <2>3
    <3>3. n + 1 \in 1 .. n + 1
      BY <2>3
    <3> QED
      BY <2>3, <3>1, <3>2, <3>3, Zenon
  <2> HIDE DEF In
  <2> QED
    BY <2>1, <2>2, <2>3, <2>4, <2>5 DEF uu
<1> HIDE DEF P
<1>3. Seq(Seq(S)) \subseteq P
  BY <1>1, <1>2, SequenceInduction
<1> QED
  BY <1>3 DEF P

-----------------------------------------------------------------------------
(* Sequences of unknown elements, and concatenation.                       *)

Elements(s) == {s[i] : i \in DOMAIN s}

LEMMA SequenceOfItsElements ==
    ASSUME NEW S, NEW s \in Seq(S)
    PROVE  s \in Seq(Elements(s))
<1>1. Len(s) \in Nat /\ s = [i \in 1..Len(s) |-> s[i]]
  OBVIOUS
<1>2. s \in [1..Len(s) -> Elements(s)]
  BY <1>1 DEF Elements
<1> QED
  BY <1>1, <1>2

LEMMA AppendIs ==
    ASSUME NEW S, NEW s \in Seq(S), NEW x \in S, NEW t \in Seq(S),
           Len(t) = Len(s) + 1, t[Len(s) + 1] = x,
           \A i \in 1 .. Len(s) : t[i] = s[i]
    PROVE  t = Append(s, x)
OBVIOUS

LEMMA Associative ==
    ASSUME NEW S, NEW a \in Seq(S), NEW b \in Seq(S), NEW c \in Seq(S)
    PROVE  (a \o b) \o c = a \o (b \o c)
OBVIOUS

LEMMA HeadMoves ==
    ASSUME NEW S, NEW a \in Seq(S), NEW b \in Seq(S), b # <<>>
    PROVE  Append(a, Head(b)) \o Tail(b) = a \o b
OBVIOUS

-----------------------------------------------------------------------------
(* Few parts, or parts of few elements.                                    *)

LEMMA SequenceOf ==
    ASSUME NEW S, NEW n \in Nat, NEW f \in [1 .. n -> S]
    PROVE  f \in Seq(S) /\ Len(f) = n /\ DOMAIN f = 1 .. n
OBVIOUS

LEMMA SameSequence ==
    ASSUME NEW S, NEW a \in Seq(S), NEW b \in Seq(S), Len(a) = Len(b),
           \A i \in 1 .. Len(a) : a[i] = b[i]
    PROVE  a = b
OBVIOUS

LEMMA ConcatParts ==
    ASSUME NEW S, NEW a \in Seq(S), NEW b \in Seq(S)
    PROVE  /\ a \o b \in Seq(S) /\ Len(a \o b) = Len(a) + Len(b)
           /\ \A i \in 1 .. Len(a) : (a \o b)[i] = a[i]
           /\ \A i \in 1 .. Len(b) : (a \o b)[Len(a) + i] = b[i]
OBVIOUS

LEMMA AppendParts ==
    ASSUME NEW S, NEW a \in Seq(S), NEW x \in S
    PROVE  /\ Append(a, x) \in Seq(S) /\ Len(Append(a, x)) = Len(a) + 1 /\ Len(a) \in Nat
           /\ Append(a, x)[Len(a) + 1] = x
           /\ \A i \in 1 .. Len(a) : Append(a, x)[i] = a[i]
OBVIOUS

LEMMA ConcatIs ==
    ASSUME NEW S, NEW a \in Seq(S), NEW b \in Seq(S), NEW c \in Seq(S),
           Len(c) = Len(a) + Len(b),
           \A i \in 1 .. Len(a) : c[i] = a[i],
           \A i \in 1 .. Len(b) : c[Len(a) + i] = b[i]
    PROVE  c = a \o b
<1>1. /\ Len(a) \in Nat /\ Len(b) \in Nat /\ a \o b \in Seq(S)
      /\ Len(a \o b) = Len(a) + Len(b)
  OBVIOUS
<1>2. ASSUME NEW i \in 1 .. Len(c) PROVE c[i] = (a \o b)[i]
  <2>1. CASE i \in 1 .. Len(a)
    BY <1>1, <2>1
  <2>2. CASE i \notin 1 .. Len(a)
    <3>1. i - Len(a) \in 1 .. Len(b) /\ Len(a) + (i - Len(a)) = i
      BY <1>1, <2>2
    <3>2. (a \o b)[i] = b[i - Len(a)]
      BY <1>1, <2>2, <3>1
    <3>3. c[Len(a) + (i - Len(a))] = b[i - Len(a)]
      BY <3>1
    <3> QED
      BY <3>1, <3>2, <3>3
  <2> QED
    BY <2>1, <2>2
<1> QED
  BY <1>1, <1>2, SameSequence

LEMMA FlattenNothing ==
    ASSUME NEW n \in Nat, NEW ss \in [1 .. n -> {<<>>}]
    PROVE  FlattenSeq(ss) = <<>>
<1>2. <<>> \in Seq({})
  OBVIOUS
<1>3. ss \in [1 .. n -> Seq({})]
  BY <1>2
<1>4. FlattenSeq(ss) \in Seq({})
  BY <1>3, FlattenType, SequenceOf
<1> QED
  BY <1>4

LEMMA FlattenOnly ==
    ASSUME NEW S, NEW ss \in Seq(Seq(S)), NEW j \in 1 .. Len(ss),
           \A i \in 1 .. Len(ss) : i # j => ss[i] = <<>>
    PROVE  FlattenSeq(ss) = ss[j]
<1> DEFINE n == Len(ss)  front == SubSeq(ss, 1, j - 1)  back == SubSeq(ss, j + 1, n)
           upto == Append(front, ss[j])
<1>1. /\ n \in Nat /\ j \in Nat /\ 1 <= j /\ j <= n /\ ss[j] \in Seq(S)
      /\ front \in Seq(Seq(S)) /\ back \in Seq(Seq(S))
  OBVIOUS
<1>2. /\ Len(front) = j - 1 /\ \A i \in 1 .. j - 1 : front[i] = ss[i]
      /\ Len(back) = n - j /\ \A i \in 1 .. n - j : back[i] = ss[j + i]
  BY <1>1
<1>3. front \in [1 .. j - 1 -> {<<>>}] /\ back \in [1 .. n - j -> {<<>>}]
  <2>1. \A i \in 1 .. j - 1 : i \in 1 .. n /\ i # j
    BY <1>1
  <2>2. \A i \in 1 .. n - j : j + i \in 1 .. n /\ j + i # j
    BY <1>1
  <2>3. front = [i \in 1 .. j - 1 |-> front[i]] /\ back = [i \in 1 .. n - j |-> back[i]]
    BY <1>1, <1>2
  <2>4. \A i \in 1 .. j - 1 : front[i] = <<>>
    BY <1>2, <2>1
  <2>5. \A i \in 1 .. n - j : back[i] = <<>>
    BY <1>2, <2>2
  <2> QED
    BY <2>3, <2>4, <2>5
<1>4. FlattenSeq(front) = <<>> /\ FlattenSeq(back) = <<>>
  <2>1. j - 1 \in Nat /\ n - j \in Nat
    BY <1>1
  <2> HIDE DEF front, back
  <2> QED
    BY <1>3, <2>1, FlattenNothing
<1>5. upto \in Seq(Seq(S)) /\ Len(upto) = j /\ \A i \in 1 .. j : upto[i] = ss[i]
  <2> HIDE DEF front
  <2>1. upto \in Seq(Seq(S)) /\ Len(upto) = j
    BY <1>1, <1>2
  <2>2. upto[j] = ss[j] /\ \A i \in 1 .. j - 1 : upto[i] = ss[i]
    BY <1>1, <1>2
  <2>3. \A i \in 1 .. j : i \in 1 .. j - 1 \/ i = j
    BY <1>1
  <2> QED
    BY <2>1, <2>2, <2>3
<1> HIDE DEF front, back
<1>6. FlattenSeq(upto) = ss[j]
  <2>1. FlattenSeq(upto) = FlattenSeq(front) \o ss[j]
    BY <1>1, FlattenAppend
  <2> QED
    BY <1>1, <1>4, <2>1
<1> HIDE DEF upto
<1>7. ss = upto \o back
  <2>1. ss \in Seq(Seq(S)) /\ upto \in Seq(Seq(S)) /\ back \in Seq(Seq(S))
    BY <1>1, <1>5
  <2>2. Len(ss) = Len(upto) + Len(back)
    BY <1>1, <1>2, <1>5
  <2>3. \A i \in 1 .. Len(upto) : ss[i] = upto[i]
    BY <1>5
  <2>4. \A i \in 1 .. Len(back) : ss[Len(upto) + i] = back[i]
    BY <1>2, <1>5
  <2> QED
    BY <2>1, <2>2, <2>3, <2>4, ConcatIs
<1>8. FlattenSeq(upto \o back) = FlattenSeq(upto) \o FlattenSeq(back)
  BY <1>1, <1>5, FlattenConcat
<1> QED
  BY <1>1, <1>4, <1>6, <1>7, <1>8

LEMMA Singles ==
    ASSUME NEW S, NEW s \in Seq(S)
    PROVE  FlattenSeq([i \in DOMAIN s |-> <<s[i]>>]) = s
<1> DEFINE Cut(t) == [i \in DOMAIN t |-> <<t[i]>>]
           P == {t \in Seq(S) : FlattenSeq(Cut(t)) = t}
<1>1. <<>> \in P
  <2>1. Cut(<<>>) = <<>> /\ <<>> \in Seq(S)
    OBVIOUS
  <2> QED
    BY <2>1, FlattenEmpty
<1>2. ASSUME NEW t \in Seq(S), NEW x \in S, t \in P PROVE Append(t, x) \in P
  <2>0. /\ <<x>> \in Seq(S) /\ t \o <<x>> = Append(t, x) /\ Append(t, x) \in Seq(S)
        /\ Len(t) \in Nat /\ DOMAIN t = 1 .. Len(t) /\ Len(Append(t, x)) = Len(t) + 1
        /\ DOMAIN Append(t, x) = 1 .. Len(t) + 1
    OBVIOUS
  <2>a. Cut(t) \in [1 .. Len(t) -> Seq(S)]
    BY <2>0
  <2>b. Cut(Append(t, x)) \in [1 .. Len(t) + 1 -> Seq(S)]
    BY <2>0
  <2>c. /\ Cut(t) \in Seq(Seq(S)) /\ Len(Cut(t)) = Len(t)
        /\ Cut(Append(t, x)) \in Seq(Seq(S)) /\ Len(Cut(Append(t, x))) = Len(t) + 1
    <3> HIDE DEF Cut
    <3>1. Cut(t) \in Seq(Seq(S)) /\ Len(Cut(t)) = Len(t)
      BY <2>0, <2>a, SequenceOf
    <3>2. Len(t) + 1 \in Nat
      BY <2>0
    <3>3. Cut(Append(t, x)) \in Seq(Seq(S)) /\ Len(Cut(Append(t, x))) = Len(t) + 1
      BY <2>b, <3>2, SequenceOf
    <3> QED
      BY <3>1, <3>3
  <2>d. /\ Cut(Append(t, x))[Len(t) + 1] = <<x>>
        /\ \A i \in 1 .. Len(t) : Cut(Append(t, x))[i] = Cut(t)[i]
    BY <2>0
  <2>1. Cut(Append(t, x)) = Append(Cut(t), <<x>>)
    <3> HIDE DEF Cut
    <3> QED
      BY <2>0, <2>c, <2>d, AppendIs
  <2>2. FlattenSeq(Append(Cut(t), <<x>>)) = FlattenSeq(Cut(t)) \o <<x>>
    <3> HIDE DEF Cut
    <3> QED
      BY <2>0, <2>c, FlattenAppend
  <2>3. FlattenSeq(Cut(t)) = t
    BY <1>2
  <2> QED
    BY <2>0, <2>1, <2>2, <2>3
<1> HIDE DEF P
<1>3. Seq(S) \subseteq P
  BY <1>1, <1>2, SequenceInduction
<1> QED
  BY <1>3 DEF P

-----------------------------------------------------------------------------
(* What f makes of each element, in one sequence.                          *)

Makes(f, S, T) == \A x \in S : f[x] \in Seq(T)

Collect(f, s) == FlattenSeq([i \in DOMAIN s |-> f[s[i]]])

LEMMA CollectParts ==
    ASSUME NEW S, NEW T, NEW f, Makes(f, S, T),
           NEW s \in Seq(S)
    PROVE  /\ [i \in DOMAIN s |-> f[s[i]]] \in Seq(Seq(T))
           /\ Len([i \in DOMAIN s |-> f[s[i]]]) = Len(s)
<1>1. Len(s) \in Nat /\ [i \in DOMAIN s |-> f[s[i]]] \in [1 .. Len(s) -> Seq(T)]
  BY DEF Makes
<1> QED
  BY <1>1, SequenceOf

LEMMA CollectType ==
    ASSUME NEW S, NEW T, NEW f, Makes(f, S, T),
           NEW s \in Seq(S)
    PROVE  Collect(f, s) \in Seq(T)
BY CollectParts, FlattenType DEF Collect

LEMMA CollectEmpty == ASSUME NEW f PROVE Collect(f, <<>>) = <<>>
<1>1. [i \in DOMAIN <<>> |-> f[<<>>[i]]] = <<>>
  OBVIOUS
<1> QED
  BY <1>1, FlattenEmpty DEF Collect

LEMMA CollectOne ==
    ASSUME NEW f, NEW x PROVE Collect(f, <<x>>) = f[x]
<1>1. [i \in DOMAIN <<x>> |-> f[<<x>>[i]]] = <<f[x]>>
  OBVIOUS
<1> QED
  BY <1>1, FlattenOne DEF Collect

LEMMA CollectConcat ==
    ASSUME NEW S, NEW T, NEW f, Makes(f, S, T),
           NEW s \in Seq(S), NEW t \in Seq(S)
    PROVE  Collect(f, s \o t) = Collect(f, s) \o Collect(f, t)
<1> DEFINE Parts(u) == [i \in DOMAIN u |-> f[u[i]]]
<1>1. Parts(s \o t) = Parts(s) \o Parts(t)
  <2>1. /\ s \o t \in Seq(S) /\ Len(s) \in Nat /\ Len(t) \in Nat
        /\ Len(s \o t) = Len(s) + Len(t)
        /\ DOMAIN s = 1 .. Len(s) /\ DOMAIN t = 1 .. Len(t)
        /\ DOMAIN (s \o t) = 1 .. Len(s) + Len(t)
    OBVIOUS
  <2>2. /\ Parts(s) \in Seq(Seq(T)) /\ Parts(t) \in Seq(Seq(T))
        /\ Parts(s \o t) \in Seq(Seq(T))
        /\ Len(Parts(s)) = Len(s) /\ Len(Parts(t)) = Len(t)
        /\ Len(Parts(s \o t)) = Len(s) + Len(t)
    <3>1. \A u \in Seq(S) : Parts(u) \in Seq(Seq(T)) /\ Len(Parts(u)) = Len(u)
      BY CollectParts
    <3> HIDE DEF Parts
    <3> QED
      BY <2>1, <3>1
  <2>3. \A i \in 1 .. Len(s) : Parts(s \o t)[i] = Parts(s)[i]
    BY <2>1
  <2>4. \A i \in 1 .. Len(t) : Parts(s \o t)[Len(s) + i] = Parts(t)[i]
    BY <2>1
  <2> HIDE DEF Parts
  <2>5. \A i \in 1 .. Len(Parts(s)) : Parts(s \o t)[i] = Parts(s)[i]
    BY <2>2, <2>3
  <2>6. \A i \in 1 .. Len(Parts(t)) : Parts(s \o t)[Len(Parts(s)) + i] = Parts(t)[i]
    BY <2>2, <2>4
  <2>7. Len(Parts(s \o t)) = Len(Parts(s)) + Len(Parts(t))
    BY <2>2
  <2>8. Parts(s) \in Seq(Seq(T)) /\ Parts(t) \in Seq(Seq(T)) /\ Parts(s \o t) \in Seq(Seq(T))
    BY <2>2
  <2> DEFINE a == Parts(s)  b == Parts(t)  c == Parts(s \o t)
  <2> HIDE DEF a, b, c
  <2>9. a \in Seq(Seq(T)) /\ b \in Seq(Seq(T)) /\ c \in Seq(Seq(T))
    BY <2>8 DEF a, b, c
  <2>10. Len(c) = Len(a) + Len(b)
    BY <2>7 DEF a, b, c
  <2>11. \A i \in 1 .. Len(a) : c[i] = a[i]
    BY <2>5 DEF a, c
  <2>12. \A i \in 1 .. Len(b) : c[Len(a) + i] = b[i]
    BY <2>6 DEF a, b, c
  <2>13. c = a \o b
    BY <2>9, <2>10, <2>11, <2>12, ConcatIs
  <2> QED
    BY <2>13 DEF a, b, c
<1>2. Parts(s) \in Seq(Seq(T)) /\ Parts(t) \in Seq(Seq(T))
  BY CollectParts
<1>3. FlattenSeq(Parts(s) \o Parts(t)) = FlattenSeq(Parts(s)) \o FlattenSeq(Parts(t))
  <2> HIDE DEF Parts
  <2> QED
    BY <1>2, FlattenConcat
<1> QED
  BY <1>1, <1>3 DEF Collect

LEMMA CollectNone ==
    ASSUME NEW S, NEW s \in Seq(S), NEW f, \A i \in 1 .. Len(s) : f[s[i]] = <<>>
    PROVE  Collect(f, s) = <<>>
<1>1. Len(s) \in Nat /\ [i \in DOMAIN s |-> f[s[i]]] \in [1 .. Len(s) -> {<<>>}]
  OBVIOUS
<1> QED
  BY <1>1, FlattenNothing DEF Collect

LEMMA CollectAll ==
    ASSUME NEW S, NEW s \in Seq(S), NEW f, \A i \in 1 .. Len(s) : f[s[i]] = <<s[i]>>
    PROVE  Collect(f, s) = s
<1>1. [i \in DOMAIN s |-> f[s[i]]] = [i \in DOMAIN s |-> <<s[i]>>]
  OBVIOUS
<1> QED
  BY <1>1, Singles DEF Collect

LEMMA CollectFlatten ==
    ASSUME NEW S, NEW T, NEW f, Makes(f, S, T),
           NEW ss \in Seq(Seq(S))
    PROVE  Collect(f, FlattenSeq(ss)) = FlattenSeq([i \in DOMAIN ss |-> Collect(f, ss[i])])
<1> DEFINE Each(tt) == [i \in DOMAIN tt |-> Collect(f, tt[i])]
           P == {tt \in Seq(Seq(S)) : Collect(f, FlattenSeq(tt)) = FlattenSeq(Each(tt))}
<1>1. <<>> \in P
  <2>1. Each(<<>>) = <<>> /\ <<>> \in Seq(Seq(S))
    OBVIOUS
  <2> QED
    BY <2>1, FlattenEmpty, CollectEmpty
<1>2. ASSUME NEW tt \in Seq(Seq(S)), NEW s \in Seq(S), tt \in P
      PROVE  Append(tt, s) \in P
  <2>1. FlattenSeq(tt) \in Seq(S)
    BY FlattenType
  <2>2. FlattenSeq(Append(tt, s)) = FlattenSeq(tt) \o s
    BY FlattenAppend
  <2>3. Collect(f, FlattenSeq(tt) \o s) = Collect(f, FlattenSeq(tt)) \o Collect(f, s)
    <3>1. \A u \in Seq(S), v \in Seq(S) : Collect(f, u \o v) = Collect(f, u) \o Collect(f, v)
      BY CollectConcat
    <3> QED
      BY <2>1, <3>1
  <2>4. \A u \in Seq(S) : Collect(f, u) \in Seq(T)
    BY CollectType
  <2>a. /\ Len(tt) \in Nat /\ DOMAIN tt = 1 .. Len(tt) /\ \A i \in 1 .. Len(tt) : tt[i] \in Seq(S)
        /\ Append(tt, s) \in Seq(Seq(S)) /\ Len(Append(tt, s)) = Len(tt) + 1
        /\ DOMAIN Append(tt, s) = 1 .. Len(tt) + 1
        /\ \A i \in 1 .. Len(tt) + 1 : Append(tt, s)[i] \in Seq(S)
    OBVIOUS
  <2>b. Each(tt) \in [1 .. Len(tt) -> Seq(T)]
    BY <2>4, <2>a
  <2>c. Each(Append(tt, s)) \in [1 .. Len(tt) + 1 -> Seq(T)]
    BY <2>4, <2>a
  <2>d. /\ Each(Append(tt, s))[Len(tt) + 1] = Collect(f, s)
        /\ \A i \in 1 .. Len(tt) : Each(Append(tt, s))[i] = Each(tt)[i]
    BY <2>a
  <2>5. Each(tt) \in Seq(Seq(T)) /\ Each(Append(tt, s)) = Append(Each(tt), Collect(f, s))
    <3> HIDE DEF Each
    <3>1. Len(tt) + 1 \in Nat
      BY <2>a
    <3>2. /\ Each(tt) \in Seq(Seq(T)) /\ Len(Each(tt)) = Len(tt)
          /\ Each(Append(tt, s)) \in Seq(Seq(T)) /\ Len(Each(Append(tt, s))) = Len(tt) + 1
      BY <2>a, <2>b, <2>c, <3>1, SequenceOf
    <3> QED
      BY <2>4, <2>d, <3>2, AppendIs
  <2>6. FlattenSeq(Append(Each(tt), Collect(f, s))) = FlattenSeq(Each(tt)) \o Collect(f, s)
    <3> HIDE DEF Each
    <3> QED
      BY <2>4, <2>5, FlattenAppend
  <2>7. Append(tt, s) \in Seq(Seq(S))
    OBVIOUS
  <2> QED
    BY <1>2, <2>2, <2>3, <2>5, <2>6, <2>7
<1> HIDE DEF P
<1>3. Seq(Seq(S)) \subseteq P
  BY <1>1, <1>2, SequenceInduction
<1> QED
  BY <1>3 DEF P
=============================================================================
