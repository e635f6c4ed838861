----------------------------- MODULE DataLemmas -----------------------------
(***************************************************************************)
(* Lemmas about data that no single component owns: induction and          *)
(* recursion up to a bound, slices of sequences, and concatenations.  The  *)
(* induction theorems of the library take the predicate as an operator;    *)
(* here it is the set of the numbers that satisfy it, and the step of a    *)
(* recursion is a function, so that both can be cited for any particular   *)
(* predicate and definition.                                               *)
(***************************************************************************)
EXTENDS Naturals, Sequences, SequencesExt, SequenceTheorems, WellFoundedInduction, TLAPS

(* What holds of zero, and of k + 1 whenever it holds of k < n, holds up   *)
(* to n: the least exception would contradict its predecessor.             *)
LEMMA UpTo ==
  ASSUME NEW n \in Nat, NEW Good, 0 \in Good,
         \A k \in 0 .. n - 1 : k \in Good => k + 1 \in Good
  PROVE  \A k \in 0 .. n : k \in Good
<1> DEFINE Bad == {k \in 0 .. n : k \notin Good}
<1>1. SUFFICES ASSUME Bad # {} PROVE FALSE
  OBVIOUS
<1>2. Bad \subseteq Nat
  OBVIOUS
<1> HIDE DEF Bad
<1>3. PICK x \in Bad : \A y \in Bad : ~ (<<y, x>> \in OpToRel(<, Nat))
  BY <1>1, <1>2, WFMin, NatLessThanWellFounded
<1>4. x \in 0 .. n /\ x \notin Good /\ x # 0
  BY DEF Bad
<1>5. x - 1 \in Bad
  <2>1. x - 1 \in 0 .. n - 1 /\ (x - 1) + 1 = x
    BY <1>4
  <2>2. x - 1 \notin Good
    BY <1>4, <2>1
  <2> QED
    BY <2>1, <2>2 DEF Bad
<1>6. <<x - 1, x>> \in OpToRel(<, Nat)
  BY <1>4 DEF OpToRel
<1> QED
  BY <1>3, <1>5, <1>6

Solves(f, n, start, step) ==
  f[0] = start /\ \A i \in 1 .. n : f[i] = step[i][f[i - 1]]

(* A recursion up to n has a solution when its step stays in a set S.      *)
LEMMA RecursionHasSolution ==
  ASSUME NEW n \in Nat, NEW S, NEW start \in S, NEW step \in [1 .. n -> [S -> S]]
  PROVE  \E f \in [0 .. n -> S] : Solves(f, n, start, step)
<1> DEFINE Good == {k \in 0 .. n :
                      \E f \in [0 .. k -> S] : Solves(f, k, start, step)}
<1>1. 0 \in Good
  <2> DEFINE f == [i \in 0 .. 0 |-> start]
  <2>1. f \in [0 .. 0 -> S] /\ Solves(f, 0, start, step)
    BY DEF Solves
  <2> HIDE DEF f
  <2> QED
    BY <2>1
<1>2. ASSUME NEW k \in 0 .. n - 1, k \in Good PROVE k + 1 \in Good
  <2>1. PICK f \in [0 .. k -> S] : Solves(f, k, start, step)
    BY <1>2
  <2> DEFINE g == [i \in 0 .. k + 1 |->
                     IF i = k + 1 THEN step[i][f[k]] ELSE f[i]]
  <2>2. g \in [0 .. k + 1 -> S]
    <3>1. step[k + 1][f[k]] \in S
      OBVIOUS
    <3> QED
      BY <3>1
  <2>3. g[0] = start
    BY <2>1 DEF Solves
  <2>4. ASSUME NEW i \in 1 .. k + 1 PROVE g[i] = step[i][g[i - 1]]
    <3>1. g[i - 1] = f[i - 1]
      OBVIOUS
    <3> QED
      BY <2>1, <3>1 DEF Solves
  <2> HIDE DEF g
  <2>5. Solves(g, k + 1, start, step)
    BY <2>3, <2>4 DEF Solves
  <2> QED
    BY <2>2, <2>5
<1> HIDE DEF Good
<1>3. \A k \in 0 .. n : k \in Good
  BY <1>1, <1>2, UpTo
<1> QED
  BY <1>3 DEF Good

(* A recursion has one solution: solving it further changes none of it.    *)
LEMMA SolutionsAgree ==
  ASSUME NEW n \in Nat, NEW m \in Nat, n <= m, NEW start,
         NEW step, NEW other, \A i \in 1 .. n : step[i] = other[i],
         NEW f, NEW g, Solves(f, n, start, step), Solves(g, m, start, other)
  PROVE  f[n] = g[n]
<1> DEFINE Good == {k \in 0 .. n : f[k] = g[k]}
<1>1. 0 \in Good
  BY DEF Solves
<1>2. ASSUME NEW k \in 0 .. n - 1, k \in Good PROVE k + 1 \in Good
  <2>1. k + 1 \in 1 .. n /\ k + 1 \in 1 .. m /\ (k + 1) - 1 = k /\ k + 1 \in 0 .. n
    OBVIOUS
  <2>2. f[k] = g[k] /\ step[k + 1] = other[k + 1]
    BY <1>2, <2>1
  <2>3. f[k + 1] = step[k + 1][f[k]] /\ g[k + 1] = other[k + 1][g[k]]
    BY <2>1 DEF Solves
  <2> QED
    BY <2>1, <2>2, <2>3
<1> HIDE DEF Good
<1>3. \A k \in 0 .. n : k \in Good
  BY <1>1, <1>2, UpTo
<1> QED
  BY <1>3 DEF Good

-----------------------------------------------------------------------------
(* What is read from position a up to position b, counted from zero.       *)

LEMMA SliceType ==
  ASSUME NEW S, NEW s \in Seq(S), NEW a \in Nat, NEW b \in Nat, a <= b, b <= Len(s)
  PROVE  /\ SubSeq(s, a + 1, b) \in Seq(S)
         /\ Len(SubSeq(s, a + 1, b)) = b - a
         /\ \A i \in 1 .. b - a : SubSeq(s, a + 1, b)[i] = s[a + i]
<1>1. \A i \in a + 1 .. b : s[i] \in S
  BY LenProperties, ElementOfSeq
<1> DEFINE m == a + 1
<1>2. m \in Int /\ b \in Int /\ b - m + 1 = b - a /\ (IF m <= b THEN b - m + 1 ELSE 0) = b - a
  OBVIOUS
<1>3. /\ SubSeq(s, m, b) \in Seq(S)
      /\ Len(SubSeq(s, m, b)) = IF m <= b THEN b - m + 1 ELSE 0
      /\ \A i \in 1 .. b - m + 1 : SubSeq(s, m, b)[i] = s[m + i - 1]
  <2> HIDE DEF m
  <2> QED
    BY <1>1, <1>2, SubSeqProperties DEF m
<1>4. \A i \in 1 .. b - a : m + i - 1 = a + i
  OBVIOUS
<1> QED
  BY <1>2, <1>3, <1>4

LEMMA SliceOfFirst ==
  ASSUME NEW S, NEW s \in Seq(S), NEW t \in Seq(S), NEW a \in Nat, NEW b \in Nat,
         a <= b, b <= Len(s)
  PROVE  SubSeq(s \o t, a + 1, b) = SubSeq(s, a + 1, b)
<1>1. CASE a = b
  BY <1>1, SubSeqEmpty
<1>2. CASE a < b
  <2>1. a + 1 \in 1 .. Len(s) /\ b \in 1 .. Len(s)
    BY <1>2, LenProperties
  <2> QED
    BY <2>1, SubSeqOfConcat1
<1> QED
  BY <1>1, <1>2

LEMMA SliceOfSecond ==
  ASSUME NEW S, NEW s \in Seq(S), NEW t \in Seq(S), NEW a \in Nat, NEW b \in Nat,
         a <= b, b <= Len(t)
  PROVE  SubSeq(s \o t, Len(s) + a + 1, Len(s) + b) = SubSeq(t, a + 1, b)
<1>1. Len(s) \in Nat /\ Len(t) \in Nat
  BY LenProperties
<1>2. CASE a = b
  BY <1>1, <1>2, SubSeqEmpty
<1>3. CASE a < b
  <2> DEFINE m == Len(s) + a + 1
             n == Len(s) + b
  <2>1. /\ m \in Len(s) + 1 .. Len(s) + Len(t) /\ n \in Len(s) + 1 .. Len(s) + Len(t)
        /\ m - Len(s) = a + 1 /\ n - Len(s) = b
    BY <1>1, <1>3
  <2>2. SubSeq(s \o t, m, n) = SubSeq(t, m - Len(s), n - Len(s))
    <3> HIDE DEF m, n
    <3> QED
      BY <2>1, SubSeqOfConcat2
  <2> QED
    BY <2>1, <2>2
<1> QED
  BY <1>2, <1>3

LEMMA SecondWhole ==
  ASSUME NEW S, NEW s \in Seq(S), NEW t \in Seq(S)
  PROVE  SubSeq(s \o t, Len(s) + 1, Len(s) + Len(t)) = t
<1> DEFINE a == 0
           b == Len(t)
<1>1. a \in Nat /\ b \in Nat /\ a <= b /\ b <= Len(t) /\ Len(s) \in Nat
  BY LenProperties
<1>2. Len(s) + a + 1 = Len(s) + 1 /\ a + 1 = 1
  BY <1>1
<1> HIDE DEF a, b
<1>3. SubSeq(s \o t, Len(s) + a + 1, Len(s) + b) = SubSeq(t, a + 1, b)
  BY <1>1, SliceOfSecond
<1> QED
  BY <1>2, <1>3, SubSeqFull DEF b

LEMMA SlicesJoined ==
  ASSUME NEW S, NEW s \in Seq(S), NEW a \in Nat, NEW b \in Nat, NEW c \in Nat,
         a <= b, b <= c, c <= Len(s)
  PROVE  SubSeq(s, a + 1, b) \o SubSeq(s, b + 1, c) = SubSeq(s, a + 1, c)
<1>1. /\ a + 1 \in 1 .. Len(s) + 1 /\ b \in (a + 1) - 1 .. Len(s)
      /\ c \in b .. Len(s)
  BY LenProperties
<1> QED
  BY <1>1, ConcatAdjacentSubSeq

LEMMA SliceOfSlice ==
  ASSUME NEW S, NEW s \in Seq(S), NEW a \in Nat, NEW b \in Nat, a <= b, b <= Len(s),
         NEW c \in Nat, NEW d \in Nat, c <= d, d <= b - a
  PROVE  SubSeq(SubSeq(s, a + 1, b), c + 1, d) = SubSeq(s, a + c + 1, a + d)
<1> DEFINE t == SubSeq(s, a + 1, b)
           u == SubSeq(t, c + 1, d)
           v == SubSeq(s, a + c + 1, a + d)
<1>1. /\ t \in Seq(S) /\ Len(t) = b - a
      /\ \A i \in 1 .. b - a : t[i] = s[a + i]
  BY SliceType
<1>2. /\ u \in Seq(S) /\ Len(u) = d - c
      /\ \A i \in 1 .. d - c : u[i] = t[c + i]
  <2> HIDE DEF t
  <2> QED
    BY <1>1, SliceType
<1>3. /\ v \in Seq(S) /\ Len(v) = d - c
      /\ \A i \in 1 .. d - c : v[i] = s[(a + c) + i]
  <2> DEFINE p == a + c
             q == a + d
  <2>1. /\ p \in Nat /\ q \in Nat /\ p <= q /\ q <= Len(s) /\ q - p = d - c
    BY LenProperties
  <2>2. v = SubSeq(s, p + 1, q)
    OBVIOUS
  <2> HIDE DEF p, q, v
  <2>3. /\ v \in Seq(S) /\ Len(v) = q - p
        /\ \A i \in 1 .. q - p : v[i] = s[p + i]
    BY <2>1, <2>2, SliceType
  <2> QED
    BY <2>1, <2>3 DEF p
<1> HIDE DEF t, u, v
<1>4. \A i \in 1 .. d - c : u[i] = v[i]
  <2>1. \A i \in 1 .. d - c : c + i \in 1 .. b - a /\ a + (c + i) = (a + c) + i
    OBVIOUS
  <2> QED
    BY <1>1, <1>2, <1>3, <2>1
<1>5. u = v
  BY <1>2, <1>3, <1>4, SeqEqual
<1> QED
  BY <1>5 DEF t, u, v

LEMMA SliceOfOne ==
  ASSUME NEW S, NEW s \in Seq(S), NEW i \in 1 .. Len(s)
  PROVE  SubSeq(s, i, i) = <<s[i]>>
<1>1. Len(s) \in Nat /\ i \in i .. Len(s) /\ i \in Int /\ i + 1 \in Int /\ i < i + 1 /\ s[i] \in S
  BY LenProperties, ElementOfSeq
<1>2. SubSeq(s, i, i) = <<s[i]>> \o SubSeq(s, i + 1, i)
  BY <1>1, SubSeqRecursiveFirst
<1>3. SubSeq(s, i + 1, i) = <<>>
  BY <1>1, SubSeqEmpty
<1>4. <<s[i]>> \o <<>> = <<s[i]>>
  <2>1. <<s[i]>> \in Seq(S)
    BY <1>1
  <2> QED
    BY <2>1, ConcatEmptySeq
<1> QED
  BY <1>2, <1>3, <1>4

LEMMA Concatenated ==
  ASSUME NEW S, NEW s \in Seq(S), NEW t \in Seq(S)
  PROVE  /\ s \o t \in Seq(S) /\ Len(s \o t) = Len(s) + Len(t)
         /\ Len(s) \in Nat /\ Len(t) \in Nat
         /\ \A i \in 1 .. Len(s) : (s \o t)[i] = s[i]
<1>1. Len(s) \in Nat /\ Len(t) \in Nat
  BY LenProperties
<1>2. s \o t \in Seq(S) /\ Len(s \o t) = Len(s) + Len(t)
  BY ConcatProperties
<1> QED
  BY <1>1, <1>2

LEMMA AfterFirst ==
  ASSUME NEW S, NEW s \in Seq(S), NEW t \in Seq(S), Len(t) > 0
  PROVE  (s \o t)[Len(s) + 1] = t[1]
<1>1. Len(s) \in Nat /\ Len(t) \in Nat
  BY LenProperties
<1>2. Len(s) + 1 \in 1 .. Len(s) + Len(t) /\ ~ (Len(s) + 1 <= Len(s)) /\ (Len(s) + 1) - Len(s) = 1
  BY <1>1
<1> QED
  BY <1>2, ConcatProperties

-----------------------------------------------------------------------------
(* Concatenation of parts at known offsets.                                *)

\* offset[k] is where part k + 1 begins; no part is empty.
Offsets(offset, parts) ==
  /\ offset \in [0 .. Len(parts) -> Nat]
  /\ offset[0] = 0
  /\ \A k \in 1 .. Len(parts) :
       Len(parts[k]) > 0 /\ offset[k] = offset[k - 1] + Len(parts[k])

\* The loop of FlattenSeq.
LEMMA FlattenRecursion ==
  ASSUME NEW S, NEW parts \in Seq(Seq(S))
  PROVE  \E flat \in [0 .. Len(parts) -> Seq(S)] :
           /\ flat[0] = <<>>
           /\ \A k \in 1 .. Len(parts) : flat[k] = flat[k - 1] \o parts[k]
           /\ FlattenSeq(parts) = flat[Len(parts)]
<1> DEFINE n == Len(parts)
           step == [k \in 1 .. n |-> [x \in Seq(S) |-> x \o parts[k]]]
           Equation(f) == f = [i \in 1 .. Len(parts) |->
                                 IF i = 1 THEN parts[i] ELSE f[i - 1] \o parts[i]]
           chosen == CHOOSE f : Equation(f)
<1>1. n \in Nat /\ <<>> \in Seq(S) /\ \A k \in 1 .. n : parts[k] \in Seq(S)
  BY LenProperties, ElementOfSeq
<1>2. step \in [1 .. n -> [Seq(S) -> Seq(S)]]
  BY <1>1, ConcatProperties
<1>3. PICK flat \in [0 .. n -> Seq(S)] : Solves(flat, n, <<>>, step)
  <2> HIDE DEF step, n
  <2> QED
    BY <1>1, <1>2, RecursionHasSolution
<1>4. flat[0] = <<>> /\ \A k \in 1 .. n : flat[k] = flat[k - 1] \o parts[k]
  <2>1. \A k \in 1 .. n : k - 1 \in 0 .. n
    BY <1>1
  <2>2. \A k \in 1 .. n : flat[k - 1] \in Seq(S)
    BY <2>1
  <2> QED
    BY <1>3, <2>2 DEF Solves
<1>5. CASE n = 0
  BY <1>4, <1>5, EmptySeq DEF FlattenSeq
<1>6. CASE n # 0
  <2> DEFINE v == [i \in 1 .. n |-> flat[i]]
  <2>1. flat[1] = parts[1]
    <3>1. 1 \in 1 .. n /\ 1 - 1 = 0
      BY <1>1, <1>6
    <3>2. flat[1] = <<>> \o parts[1] /\ parts[1] \in Seq(S)
      BY <1>1, <1>4, <3>1
    <3> QED
      BY <3>2, ConcatEmptySeq
  <2>2. ASSUME NEW i \in 1 .. n, i # 1 PROVE v[i] = v[i - 1] \o parts[i]
    <3>1. i - 1 \in 1 .. n
      BY <1>1, <2>2
    <3> QED
      BY <1>4, <3>1
  <2>3. Equation(v)
    BY <2>1, <2>2
  <2>4. Equation(chosen)
    <3> HIDE DEF Equation, v
    <3> QED
      BY <2>3
  <2>5. FlattenSeq(parts) = chosen[n]
    BY <1>6 DEF FlattenSeq
  <2> HIDE DEF chosen, v
  <2> DEFINE Same == {k \in 0 .. n : k = 0 \/ chosen[k] = flat[k]}
  <2>6. 0 \in Same
    BY <1>1
  <2>7. ASSUME NEW k \in 0 .. n - 1, k \in Same PROVE k + 1 \in Same
    <3>1. CASE k = 0
      <4>1. chosen[1] = parts[1]
        BY <1>1, <1>6, <2>4
      <4> QED
        BY <1>1, <1>6, <2>1, <3>1, <4>1
    <3>2. CASE k # 0
      <4>1. k + 1 \in 1 .. n /\ k + 1 # 1 /\ (k + 1) - 1 = k
        BY <1>1, <3>2
      <4>2. chosen[k + 1] = chosen[k] \o parts[k + 1]
        BY <2>4, <4>1
      <4>3. flat[k + 1] = flat[k] \o parts[k + 1]
        BY <1>4, <4>1
      <4>4. chosen[k] = flat[k] /\ k + 1 \in 0 .. n
        BY <2>7, <3>2, <4>1
      <4> QED
        BY <4>2, <4>3, <4>4
    <3> QED
      BY <3>1, <3>2
  <2>8. \A k \in 0 .. n : k \in Same
    <3> HIDE DEF Same, n
    <3> QED
      BY <1>1, <2>6, <2>7, UpTo
  <2>9. chosen[n] = flat[n]
    BY <1>1, <1>6, <2>8
  <2> QED
    BY <1>4, <2>5, <2>9
<1> QED
  BY <1>5, <1>6

(* A concatenation holds its parts at their offsets.                       *)
LEMMA FlattenedParts ==
  ASSUME NEW S, NEW parts \in Seq(Seq(S)), NEW offset, Offsets(offset, parts)
  PROVE  /\ FlattenSeq(parts) \in Seq(S)
         /\ Len(FlattenSeq(parts)) = offset[Len(parts)]
         /\ \A k \in 1 .. Len(parts) :
              /\ offset[k] <= offset[Len(parts)]
              /\ SubSeq(FlattenSeq(parts), offset[k - 1] + 1, offset[k]) = parts[k]
<1> DEFINE n == Len(parts)
<1>1. n \in Nat /\ \A k \in 1 .. n : parts[k] \in Seq(S)
  BY LenProperties, ElementOfSeq
<1>2. PICK flat \in [0 .. n -> Seq(S)] :
        /\ flat[0] = <<>>
        /\ \A k \in 1 .. n : flat[k] = flat[k - 1] \o parts[k]
        /\ FlattenSeq(parts) = flat[n]
  BY FlattenRecursion
<1>3. /\ offset \in [0 .. n -> Nat] /\ offset[0] = 0
      /\ \A k \in 1 .. n : Len(parts[k]) > 0 /\ offset[k] = offset[k - 1] + Len(parts[k])
  BY DEF Offsets
<1> HIDE DEF n
<1> DEFINE Holds(m) ==
             /\ Len(flat[m]) = offset[m]
             /\ \A k \in 1 .. m :
                  /\ offset[k] <= offset[m]
                  /\ SubSeq(flat[m], offset[k - 1] + 1, offset[k]) = parts[k]
           Good == {m \in 0 .. n : Holds(m)}
<1>4. 0 \in Good
  BY <1>1, <1>2, <1>3
<1>5. ASSUME NEW m \in 0 .. n - 1, m \in Good PROVE m + 1 \in Good
  <2> DEFINE part == parts[m + 1]
  <2>1. m + 1 \in 1 .. n /\ (m + 1) - 1 = m
    BY <1>1
  <2>2. /\ flat[m] \in Seq(S) /\ part \in Seq(S) /\ Len(part) \in Nat \ {0}
        /\ flat[m + 1] = flat[m] \o part
        /\ offset[m] \in Nat /\ offset[m + 1] = offset[m] + Len(part)
        /\ Len(flat[m]) = offset[m]
    <3>1. m \in 0 .. n
      BY <1>1
    <3>2. flat[m] \in Seq(S) /\ offset[m] \in Nat
      BY <1>2, <1>3, <3>1
    <3>3. part \in Seq(S) /\ Len(part) \in Nat \ {0}
      <4>1. part \in Seq(S) /\ Len(part) > 0
        BY <1>1, <1>3, <2>1
      <4> QED
        BY <4>1, LenProperties
    <3>4. flat[m + 1] = flat[m] \o part /\ offset[m + 1] = offset[m] + Len(part)
      <4>1. flat[m + 1] = flat[(m + 1) - 1] \o parts[m + 1]
        BY <1>2, <2>1
      <4>2. offset[m + 1] = offset[(m + 1) - 1] + Len(parts[m + 1])
        BY <1>3, <2>1
      <4> QED
        BY <4>1, <4>2, <2>1
    <3> QED
      BY <1>5, <3>2, <3>3, <3>4
  <2> HIDE DEF part
  <2>3. Len(flat[m + 1]) = offset[m + 1]
    <3>1. Len(flat[m] \o part) = Len(flat[m]) + Len(part)
      BY <2>2, ConcatProperties
    <3> QED
      BY <2>2, <3>1
  <2>4. ASSUME NEW k \in 1 .. m
        PROVE  /\ offset[k] <= offset[m + 1]
               /\ SubSeq(flat[m + 1], offset[k - 1] + 1, offset[k]) = parts[k]
    <3>1. /\ offset[k] <= offset[m]
          /\ SubSeq(flat[m], offset[k - 1] + 1, offset[k]) = parts[k]
      BY <1>5
    <3>2. k \in 1 .. n /\ k - 1 \in 0 .. n /\ k \in 0 .. n
      BY <1>1
    <3>3. /\ offset[k] \in Nat /\ offset[k - 1] \in Nat /\ offset[k - 1] < offset[k]
      <4>1. offset[k] \in Nat /\ offset[k - 1] \in Nat
        BY <1>3, <3>2
      <4>2. parts[k] \in Seq(S) /\ Len(parts[k]) \in Nat
        BY <1>1, <3>2, LenProperties
      <4>3. Len(parts[k]) > 0 /\ offset[k] = offset[k - 1] + Len(parts[k])
        BY <1>3, <3>2
      <4> QED
        BY <4>1, <4>2, <4>3
    <3>4. SubSeq(flat[m] \o part, offset[k - 1] + 1, offset[k])
            = SubSeq(flat[m], offset[k - 1] + 1, offset[k])
      <4> DEFINE p == offset[k - 1]
                 q == offset[k]
                 f == flat[m]
      <4>1. /\ p \in Nat /\ q \in Nat /\ p < q /\ q <= Len(f)
            /\ f \in Seq(S) /\ part \in Seq(S)
        BY <2>2, <3>1, <3>3
      <4> HIDE DEF p, q, f
      <4>2. SubSeq(f \o part, p + 1, q) = SubSeq(f, p + 1, q)
        BY <4>1, SliceOfFirst
      <4> QED
        BY <4>2 DEF p, q, f
    <3>5. offset[k] <= offset[m + 1]
      <4>1. /\ offset[m + 1] = offset[m] + Len(part)
            /\ offset[m] \in Nat /\ Len(part) \in Nat
        BY <2>2
      <4> QED
        BY <3>1, <3>3, <4>1
    <3> QED
      BY <2>2, <3>1, <3>4, <3>5
  <2>5. SubSeq(flat[m + 1], offset[m] + 1, offset[m + 1]) = part
    <3>1. SubSeq(flat[m] \o part, Len(flat[m]) + 1, Len(flat[m]) + Len(part)) = part
      <4> DEFINE f == flat[m]
      <4>1. f \in Seq(S) /\ part \in Seq(S) /\ Len(part) > 0
        BY <2>2
      <4> HIDE DEF f
      <4>2. SubSeq(f \o part, Len(f) + 1, Len(f) + Len(part)) = part
        BY <4>1, SecondWhole
      <4> QED
        BY <4>2 DEF f
    <3> QED
      BY <2>2, <3>1
  <2>6. Holds(m + 1)
    <3>1. ASSUME NEW k \in 1 .. m + 1
          PROVE  /\ offset[k] <= offset[m + 1]
                 /\ SubSeq(flat[m + 1], offset[k - 1] + 1, offset[k]) = parts[k]
      <4>1. CASE k \in 1 .. m
        BY <2>4, <4>1
      <4>2. CASE k = m + 1
        <5>1. k - 1 = m /\ offset[m + 1] <= offset[m + 1]
          BY <2>1, <2>2, <4>2
        <5> QED
          BY <2>5, <4>2, <5>1 DEF part
      <4> QED
        BY <4>1, <4>2
    <3> QED
      BY <2>3, <3>1
  <2> HIDE DEF Holds
  <2> QED
    BY <1>1, <2>6
<1> HIDE DEF Holds
<1>6. \A m \in 0 .. n : m \in Good
  <2> HIDE DEF Good
  <2> QED
    BY <1>1, <1>4, <1>5, UpTo
<1>7. Holds(n) /\ flat[n] \in Seq(S)
  BY <1>1, <1>6
<1> QED
  BY <1>2, <1>7 DEF Holds, n

(* A sequence that holds all parts at their offsets, and nothing more, is  *)
(* their concatenation.                                                    *)
LEMMA PartsFlattened ==
  ASSUME NEW S, NEW parts \in Seq(Seq(S)), NEW offset, Offsets(offset, parts),
         NEW s \in Seq(S), Len(s) = offset[Len(parts)],
         \A k \in 1 .. Len(parts) : SubSeq(s, offset[k - 1] + 1, offset[k]) = parts[k]
  PROVE  FlattenSeq(parts) = s
<1> DEFINE n == Len(parts)
<1>1. n \in Nat /\ \A k \in 1 .. n : parts[k] \in Seq(S)
  BY LenProperties, ElementOfSeq
<1>2. PICK flat \in [0 .. n -> Seq(S)] :
        /\ flat[0] = <<>>
        /\ \A k \in 1 .. n : flat[k] = flat[k - 1] \o parts[k]
        /\ FlattenSeq(parts) = flat[n]
  BY FlattenRecursion
<1>3. /\ offset \in [0 .. n -> Nat] /\ offset[0] = 0
      /\ \A k \in 1 .. n : Len(parts[k]) > 0 /\ offset[k] = offset[k - 1] + Len(parts[k])
  BY DEF Offsets
<1>4. \A k \in 1 .. n : offset[k] <= offset[n]
  BY <1>1, FlattenedParts
<1>5. Len(s) = offset[n] /\ \A k \in 1 .. n : SubSeq(s, offset[k - 1] + 1, offset[k]) = parts[k]
  OBVIOUS
<1> HIDE DEF n
<1> DEFINE Good == {m \in 0 .. n : flat[m] = SubSeq(s, 1, offset[m])}
<1>6. 0 \in Good
  <2>1. SubSeq(s, 1, 0) = <<>>
    BY SubSeqEmpty
  <2>2. flat[0] = SubSeq(s, 1, offset[0])
    BY <1>2, <1>3, <2>1
  <2> QED
    BY <1>1, <2>2
<1>7. ASSUME NEW m \in 0 .. n - 1, flat[m] = SubSeq(s, 1, offset[m])
      PROVE  flat[m + 1] = SubSeq(s, 1, offset[m + 1])
  <2> HIDE DEF Good
  <2>1. m + 1 \in 1 .. n /\ (m + 1) - 1 = m /\ m \in 0 .. n
    BY <1>1
  <2>2. /\ Len(parts[m + 1]) \in Nat \ {0} /\ offset[m] \in Nat
        /\ offset[m + 1] = offset[m] + Len(parts[m + 1])
        /\ offset[m + 1] <= Len(s) /\ Len(s) \in Nat
    <3>1. parts[m + 1] \in Seq(S) /\ Len(parts[m + 1]) \in Nat
      BY <1>1, <2>1, LenProperties
    <3>2. Len(s) \in Nat
      BY LenProperties
    <3>3. Len(parts[m + 1]) > 0 /\ offset[m + 1] = offset[m] + Len(parts[m + 1])
      BY <1>3, <2>1
    <3>4. offset[m] \in Nat /\ offset[m + 1] <= offset[n] /\ Len(s) = offset[n]
      BY <1>3, <1>4, <1>5, <2>1
    <3> QED
      BY <3>1, <3>2, <3>3, <3>4
  <2>3. flat[m + 1] = SubSeq(s, 1, offset[m]) \o SubSeq(s, offset[m] + 1, offset[m + 1])
    <3>1. flat[m + 1] = flat[m] \o parts[m + 1]
      BY <1>2, <2>1
    <3>2. parts[m + 1] = SubSeq(s, offset[m] + 1, offset[m + 1])
      BY <1>5, <2>1
    <3>3. flat[m] = SubSeq(s, 1, offset[m])
      BY <1>7
    <3> QED
      BY <3>1, <3>2, <3>3
  <2>4. /\ 1 \in 1 .. Len(s) + 1 /\ offset[m] \in 1 - 1 .. Len(s)
        /\ offset[m + 1] \in offset[m] .. Len(s)
    BY <2>2
  <2>5. SubSeq(s, 1, offset[m]) \o SubSeq(s, offset[m] + 1, offset[m + 1])
          = SubSeq(s, 1, offset[m + 1])
    BY <2>4, ConcatAdjacentSubSeq
  <2> QED
    BY <2>3, <2>5
<1>8. \A m \in 0 .. n : m \in Good
  <2> HIDE DEF Good
  <2> QED
    <3>1. \A m \in 0 .. n - 1 : m \in Good => m + 1 \in Good
      <4>1. \A m \in 0 .. n - 1 : m + 1 \in 0 .. n
        BY <1>1
      <4> QED
        BY <1>7, <4>1 DEF Good
    <3> QED
      BY <1>1, <1>6, <3>1, UpTo
<1>9. flat[n] = SubSeq(s, 1, Len(s))
  BY <1>1, <1>5, <1>8
<1> QED
  BY <1>2, <1>9, SubSeqFull
=============================================================================
