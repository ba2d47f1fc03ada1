---------------------------- MODULE FramesProofs -----------------------------
(***************************************************************************)
(* Proofs about Frames: for every radix, set of messages and number of     *)
(* them, and for every codec and configuration of a length field whose two *)
(* ends match.                                                             *)
(***************************************************************************)
EXTENDS Frames, SequenceTheorems, WellFoundedInduction, TLAPS

-----------------------------------------------------------------------------
(* Induction up to a number, over a set instead of an operator.             *)

LEMMA UpTo ==
  ASSUME NEW n \in Nat, NEW T, 0 \in T,
         \A i \in 1..n : i - 1 \in T => i \in T
  PROVE  \A i \in 0..n : i \in T
<1> DEFINE R    == OpToRel(<, Nat)
           Fail == {i \in 0..n : i \notin T}
<1> SUFFICES ASSUME Fail # {} PROVE FALSE
  OBVIOUS
<1>1. IsWellFoundedOn(R, Nat)
  BY NatLessThanWellFounded
<1>2. \A j, i \in Nat : j < i => <<j, i>> \in R
  BY DEF OpToRel
<1>3. Fail \subseteq Nat
  OBVIOUS
<1> HIDE DEF R
<1>4. PICK i \in Fail : \A j \in Fail : <<j, i>> \notin R
  BY <1>1, <1>3, WFMin
<1>5. i \in 1..n /\ i - 1 \in 0..n
  <2>1. i # 0
    BY <1>4
  <2> QED
    BY <1>4, <2>1
<1>6. i - 1 < i /\ i - 1 \in Nat /\ i \in Nat
  BY <1>5
<1>7. i - 1 \notin Fail
  BY <1>2, <1>4, <1>6
<1>8. i - 1 \in T
  BY <1>5, <1>7
<1> QED
  BY <1>4, <1>5, <1>8

-----------------------------------------------------------------------------
(* Take, Drop and FlattenSeq.                                               *)

LEMMA TakeDrop ==
  ASSUME NEW S, NEW s \in Seq(S), NEW n \in 0..Len(s)
  PROVE  /\ Take(s, n) \in Seq(S) /\ Len(Take(s, n)) = n
         /\ \A i \in 1..n : Take(s, n)[i] = s[i]
         /\ Drop(s, n) \in Seq(S) /\ Len(Drop(s, n)) = Len(s) - n
         /\ \A i \in 1..(Len(s) - n) : Drop(s, n)[i] = s[n + i]
         /\ Take(s, n) \o Drop(s, n) = s
<1> DEFINE l == Len(s)
<1>1. l \in Nat /\ n \in 0..l /\ \A i \in 1..l : s[i] \in S
  BY LenProperties, ElementOfSeq
<1>2. /\ Take(s, n) \in Seq(S)
      /\ Len(Take(s, n)) = IF 1 <= n THEN n - 1 + 1 ELSE 0
      /\ \A i \in 1..(n - 1 + 1) : Take(s, n)[i] = s[1 + i - 1]
  BY <1>1, SubSeqProperties DEF Take
<1>3. /\ Drop(s, n) \in Seq(S)
      /\ Len(Drop(s, n)) = IF n + 1 <= l THEN l - (n + 1) + 1 ELSE 0
      /\ \A i \in 1..(l - (n + 1) + 1) : Drop(s, n)[i] = s[n + 1 + i - 1]
  BY <1>1, SubSeqProperties DEF Drop
<1> HIDE DEF l
<1>4. Len(Take(s, n)) = n /\ Len(Drop(s, n)) = l - n
  BY <1>1, <1>2, <1>3
<1>5. /\ \A i \in 1..n : Take(s, n)[i] = s[i]
      /\ \A i \in 1..(l - n) : Drop(s, n)[i] = s[n + i]
  BY <1>1, <1>2, <1>3
<1>6. Take(s, n) \o Drop(s, n) = SubSeq(s, 1, l)
  <2>1. 1 \in 1..Len(s)+1 /\ n \in 1-1..Len(s) /\ Len(s) \in n..Len(s)
    BY <1>1 DEF l
  <2> QED
    BY <2>1, ConcatAdjacentSubSeq DEF Take, Drop, l
<1>7. SubSeq(s, 1, l) = s
  BY SubSeqFull DEF l
<1> QED
  BY <1>2, <1>3, <1>4, <1>5, <1>6, <1>7 DEF l

Joined(a, b) == a \o b

Joins(f, s, k) == \A i \in 1..k : f[i] = IF i = 1 THEN s[i] ELSE Joined(f[i - 1], s[i])

\* The recursive function in FlattenSeq exists.
LEMMA JoinExists ==
  ASSUME NEW A, NEW n \in Nat, NEW s \in [1..n -> A], \A a, b \in A : Joined(a, b) \in A
  PROVE  \E f \in [1..n -> A] : Joins(f, s, n)
<1> DEFINE T == {k \in 0..n : \E f \in [1..k -> A] : Joins(f, s, k)}
<1>1. 0 \in T
  <2>1. [i \in 1..0 |-> <<>>] \in [1..0 -> A]
    OBVIOUS
  <2>2. Joins([i \in 1..0 |-> <<>>], s, 0)
    BY DEF Joins
  <2>3. \E f \in [1..0 -> A] : Joins(f, s, 0)
    BY <2>1, <2>2, Zenon
  <2>4. 0 \in 0..n
    OBVIOUS
  <2> QED
    BY <2>3, <2>4, Zenon
<1>2. ASSUME NEW k \in 1..n, k - 1 \in T PROVE k \in T
  <2>1. PICK f \in [1..(k - 1) -> A] : Joins(f, s, k - 1)
    BY <1>2
  <2> DEFINE x == IF k = 1 THEN s[k] ELSE Joined(f[k - 1], s[k])
             g == [i \in 1..k |-> IF i = k THEN x ELSE f[i]]
  <2>2. x \in A
    <3>1. k # 1 => f[k - 1] \in A
      BY <1>2, <2>1
    <3> QED
      BY <3>1
  <2> HIDE DEF x
  <2>3. g \in [1..k -> A]
    BY <1>2, <2>1, <2>2
  <2>4. ASSUME NEW i \in 1..k
        PROVE  g[i] = IF i = 1 THEN s[i] ELSE Joined(g[i - 1], s[i])
    <3>1. i # 1 => i - 1 \in 1..k /\ i - 1 # k /\ g[i - 1] = f[i - 1]
      BY <1>2
    <3>2. CASE i = k
      BY <3>1, <3>2 DEF x
    <3>3. CASE i # k
      <4>1. i \in 1..(k - 1) /\ g[i] = f[i]
        BY <1>2, <3>3
      <4> HIDE DEF g
      <4> QED
        BY <2>1, <3>1, <4>1 DEF Joins
    <3> QED
      BY <3>2, <3>3
  <2>5. Joins(g, s, k)
    BY <2>4 DEF Joins
  <2> HIDE DEF g
  <2> QED
    BY <1>2, <2>3, <2>5
<1>3. \A i \in 1..n : i - 1 \in T => i \in T
  BY <1>2
<1> HIDE DEF T
<1>4. n \in T
  <2>1. n \in 0..n
    OBVIOUS
  <2> QED
    BY <1>1, <1>3, <2>1, UpTo
<1> QED
  BY <1>4 DEF T

\* And is the only one.
LEMMA JoinTypes ==
  ASSUME NEW A, NEW n \in Nat, NEW s \in [1..n -> A], \A a, b \in A : Joined(a, b) \in A,
         NEW f, f = [i \in 1..n |-> IF i = 1 THEN s[i] ELSE Joined(f[i - 1], s[i])]
  PROVE  f \in [1..n -> A]
<1>1. \A i \in 1..n : f[i] = IF i = 1 THEN s[i] ELSE Joined(f[i - 1], s[i])
  OBVIOUS
<1>2. f = [i \in 1..n |-> f[i]]
  OBVIOUS
<1> DEFINE V == {i \in 0..n : i # 0 => f[i] \in A}
<1>3. 0 \in V
  OBVIOUS
<1>4. ASSUME NEW i \in 1..n, i - 1 \in V PROVE i \in V
  <2>1. i # 1 => f[i - 1] \in A
    BY <1>4
  <2>2. f[i] \in A
    BY <1>1, <2>1
  <2> QED
    BY <2>2
<1> HIDE DEF V
<1>5. \A i \in 0..n : i \in V
  BY <1>3, <1>4, UpTo
<1>6. ASSUME NEW i \in 1..n PROVE f[i] \in A
  <2>1. i \in 0..n /\ i # 0
    OBVIOUS
  <2> QED
    BY <1>5, <2>1 DEF V
<1> QED
  BY <1>2, <1>6

\* What FlattenSeq computes.
LEMMA Flattening ==
  ASSUME NEW S, NEW s \in Seq(Seq(S)), s # <<>>
  PROVE  \E f \in [1..Len(s) -> Seq(S)] :
           /\ f[1] = s[1]
           /\ \A i \in 2..Len(s) : f[i] = Joined(f[i - 1], s[i])
           /\ FlattenSeq(s) = f[Len(s)]
<1> DEFINE n == Len(s)
           Is(f) == f = [i \in 1..n |-> IF i = 1 THEN s[i] ELSE Joined(f[i - 1], s[i])]
           f0 == CHOOSE f : Is(f)
<1>1. n \in Nat \ {0} /\ n \in Nat /\ s \in [1..n -> Seq(S)]
  BY EmptySeq, LenProperties
<1>2. \A a, b \in Seq(S) : Joined(a, b) \in Seq(S)
  BY ConcatProperties DEF Joined
<1>3. FlattenSeq(s) = f0[n]
  <2>1. Len(s) # 0
    BY <1>1
  <2> QED
    BY <2>1, Zenon DEF FlattenSeq, Joined
<1> HIDE DEF n
<1>4. \E f : Is(f)
  <2>1. PICK f \in [1..n -> Seq(S)] : Joins(f, s, n)
    BY <1>1, <1>2, JoinExists
  <2> WITNESS f
  <2> QED
    BY <2>1 DEF Joins
<1>5. Is(f0)
  BY <1>4
<1> HIDE DEF f0
<1>6. f0 \in [1..n -> Seq(S)]
  BY <1>1, <1>2, <1>5, JoinTypes
<1>7. f0[1] = s[1]
  BY <1>1, <1>5
<1>8. \A i \in 2..n : f0[i] = Joined(f0[i - 1], s[i])
  BY <1>1, <1>5
<1> QED
  BY <1>3, <1>6, <1>7, <1>8 DEF n

LEMMA FlattenEmpty == FlattenSeq(<<>>) = <<>>
BY EmptySeq DEF FlattenSeq

LEMMA FlattenType ==
  ASSUME NEW S, NEW s \in Seq(Seq(S))
  PROVE  FlattenSeq(s) \in Seq(S)
<1>1. CASE s = <<>>
  BY <1>1, FlattenEmpty, EmptySeq
<1>2. CASE s # <<>>
  <2>1. PICK f \in [1..Len(s) -> Seq(S)] : FlattenSeq(s) = f[Len(s)]
    BY <1>2, Flattening
  <2>2. Len(s) \in 1..Len(s)
    BY <1>2, EmptySeq
  <2> QED
    BY <2>1, <2>2
<1> QED
  BY <1>1, <1>2

LEMMA FlattenAppend ==
  ASSUME NEW S, NEW s \in Seq(Seq(S)), NEW x \in Seq(S)
  PROVE  FlattenSeq(Append(s, x)) = FlattenSeq(s) \o x
<1> DEFINE t == Append(s, x)
           n == Len(s)
<1>1. /\ t \in Seq(Seq(S)) /\ t # <<>> /\ Len(t) = n + 1 /\ n \in Nat
      /\ \A i \in 1..n : t[i] = s[i]
      /\ t[n + 1] = x
  BY AppendProperties, LenProperties
<1> HIDE DEF t
<1>2. PICK g \in [1..Len(t) -> Seq(S)] :
        /\ g[1] = t[1]
        /\ \A i \in 2..Len(t) : g[i] = Joined(g[i - 1], t[i])
        /\ FlattenSeq(t) = g[Len(t)]
  BY <1>1, Flattening
<1>3. CASE s = <<>>
  <2>1. n = 0
    BY <1>3, EmptySeq
  <2>2. FlattenSeq(t) = x
    BY <1>1, <1>2, <2>1
  <2>3. FlattenSeq(s) \o x = x
    BY <1>3, FlattenEmpty, ConcatEmptySeq
  <2> QED
    BY <2>2, <2>3 DEF t
<1>4. CASE s # <<>>
  <2>1. PICK f \in [1..n -> Seq(S)] :
          /\ f[1] = s[1]
          /\ \A i \in 2..n : f[i] = Joined(f[i - 1], s[i])
          /\ FlattenSeq(s) = f[n]
    BY <1>4, Flattening
  <2>2. n \in Nat \ {0}
    BY <1>4, EmptySeq
  <2> HIDE DEF n
  <2> DEFINE V == {i \in 0..n : i # 0 => g[i] = f[i]}
  <2>3. 0 \in V
    BY <2>2
  <2>4. ASSUME NEW i \in 1..n, i - 1 \in V PROVE i \in V
    <3>1. CASE i = 1
      <4>1. g[i] = f[i]
        BY <1>1, <1>2, <2>1, <2>2, <3>1
      <4> QED
        BY <2>2, <4>1
    <3>2. CASE i # 1
      <4>1. g[i - 1] = f[i - 1] /\ i \in 2..n /\ i \in 2..(n + 1)
        BY <2>2, <2>4, <3>2
      <4>2. g[i] = f[i]
        BY <1>1, <1>2, <2>1, <4>1
      <4> QED
        BY <2>2, <4>2
    <3> QED
      BY <3>1, <3>2
  <2> HIDE DEF V
  <2>5. \A i \in 0..n : i \in V
    BY <2>2, <2>3, <2>4, UpTo
  <2>6. g[n] = f[n]
    BY <2>2, <2>5 DEF V
  <2>7. g[n + 1] = Joined(g[n], t[n + 1])
    <3> DEFINE m == n + 1
    <3>1. m \in 2..Len(t) /\ m - 1 = n
      BY <1>1, <2>2
    <3> HIDE DEF m
    <3>2. g[m] = Joined(g[m - 1], t[m])
      BY <1>2, <3>1
    <3> QED
      BY <3>1, <3>2 DEF m
  <2>8. FlattenSeq(t) = Joined(FlattenSeq(s), x)
    BY <1>1, <1>2, <2>1, <2>6, <2>7
  <2> QED
    BY <2>8 DEF Joined, t
<1> QED
  BY <1>3, <1>4

LEMMA FlattenOne ==
  ASSUME NEW S, NEW x \in Seq(S)
  PROVE  FlattenSeq(<<x>>) = x
<1>1. <<>> \in Seq(Seq(S)) /\ Append(<<>>, x) = <<x>>
  BY EmptySeq
<1>2. FlattenSeq(<<x>>) = FlattenSeq(<<>>) \o x
  BY <1>1, FlattenAppend
<1> QED
  BY <1>2, FlattenEmpty, ConcatEmptySeq

\* A sequence with one element less, and that element.
LEMMA TakeNext ==
  ASSUME NEW S, NEW s \in Seq(S), NEW i \in 1..Len(s)
  PROVE  Take(s, i) = Append(Take(s, i - 1), s[i])
<1>1. i \in Nat /\ i - 1 \in 0..Len(s) /\ i \in 0..Len(s) /\ s[i] \in S
  BY LenProperties, ElementOfSeq
<1> DEFINE u == Take(s, i - 1)
           v == Take(s, i)
           a == Append(u, s[i])
<1>2. /\ u \in Seq(S) /\ Len(u) = i - 1 /\ \A j \in 1..(i - 1) : u[j] = s[j]
      /\ v \in Seq(S) /\ Len(v) = i /\ \A j \in 1..i : v[j] = s[j]
  BY <1>1, TakeDrop
<1> HIDE DEF u, v
<1>3. /\ a \in Seq(S) /\ Len(a) = Len(u) + 1 /\ \A j \in 1..Len(u) : a[j] = u[j]
      /\ a[Len(u) + 1] = s[i]
  BY <1>1, <1>2, AppendProperties
<1> HIDE DEF a
<1>4. Len(a) = i /\ \A j \in 1..i : a[j] = v[j]
  BY <1>1, <1>2, <1>3
<1>5. a = v
  BY <1>2, <1>3, <1>4, SeqEqual
<1> QED
  BY <1>5 DEF a, u, v

LEMMA AppendToConcat ==
  ASSUME NEW S, NEW s \in Seq(S), NEW t \in Seq(S), NEW x \in S
  PROVE  s \o Append(t, x) = Append(s \o t, x)
<1>1. <<x>> \in Seq(S) /\ s \o t \in Seq(S)
  BY ConcatProperties, IsASeq
<1>2. /\ Append(t, x) = t \o <<x>>
      /\ Append(s \o t, x) = (s \o t) \o <<x>>
  BY <1>1, AppendIsConcat
<1> QED
  BY <1>1, <1>2, ConcatAssociative

LEMMA FlattenConcatOne ==
  ASSUME NEW S, NEW s \in Seq(Seq(S)), NEW u \in Seq(Seq(S)), NEW x \in Seq(S),
         FlattenSeq(s \o u) = FlattenSeq(s) \o FlattenSeq(u)
  PROVE  FlattenSeq(s \o Append(u, x)) = FlattenSeq(s) \o FlattenSeq(Append(u, x))
<1>1. s \o Append(u, x) = Append(s \o u, x)
  <2> DEFINE A == Seq(S)
  <2>1. s \in Seq(A) /\ u \in Seq(A) /\ x \in A
    OBVIOUS
  <2> HIDE DEF A
  <2> QED
    BY <2>1, AppendToConcat
<1>2. s \o u \in Seq(Seq(S)) /\ FlattenSeq(s) \in Seq(S) /\ FlattenSeq(u) \in Seq(S)
  BY ConcatProperties, FlattenType
<1>3. FlattenSeq(Append(s \o u, x)) = FlattenSeq(s \o u) \o x
  BY <1>2, FlattenAppend
<1>4. FlattenSeq(Append(u, x)) = FlattenSeq(u) \o x
  BY FlattenAppend
<1>5. (FlattenSeq(s) \o FlattenSeq(u)) \o x = FlattenSeq(s) \o (FlattenSeq(u) \o x)
  BY <1>2, ConcatAssociative
<1> QED
  BY <1>1, <1>3, <1>4, <1>5, Zenon

LEMMA FlattenConcat ==
  ASSUME NEW S, NEW s \in Seq(Seq(S)), NEW t \in Seq(Seq(S))
  PROVE  FlattenSeq(s \o t) = FlattenSeq(s) \o FlattenSeq(t)
<1> DEFINE n == Len(t)
           At(i) == FlattenSeq(s \o Take(t, i)) = FlattenSeq(s) \o FlattenSeq(Take(t, i))
           T == {i \in 0..n : At(i)}
<1>1. n \in Nat /\ FlattenSeq(s) \in Seq(S)
  BY LenProperties, FlattenType
<1>2. At(0)
  <2>1. Take(t, 0) = <<>>
    BY SubSeqEmpty DEF Take
  <2> QED
    BY <1>1, <2>1, FlattenEmpty, ConcatEmptySeq
<1>3. ASSUME NEW i \in 1..n, At(i - 1) PROVE At(i)
  <2> DEFINE u == Take(t, i - 1)
             x == t[i]
  <2>1. u \in Seq(Seq(S)) /\ x \in Seq(S) /\ Take(t, i) = Append(u, x)
    <3>1. i - 1 \in 0..Len(t)
      BY <1>1
    <3> QED
      BY <3>1, TakeDrop, TakeNext, ElementOfSeq
  <2>2. FlattenSeq(s \o u) = FlattenSeq(s) \o FlattenSeq(u)
    BY <1>3
  <2> HIDE DEF u, x
  <2>3. FlattenSeq(s \o Append(u, x)) = FlattenSeq(s) \o FlattenSeq(Append(u, x))
    BY <2>1, <2>2, FlattenConcatOne
  <2> QED
    BY <2>1, <2>3
<1> HIDE DEF At
<1>4. 0 \in T /\ \A i \in 1..n : i - 1 \in T => i \in T
  BY <1>1, <1>2, <1>3
<1> HIDE DEF T
<1>5. n \in T
  <2>1. n \in 0..n
    BY <1>1
  <2> QED
    BY <1>1, <1>4, <2>1, UpTo
<1>6. At(n)
  BY <1>5 DEF T
<1>7. Take(t, n) = t
  BY SubSeqFull DEF Take
<1> QED
  BY <1>6, <1>7 DEF At

-----------------------------------------------------------------------------
(* Length fields: what Uint reads is what PutUint wrote.                    *)

Shifted(x, d) == x * Radix + d

LEMMA DigitStep ==
  ASSUME NEW x \in Nat, NEW d \in Nat
  PROVE  Shifted(x, d) \in Nat
BY FramesAssumption DEF Shifted

Digits(f, c, b, k) ==
  \A i \in 0..k : f[i] = IF i = 0 THEN c ELSE Shifted(f[i - 1], b[i])

\* The recursive functions of Pow and Number exist: digits that are appended to
\* a number, one at a time.
LEMMA DigitsExist ==
  ASSUME NEW n \in Nat, NEW c \in Nat, NEW b \in [1..n -> Nat]
  PROVE  \E f \in [0..n -> Nat] : Digits(f, c, b, n)
<1> DEFINE T == {k \in 0..n : \E f \in [0..k -> Nat] : Digits(f, c, b, k)}
<1>1. 0 \in T
  <2>1. [i \in 0..0 |-> c] \in [0..0 -> Nat] /\ Digits([i \in 0..0 |-> c], c, b, 0)
    BY DEF Digits
  <2>2. \E f \in [0..0 -> Nat] : Digits(f, c, b, 0)
    BY <2>1, Zenon
  <2>3. 0 \in 0..n
    OBVIOUS
  <2> QED
    BY <2>2, <2>3, Zenon
<1>2. ASSUME NEW k \in 1..n, k - 1 \in T PROVE k \in T
  <2>1. PICK f \in [0..(k - 1) -> Nat] : Digits(f, c, b, k - 1)
    BY <1>2
  <2> DEFINE x == Shifted(f[k - 1], b[k])
             g == [i \in 0..k |-> IF i = k THEN x ELSE f[i]]
  <2>2. x \in Nat
    <3>1. f[k - 1] \in Nat /\ b[k] \in Nat
      BY <1>2, <2>1
    <3> QED
      BY <3>1, DigitStep
  <2> HIDE DEF x
  <2>3. g \in [0..k -> Nat]
    BY <1>2, <2>1, <2>2
  <2>4. ASSUME NEW i \in 0..k
        PROVE  g[i] = IF i = 0 THEN c ELSE Shifted(g[i - 1], b[i])
    <3>1. i # 0 => i - 1 \in 0..k /\ i - 1 # k /\ g[i - 1] = f[i - 1]
      BY <1>2
    <3>2. CASE i = k
      BY <3>1, <3>2 DEF x
    <3>3. CASE i # k
      <4>1. i \in 0..(k - 1) /\ g[i] = f[i]
        BY <1>2, <3>3
      <4>2. f[i] = IF i = 0 THEN c ELSE Shifted(f[i - 1], b[i])
        BY <2>1, <4>1 DEF Digits
      <4> HIDE DEF g
      <4> QED
        BY <3>1, <4>1, <4>2
    <3> QED
      BY <3>2, <3>3
  <2>5. Digits(g, c, b, k)
    BY <2>4 DEF Digits
  <2> HIDE DEF g
  <2>6. \E h \in [0..k -> Nat] : Digits(h, c, b, k)
    BY <2>3, <2>5, Zenon
  <2>7. k \in 0..n
    BY <1>2
  <2> QED
    BY <2>6, <2>7
<1>3. \A i \in 1..n : i - 1 \in T => i \in T
  BY <1>2
<1> HIDE DEF T
<1>4. n \in T
  <2>1. n \in 0..n
    OBVIOUS
  <2> QED
    BY <1>1, <1>3, <2>1, UpTo
<1> QED
  BY <1>4 DEF T

AreDigits(f, c, b, n) == f = [i \in 0..n |-> IF i = 0 THEN c ELSE Shifted(f[i - 1], b[i])]

LEMMA DigitsType ==
  ASSUME NEW n \in Nat, NEW c \in Nat, NEW b \in [1..n -> Nat], NEW f, AreDigits(f, c, b, n)
  PROVE  f \in [0..n -> Nat]
<1>1. f[0] = c /\ f = [i \in 0..n |-> f[i]]
  BY DEF AreDigits
<1>2. \A i \in 1..n : f[i] = Shifted(f[i - 1], b[i])
  BY DEF AreDigits
<1> DEFINE V == {i \in 0..n : f[i] \in Nat}
<1>3. 0 \in V
  BY <1>1
<1>4. ASSUME NEW i \in 1..n, i - 1 \in V PROVE i \in V
  <2>1. Shifted(f[i - 1], b[i]) \in Nat
    BY <1>4, DigitStep
  <2> QED
    BY <1>2, <2>1
<1> HIDE DEF V
<1>5. \A i \in 0..n : i \in V
  BY <1>3, <1>4, UpTo
<1>6. \A i \in 0..n : f[i] \in Nat
  BY <1>5 DEF V
<1> QED
  BY <1>1, <1>2, <1>6

LEMMA PowValues ==
  /\ Pow \in [0..8 -> Nat] /\ Pow[0] = 1
  /\ \A i \in 1..8 : Pow[i] = Shifted(Pow[i - 1], 0)
  /\ \A i \in 0..8 : Pow[i] # 0
<1> DEFINE b == [i \in 1..8 |-> 0]
           Is(f) == f = [i \in 0..8 |-> IF i = 0 THEN 1 ELSE f[i - 1] * Radix]
<1>1. Radix \in Nat /\ Radix # 0
  BY FramesAssumption
<1>2. PICK f \in [0..8 -> Nat] : Digits(f, 1, b, 8)
  <2>1. b \in [1..8 -> Nat]
    OBVIOUS
  <2> HIDE DEF b
  <2> QED
    BY <2>1, DigitsExist
<1>3. \A i \in 0..8 : f[i] = IF i = 0 THEN 1 ELSE f[i - 1] * Radix
  <2>1. ASSUME NEW i \in 1..8 PROVE Shifted(f[i - 1], b[i]) = f[i - 1] * Radix
    <3>1. f[i - 1] \in Nat /\ b[i] = 0
      OBVIOUS
    <3> HIDE DEF b
    <3> QED
      BY <1>1, <3>1 DEF Shifted
  <2> HIDE DEF b
  <2> QED
    BY <1>2, <2>1 DEF Digits
<1>4. Is(f)
  BY <1>3
<1>5. Is(Pow)
  <2>1. Pow = CHOOSE g : Is(g)
    BY Zenon DEF Pow
  <2> HIDE DEF Is
  <2> QED
    BY <1>4, <2>1
<1> HIDE DEF b
<1>6. Pow[0] = 1 /\ \A i \in 1..8 : Pow[i] = Pow[i - 1] * Radix
  BY <1>5
<1>7. Pow = [i \in 0..8 |-> Pow[i]]
  BY <1>5
<1> DEFINE V == {i \in 0..8 : Pow[i] \in Nat /\ Pow[i] # 0}
<1>8. 0 \in V
  BY <1>6
<1>9. ASSUME NEW i \in 1..8, i - 1 \in V PROVE i \in V
  <2> DEFINE x == Pow[i - 1]
  <2>1. x \in Nat /\ x # 0 /\ Pow[i] = x * Radix
    BY <1>6, <1>9
  <2> HIDE DEF x
  <2>2. x * Radix \in Nat /\ x * Radix # 0
    BY <1>1, <2>1
  <2> QED
    BY <2>1, <2>2
<1> HIDE DEF V
<1>10. \A i \in 0..8 : i \in V
  BY <1>8, <1>9, UpTo
<1>11. \A i \in 0..8 : Pow[i] \in Nat /\ Pow[i] # 0
  BY <1>10 DEF V
<1>12. \A x \in Nat : x * Radix = Shifted(x, 0)
  BY <1>1 DEF Shifted
<1>13. \A i \in 1..8 : Pow[i - 1] \in Nat
  BY <1>11
<1>14. \A i \in 1..8 : Pow[i] = Shifted(Pow[i - 1], 0)
  BY <1>6, <1>12, <1>13
<1> HIDE DEF Is
<1> QED
  BY <1>6, <1>7, <1>11, <1>14

LEMMA DigitsFollow ==
  ASSUME NEW n \in Nat, NEW c \in Nat, NEW b \in [1..n -> Nat], NEW f, AreDigits(f, c, b, n)
  PROVE  f[0] = c /\ \A i \in 1..n : f[i] = Shifted(f[i - 1], b[i])
BY DEF AreDigits

LEMMA NumberDigits ==
  ASSUME NEW b \in Seq(Nat), NEW f, AreDigits(f, 0, b, Len(b))
  PROVE  f \in [0..Len(b) -> Nat] /\ f[0] = 0 /\ \A i \in 1..Len(b) : f[i] = Shifted(f[i - 1], b[i])
<1> DEFINE n == Len(b)
           c == 0
<1>1. n \in Nat /\ b \in [1..n -> Nat] /\ c \in Nat /\ AreDigits(f, c, b, n)
  BY LenProperties
<1> HIDE DEF n, c
<1>2. f \in [0..n -> Nat]
  BY <1>1, DigitsType
<1>3. f[0] = c
  BY <1>1, DigitsFollow
<1>4. ASSUME NEW i \in 1..n PROVE f[i] = Shifted(f[i - 1], b[i])
  BY <1>1, <1>4, DigitsFollow
<1> QED
  BY <1>2, <1>3, <1>4 DEF n, c

\* The values that the digits of a number have from the left.
LEMMA NumberValues ==
  ASSUME NEW b \in Seq(Nat)
  PROVE  \E f \in [0..Len(b) -> Nat] :
           /\ f[0] = 0 /\ \A i \in 1..Len(b) : f[i] = Shifted(f[i - 1], b[i])
           /\ Number(b) = f[Len(b)]
<1> DEFINE n == Len(b)
           Is(f) == f = [i \in 0..n |-> IF i = 0 THEN 0 ELSE Shifted(f[i - 1], b[i])]
           f0 == CHOOSE f : Is(f)
<1>1. n \in Nat /\ b \in [1..n -> Nat]
  BY LenProperties
<1>2. Number(b) = f0[n]
  BY Zenon DEF Number, Shifted
<1> HIDE DEF n
<1>3. \E f : Is(f)
  <2>1. PICK f \in [0..n -> Nat] : Digits(f, 0, b, n)
    BY <1>1, DigitsExist
  <2> WITNESS f
  <2> QED
    BY <2>1 DEF Digits
<1>4. Is(f0)
  BY <1>3
<1> HIDE DEF f0
<1>5. f0 \in [0..n -> Nat] /\ f0[0] = 0 /\ \A i \in 1..n : f0[i] = Shifted(f0[i - 1], b[i])
  <2>1. AreDigits(f0, 0, b, n)
    BY <1>4, Zenon DEF AreDigits
  <2> QED
    BY <2>1, NumberDigits DEF n
<1> QED
  BY <1>2, <1>5 DEF n

\* What is left of a number when digits are cut off from the right.
LEMMA DigitOf ==
  ASSUME NEW v \in Nat, NEW p \in Nat, p # 0
  PROVE  /\ v \div p \in Nat /\ (v \div p) % Radix \in Bytes
         /\ Shifted(v \div Shifted(p, 0), (v \div p) % Radix) = v \div p
<1>1. Radix \in Nat /\ Radix # 0 /\ Radix # 1
  BY FramesAssumption
<1>2. v \div p \in Nat
  OBVIOUS
<1>3. v \div (p * Radix) = (v \div p) \div Radix
  BY <1>1
<1>4. Shifted(p, 0) = p * Radix
  BY <1>1 DEF Shifted
<1> DEFINE q == v \div p
<1>5. q \in Nat
  BY <1>2
<1> HIDE DEF q
<1>6. q % Radix \in Bytes /\ ((q \div Radix) * Radix) + (q % Radix) = q
  BY <1>1, <1>5 DEF Bytes
<1>7. Shifted(v \div Shifted(p, 0), q % Radix) = q
  <2>1. v \div Shifted(p, 0) = q \div Radix
    BY <1>3, <1>4 DEF q
  <2>2. Shifted(q \div Radix, q % Radix) = q
    BY <1>6 DEF Shifted
  <2> QED
    BY <2>1, <2>2
<1> QED
  BY <1>2, <1>6, <1>7 DEF q

\* A number below Radix^n is that of its n digits.
LEMMA DigitsValue ==
  ASSUME NEW n \in 0..8, NEW v \in Nat, v < Pow[n],
         NEW b, b = [i \in 1..n |-> (v \div Pow[n - i]) % Radix]
  PROVE  b \in Seq(Bytes) /\ Len(b) = n /\ Number(b) = v
<1>1. ASSUME NEW i \in 0..n PROVE Pow[n - i] \in Nat /\ Pow[n - i] # 0
  <2> DEFINE j == n - i
  <2>1. j \in 0..8
    OBVIOUS
  <2> HIDE DEF j
  <2>2. Pow[j] \in Nat /\ Pow[j] # 0
    BY <2>1, PowValues
  <2> QED
    BY <2>2 DEF j
<1>2. ASSUME NEW i \in 1..n
      PROVE  /\ b[i] \in Bytes
             /\ Shifted(v \div Pow[n - (i - 1)], b[i]) = v \div Pow[n - i]
  <2> DEFINE p == Pow[n - i]
  <2>1. p \in Nat /\ p # 0 /\ b[i] = (v \div p) % Radix
    BY <1>1
  <2>2. Pow[n - (i - 1)] = Shifted(p, 0)
    <3>1. n - (i - 1) \in 1..8 /\ n - (i - 1) - 1 = n - i
      OBVIOUS
    <3> QED
      BY <3>1, PowValues
  <2> HIDE DEF p
  <2>3. (v \div p) % Radix \in Bytes /\ Shifted(v \div Shifted(p, 0), (v \div p) % Radix) = v \div p
    BY <2>1, DigitOf
  <2> QED
    BY <2>1, <2>2, <2>3 DEF p
<1>3. b \in Seq(Bytes) /\ Len(b) = n
  <2>1. b \in [1..n -> Bytes]
    BY <1>2
  <2> QED
    BY <2>1, SeqDef
<1>4. b \in Seq(Nat)
  <2>1. Bytes \subseteq Nat
    BY FramesAssumption DEF Bytes
  <2> QED
    BY <1>3, <2>1, SeqMonotonic
<1>5. PICK f \in [0..n -> Nat] :
        /\ f[0] = 0 /\ \A i \in 1..n : f[i] = Shifted(f[i - 1], b[i])
        /\ Number(b) = f[n]
  BY <1>3, <1>4, NumberValues
<1> DEFINE V == {i \in 0..n : f[i] = v \div Pow[n - i]}
<1>6. 0 \in V
  <2>1. Pow[n] \in Nat /\ Pow[n] # 0 /\ n - 0 = n
    BY PowValues
  <2>2. v \div Pow[n] = 0
    BY <2>1
  <2> QED
    BY <1>5, <2>1, <2>2
<1>7. ASSUME NEW i \in 1..n, i - 1 \in V PROVE i \in V
  <2>1. f[i - 1] = v \div Pow[n - (i - 1)]
    BY <1>7
  <2>2. f[i] = v \div Pow[n - i]
    BY <1>2, <1>5, <2>1
  <2> QED
    BY <2>2
<1> HIDE DEF V
<1>8. \A i \in 0..n : i \in V
  <2>1. n \in Nat /\ \A i \in 1..n : i - 1 \in V => i \in V
    BY <1>7
  <2> QED
    BY <1>6, <2>1, UpTo
<1>9. f[n] = v \div Pow[0]
  <2>1. n \in 0..n /\ n - n = 0
    OBVIOUS
  <2> QED
    BY <1>8, <2>1 DEF V
<1>10. v \div Pow[0] = v
  BY PowValues
<1> QED
  BY <1>3, <1>5, <1>9, <1>10

LEMMA ReverseTwice ==
  ASSUME NEW S, NEW s \in Seq(S)
  PROVE  Reverse(s) \in Seq(S) /\ Len(Reverse(s)) = Len(s) /\ Reverse(Reverse(s)) = s
<1> DEFINE n == Len(s)
           r == Reverse(s)
           q == Reverse(r)
<1>1. n \in Nat /\ s \in [1..n -> S] /\ s = [i \in 1..n |-> s[i]]
  BY LenProperties
<1>2. r = [i \in 1..n |-> s[(n - i) + 1]]
  BY DEF Reverse
<1> HIDE DEF n, r
<1>3. r \in [1..n -> S]
  BY <1>1, <1>2
<1>4. r \in Seq(S) /\ Len(r) = n
  BY <1>1, <1>3, SeqDef
<1>5. q = [i \in 1..n |-> r[(n - i) + 1]]
  BY <1>4 DEF Reverse
<1> HIDE DEF q
<1>6. \A i \in 1..n : q[i] = s[i]
  BY <1>1, <1>2, <1>5
<1>7. q = s
  BY <1>1, <1>5, <1>6
<1> QED
  BY <1>4, <1>7 DEF n, r, q

\* What is written into a length field of a width that holds it is read from it.
LEMMA UintOfPutUint ==
  ASSUME NEW order, NEW n \in 0..8, NEW v \in Nat, v < Pow[n]
  PROVE  /\ PutUint(order, n, v) \in Seq(Bytes) /\ Len(PutUint(order, n, v)) = n
         /\ Uint(order, PutUint(order, n, v)) = v
<1> DEFINE big == [i \in 1..n |-> (v \div Pow[n - i]) % Radix]
<1>1. big \in Seq(Bytes) /\ Len(big) = n /\ Number(big) = v
  BY DigitsValue
<1>2. PutUint(order, n, v) = IF order = "BigEndian" THEN big ELSE Reverse(big)
  BY DEF PutUint
<1> HIDE DEF big
<1>3. Reverse(big) \in Seq(Bytes) /\ Len(Reverse(big)) = n /\ Reverse(Reverse(big)) = big
  BY <1>1, ReverseTwice
<1> QED
  BY <1>1, <1>2, <1>3 DEF Uint


-----------------------------------------------------------------------------
(* The invariant.                                                           *)

FrameBytes(cc, m) == Header(cc) \o Encode(cc, m).bytes

\* The frames of the messages after the g-th, up to the k-th.
Between(cc, s, g, k) == [i \in 1..(k - g) |-> FrameBytes(cc, s[g + i])]

Sending ==
  /\ codec \in Codecs
  /\ sent \in Seq(Messages)
  /\ wire \in Seq(Seq(Bytes))
  /\ whole \in BOOLEAN /\ reading \in BOOLEAN
  /\ \A i \in 1..Len(sent) : Sendable(codec, sent[i]) /\ Encode(codec, sent[i]).ok

\* The codecs that cut by size, however the packets are cut.
CutInv ==
  codec.kind \in {"BuiltIn", "FixedLength"} =>
    /\ inbound = <<>>
    /\ buffer \in Seq(Bytes)
    /\ got \in Seq(Seq(Bytes))
    /\ FlattenSeq(got) \o Unread = Stream

\* Frames of a fixed length in packets of such frames.
FixedInv ==
  codec.kind = "FixedLength" /\ whole =>
    /\ \A i \in 1..Len(got) : Len(got[i]) = codec.frameLength
    /\ \A i \in 1..Len(wire) : Len(wire[i]) % codec.frameLength = 0
    /\ reading => Len(buffer) % codec.frameLength = 0

\* The others, in packets that end with a frame: React got the first messages,
\* the buffer holds the frames of the next ones, and the wire those of the rest.
Framed(cc, s, g, w, b, rd) ==
  /\ Len(g) + Len(w) <= Len(s)
  /\ \A i \in 1..Len(g) : g[i] = FrameOf(cc, s[i])
  /\ \A i \in 1..Len(w) : w[i] = FrameBytes(cc, s[(Len(s) - Len(w)) + i])
  /\ rd => b = FlattenSeq(Between(cc, s, Len(g), Len(s) - Len(w)))
  /\ ~rd => Len(g) + Len(w) = Len(s)

FramedInv ==
  codec.kind \in {"Delimiter", "LengthField"} /\ whole /\ NoneEmpty =>
    /\ inbound = <<>>
    /\ got \in Seq(Seq(Bytes))
    /\ Framed(codec, sent, got, wire, buffer, reading)

Inv == Sending /\ CutInv /\ FixedInv /\ FramedInv

-----------------------------------------------------------------------------
(* The buffers when nothing was kept.                                       *)

LEMMA ReadEmpty ==
  ASSUME NEW S, NEW b \in Seq(S)
  PROVE  Read(Buffers(<<>>, b)) = b
BY ConcatEmptySeq DEF Read, Buffers

LEMMA ShiftEmpty ==
  ASSUME NEW S, NEW b \in Seq(S), NEW n \in 1..Len(b)
  PROVE  ShiftN(Buffers(<<>>, b), n) = Buffers(<<>>, Drop(b, n))
<1> DEFINE c == Buffers(<<>>, b)
<1>1. Read(c) = b /\ c.inbound = <<>> /\ c.buffer = b
  BY ReadEmpty DEF Buffers
<1>2. Len(<<>>) = 0 /\ Len(b) \in Nat
  BY EmptySeq, LenProperties
<1> HIDE DEF c
<1>3. ~(Len(b) < n \/ n <= 0) /\ ~(Len(<<>>) > n) /\ n - Len(<<>>) = n
  BY <1>2
<1>4. ShiftN(c, n) = Buffers(<<>>, Drop(b, n))
  BY <1>1, <1>3, Zenon DEF ShiftN
<1> QED
  BY <1>4 DEF c

\* The codecs that cut by size take bytes from the front as long as there are
\* any, a whole frame of a fixed length when it is there.
LEMMA CutDecode ==
  ASSUME NEW cc \in Codecs, cc.kind \in {"BuiltIn", "FixedLength"},
         NEW b \in Seq(Bytes)
  PROVE  /\ b = <<>> => ~Decode(cc, Buffers(<<>>, b)).ok
         /\ b # <<>> =>
              \E l \in 1..Len(b) :
                /\ Decode(cc, Buffers(<<>>, b)) = Frame(Take(b, l), Buffers(<<>>, Drop(b, l)))
                /\ cc.kind = "FixedLength" /\ cc.frameLength <= Len(b) => l = cc.frameLength
<1> DEFINE c == Buffers(<<>>, b)
<1>1. Read(c) = b /\ Len(b) \in Nat /\ (b = <<>> <=> Len(b) = 0)
  BY ReadEmpty, LenProperties, EmptySeq
<1>2. ASSUME NEW n \in 1..Len(b) PROVE ShiftN(c, n) = Buffers(<<>>, Drop(b, n))
  BY ShiftEmpty
<1>3. Take(b, Len(b)) = b
  BY SubSeqFull DEF Take
<1>4. Drop(b, Len(b)) = <<>>
  <2>1. Len(b) \in Int /\ Len(b) + 1 \in Int /\ Len(b) < Len(b) + 1
    BY <1>1
  <2> QED
    BY <2>1, SubSeqEmpty DEF Drop
<1> HIDE DEF c
<1>5. CASE cc.kind = "BuiltIn"
  <2>1. Decode(cc, c) = BuiltInDecode(c)
    BY <1>5 DEF Decode
  <2>2. b = <<>> => ~Decode(cc, c).ok
    BY <1>1, <2>1 DEF BuiltInDecode, NoFrame
  <2>3. b # <<>> => Decode(cc, c) = Frame(Take(b, Len(b)), Buffers(<<>>, Drop(b, Len(b))))
    BY <1>1, <1>3, <1>4, <2>1 DEF BuiltInDecode, ResetBuffer
  <2>4. b # <<>> => Len(b) \in 1..Len(b)
    BY <1>1
  <2> QED
    BY <1>5, <2>2, <2>3, <2>4 DEF c
<1>6. CASE cc.kind = "FixedLength"
  <2> DEFINE fl == cc.frameLength
             l == IF Len(b) < fl THEN Len(b) ELSE fl
  <2>1. fl \in Nat \ {0}
    BY <1>6, CodecsAssumption
  <2>2. Decode(cc, c) = FixedLengthDecode(fl, c)
    BY <1>6 DEF Decode
  <2> HIDE DEF fl
  <2>3. b # <<>> => l \in 1..Len(b)
    BY <1>1, <2>1
  <2>4. ReadN(c, fl) = Take(b, l)
    <3>1. ~(fl <= 0)
      BY <2>1
    <3> QED
      BY <1>1, <1>3, <3>1 DEF ReadN
  <2>5. fl <= Len(b) => l = fl
    BY <1>1, <2>1
  <2>6. l \in 0..Len(b)
    BY <1>1, <2>1
  <2> HIDE DEF l
  <2>7. Len(Take(b, l)) = l /\ Take(b, l) \in Seq(Bytes)
    BY <2>6, TakeDrop
  <2>8. Take(b, l) = <<>> <=> l = 0
    BY <2>7, EmptySeq
  <2>9. CASE b = <<>>
    <3>1. l = 0
      BY <1>1, <2>6, <2>9
    <3>2. ReadN(c, fl) = <<>>
      BY <2>4, <2>8, <3>1
    <3>3. ~FixedLengthDecode(fl, c).ok
      BY <3>2 DEF FixedLengthDecode, NoFrame
    <3> QED
      BY <2>2, <2>9, <3>3 DEF c
  <2>10. CASE b # <<>>
    <3>1. l \in 1..Len(b) /\ l # 0
      BY <2>3, <2>10
    <3>2. ShiftN(c, l) = Buffers(<<>>, Drop(b, l))
      BY <1>2, <3>1
    <3>3. FixedLengthDecode(fl, c) = Frame(Take(b, l), Buffers(<<>>, Drop(b, l)))
      BY <2>4, <2>7, <2>8, <3>1, <3>2 DEF FixedLengthDecode
    <3> QED
      BY <2>2, <2>5, <2>10, <3>1, <3>3 DEF c, fl
  <2> QED
    BY <2>9, <2>10
<1> QED
  BY <1>5, <1>6

-----------------------------------------------------------------------------
(* The frame of a message.                                                  *)

LEMMA CutFrame ==
  ASSUME NEW cc \in Codecs, cc.kind \in {"BuiltIn", "FixedLength"},
         NEW m \in Messages, Encode(cc, m).ok
  PROVE  /\ FrameBytes(cc, m) = m /\ m \in Seq(Bytes)
         /\ cc.kind = "FixedLength" => Len(m) % cc.frameLength = 0
<1>1. m \in Seq(Bytes) /\ <<>> \o m = m
  BY FramesAssumption, ConcatEmptySeq
<1>2. Header(cc) = <<>>
  BY DEF Header
<1>3. Encode(cc, m).bytes = m /\ (cc.kind = "FixedLength" => Len(m) % cc.frameLength = 0)
  <2>1. CASE cc.kind = "BuiltIn"
    BY <2>1 DEF Encode, BuiltInEncode, Ok
  <2>2. CASE cc.kind = "FixedLength"
    <3>1. Encode(cc, m) = FixedLengthEncode(cc.frameLength, m)
      BY <2>2 DEF Encode
    <3> QED
      BY <3>1 DEF FixedLengthEncode, Ok, Error
  <2> QED
    BY <2>1, <2>2
<1> QED
  BY <1>1, <1>2, <1>3 DEF FrameBytes

LEMMA DelimiterFrame ==
  ASSUME NEW cc \in Codecs, cc.kind = "Delimiter", NEW m \in Messages
  PROVE  /\ FrameBytes(cc, m) = Append(m, cc.delimiter) /\ m \in Seq(Bytes)
         /\ cc.delimiter \in Bytes /\ FrameOf(cc, m) = m
<1>1. m \in Seq(Bytes) /\ cc.delimiter \in Bytes
  BY FramesAssumption, CodecsAssumption
<1>2. Append(m, cc.delimiter) \in Seq(Bytes)
  BY <1>1, AppendProperties
<1>3. Encode(cc, m).bytes = Append(m, cc.delimiter)
  BY DEF Encode, DelimiterEncode, Ok
<1>4. <<>> \o Append(m, cc.delimiter) = Append(m, cc.delimiter)
  BY <1>2, ConcatEmptySeq
<1>5. Header(cc) = <<>> /\ FrameOf(cc, m) = m
  BY DEF Header, FrameOf
<1> QED
  BY <1>1, <1>3, <1>4, <1>5 DEF FrameBytes

\* A header, a length field that Uint reads as the length, and the message.
Field(ec, m) == PutUint(ec.ByteOrder, ec.LengthFieldLength, EncodedLength(ec, m))

LEMMA LengthFieldFrame ==
  ASSUME NEW cc \in Codecs, cc.kind = "LengthField",
         NEW m \in Messages, Encode(cc, m).ok
  PROVE  /\ FrameBytes(cc, m) = Header(cc) \o (Field(cc.encoder, m) \o m)
         /\ m \in Seq(Bytes)
         /\ cc.decoder.LengthFieldOffset \in Nat
         /\ cc.decoder.LengthFieldLength \in Supported
         /\ cc.decoder.InitialBytesToStrip \in
              0..(cc.decoder.LengthFieldOffset + cc.decoder.LengthFieldLength)
         /\ Header(cc) \in Seq(Bytes) /\ Len(Header(cc)) = cc.decoder.LengthFieldOffset
         /\ Field(cc.encoder, m) \in Seq(Bytes)
         /\ Len(Field(cc.encoder, m)) = cc.decoder.LengthFieldLength
         /\ Uint(cc.decoder.ByteOrder, Field(cc.encoder, m)) + cc.decoder.LengthAdjustment = Len(m)
<1> DEFINE ec == cc.encoder
           dc == cc.decoder
           n == ec.LengthFieldLength
           o == dc.LengthFieldOffset
           v == EncodedLength(ec, m)
<1>1. Matching(ec, dc)
  BY CodecsAssumption
<1>2. m \in Seq(Bytes) /\ Len(m) \in Nat
  BY FramesAssumption, LenProperties
<1>3. Encode(cc, m) = LengthFieldEncode(ec, m)
  BY DEF Encode
<1> HIDE DEF ec, dc
<1>4. /\ ~(v < 0) /\ n \in Supported /\ ~(n \in Checked /\ v >= Pow[n])
      /\ Encode(cc, m).bytes = Field(ec, m) \o m
  <2>1. LengthFieldEncode(ec, m).ok
    BY <1>3
  <2>2. ~(v < 0 \/ n \notin Supported \/ (n \in Checked /\ v >= Pow[n]))
    BY <2>1, Zenon DEF LengthFieldEncode, Error
  <2>3. LengthFieldEncode(ec, m).bytes = Field(ec, m) \o m
    BY <2>2 DEF LengthFieldEncode, Ok, Field
  <2> QED
    BY <1>3, <2>2, <2>3
<1>5. /\ dc.ByteOrder = ec.ByteOrder /\ dc.LengthFieldLength = n
      /\ ec.LengthAdjustment \in Int
      /\ dc.LengthAdjustment =
           -ec.LengthAdjustment - (IF ec.LengthIncludesLengthFieldLength THEN n ELSE 0)
      /\ o \in Nat
      /\ dc.InitialBytesToStrip \in 0..(o + n)
  BY <1>1 DEF Matching
<1>6. n \in 1..8 /\ n \in 0..8
  BY <1>4 DEF Supported
<1>7. v \in Nat /\ v + dc.LengthAdjustment = Len(m)
  <2> DEFINE a == ec.LengthAdjustment
             x == IF ec.LengthIncludesLengthFieldLength THEN n ELSE 0
             l == Len(m)
  <2>1. x \in Nat /\ l \in Nat /\ a \in Int
    BY <1>2, <1>5, <1>6
  <2>2. v = (l + a) + x
    BY Zenon DEF EncodedLength
  <2>3. dc.LengthAdjustment = (-a) - x
    BY <1>5
  <2>4. ~(v < 0)
    BY <1>4
  <2> HIDE DEF a, x, l, v
  <2>5. v \in Nat /\ v + dc.LengthAdjustment = l
    BY <2>1, <2>2, <2>3, <2>4
  <2> QED
    BY <2>5 DEF l
<1>8. v < Pow[n]
  <2>1. CASE n \in Checked
    <3>1. Pow[n] \in Nat
      BY <1>6, PowValues
    <3> HIDE DEF v
    <3> QED
      BY <1>4, <1>7, <2>1, <3>1
  <2>2. CASE n \notin Checked
    BY <1>1, <1>4, <2>2 DEF Matching
  <2> QED
    BY <2>1, <2>2
<1> HIDE DEF v, n
<1>10. /\ PutUint(ec.ByteOrder, n, v) \in Seq(Bytes) /\ Len(PutUint(ec.ByteOrder, n, v)) = n
       /\ Uint(ec.ByteOrder, PutUint(ec.ByteOrder, n, v)) = v
  <2>1. v \in Nat /\ n \in 0..8 /\ v < Pow[n]
    BY <1>6, <1>7, <1>8
  <2> QED
    BY <2>1, UintOfPutUint
<1>11. Field(ec, m) = PutUint(ec.ByteOrder, n, v)
  BY DEF Field, v, n
<1>12. Header(cc) \in Seq(Bytes) /\ Len(Header(cc)) = o
  <2>1. Header(cc) = [i \in 1..o |-> 0]
    BY DEF Header, dc
  <2>2. 0 \in Bytes
    BY FramesAssumption DEF Bytes
  <2>3. [i \in 1..o |-> 0] \in Seq(Bytes) /\ Len([i \in 1..o |-> 0]) = o
    BY <1>5, <2>2, SeqDef
  <2> QED
    BY <2>1, <2>3
<1>13. FrameBytes(cc, m) = Header(cc) \o (Field(ec, m) \o m)
  BY <1>4 DEF FrameBytes
<1> QED
  BY <1>2, <1>4, <1>5, <1>7, <1>10, <1>11, <1>12, <1>13 DEF ec, dc

-----------------------------------------------------------------------------
(* A frame at the front of the stream is decoded.                           *)

LEMMA CutOff ==
  ASSUME NEW S, NEW s \in Seq(S), NEW r \in Seq(S)
  PROVE  /\ s \o r \in Seq(S) /\ Len(s \o r) = Len(s) + Len(r)
         /\ Take(s \o r, Len(s)) = s /\ Drop(s \o r, Len(s)) = r
<1> DEFINE b == s \o r
           l == Len(s)
           t == Take(b, l)
           d == Drop(b, l)
<1>1. /\ b \in Seq(S) /\ Len(b) = l + Len(r) /\ l \in Nat /\ Len(r) \in Nat
      /\ \A i \in 1..(l + Len(r)) : b[i] = IF i <= l THEN s[i] ELSE r[i - l]
  BY ConcatProperties, LenProperties
<1> HIDE DEF b
<1>2. l \in 0..Len(b)
  BY <1>1
<1>3. /\ t \in Seq(S) /\ Len(t) = l /\ \A i \in 1..l : t[i] = b[i]
      /\ d \in Seq(S) /\ Len(d) = Len(b) - l /\ \A i \in 1..(Len(b) - l) : d[i] = b[l + i]
  BY <1>1, <1>2, TakeDrop
<1> HIDE DEF t, d
<1>4. t = s
  <2>1. \A i \in 1..l : i \in 1..(l + Len(r)) /\ i <= l
    BY <1>1
  <2>2. \A i \in 1..Len(t) : t[i] = s[i]
    BY <1>1, <1>3, <2>1
  <2>3. Len(t) = Len(s)
    BY <1>3
  <2> QED
    BY <1>3, <2>2, <2>3, SeqEqual
<1>5. d = r
  <2>1. Len(d) = Len(r)
    BY <1>1, <1>3
  <2>2. ASSUME NEW i \in 1..Len(r) PROVE d[i] = r[i]
    <3> DEFINE j == l + i
    <3>1. j \in 1..(l + Len(r)) /\ ~(j <= l) /\ j - l = i /\ i \in 1..(Len(b) - l)
      BY <1>1
    <3>2. d[i] = b[j]
      BY <1>3, <3>1
    <3> HIDE DEF j
    <3>3. b[j] = r[i]
      BY <1>1, <3>1
    <3> QED
      BY <3>2, <3>3
  <2> QED
    BY <1>3, <2>1, <2>2, SeqEqual
<1> QED
  BY <1>1, <1>4, <1>5 DEF b, l, t, d

LEMMA DelimiterFirst ==
  ASSUME NEW cc \in Codecs, cc.kind = "Delimiter",
         NEW m \in Messages, Sendable(cc, m), NEW r \in Seq(Bytes)
  PROVE  Decode(cc, Buffers(<<>>, FrameBytes(cc, m) \o r)) = Frame(FrameOf(cc, m), Buffers(<<>>, r))
<1> DEFINE e == cc.delimiter
           f == Append(m, e)
           c == Buffers(<<>>, f \o r)
           b == Read(c)
           l == Len(m)
           at == {i \in 1..Len(b) : b[i] = e}
           idx == CHOOSE i \in at : \A j \in at : i <= j
<1>1. /\ FrameBytes(cc, m) = f /\ m \in Seq(Bytes) /\ e \in Bytes /\ FrameOf(cc, m) = m
      /\ l \in Nat /\ Len(r) \in Nat
  BY DelimiterFrame, LenProperties
<1>2. e \notin {m[i] : i \in 1..l}
  BY <1>1, RangeEquality DEF Sendable
<1>3. /\ f \in Seq(Bytes) /\ Len(f) = l + 1 /\ f[l + 1] = e
      /\ \A i \in 1..l : f[i] = m[i]
  BY <1>1, AppendProperties
<1> HIDE DEF f
<1>4. /\ b \in Seq(Bytes) /\ Len(b) = (l + 1) + Len(r)
      /\ \A i \in 1..(l + 1) : b[i] = f[i]
      /\ Drop(b, l + 1) = r
  <2> DEFINE n == Len(f)
  <2>1. b = f \o r /\ f \o r \in Seq(Bytes)
    BY <1>3, ConcatProperties, ReadEmpty
  <2> HIDE DEF b, c
  <2>2. Len(b) = n + Len(r) /\ \A i \in 1..(n + Len(r)) : b[i] = IF i <= n THEN f[i] ELSE r[i - n]
    BY <1>3, <2>1, ConcatProperties
  <2>3. Drop(b, n) = r
    BY <1>3, <2>1, CutOff
  <2>4. n = l + 1
    BY <1>3
  <2> HIDE DEF n
  <2>5. \A i \in 1..(l + 1) : i \in 1..(n + Len(r)) /\ i <= n
    BY <1>1, <2>4
  <2> QED
    BY <2>1, <2>2, <2>3, <2>4, <2>5
<1>5. b = f \o r
  BY <1>3, ConcatProperties, ReadEmpty
<1> HIDE DEF b, e, l, c
<1>6. l + 1 \in 1..Len(b) /\ l + 1 \in 1..(l + 1)
  BY <1>1, <1>4
<1>7. b[l + 1] = e
  BY <1>3, <1>4, <1>6
<1>8. ASSUME NEW i \in 1..l PROVE b[i] = m[i] /\ b[i] # e
  <2>1. i \in 1..(l + 1)
    BY <1>1
  <2>2. b[i] = m[i]
    BY <1>3, <1>4, <2>1
  <2> QED
    BY <1>2, <2>2
<1>9. l + 1 \in at /\ \A j \in at : l + 1 <= j
  <2>1. l + 1 \in at
    BY <1>6, <1>7
  <2>2. ASSUME NEW j \in at PROVE l + 1 <= j
    <3>1. j \in 1..Len(b) /\ b[j] = e
      OBVIOUS
    <3>2. j \notin 1..l
      BY <1>8, <3>1
    <3> HIDE DEF at
    <3> QED
      BY <1>1, <1>4, <3>1, <3>2
  <2> QED
    BY <2>1, <2>2
<1>10. at \subseteq Int
  <2>1. Len(b) \in Int
    BY <1>1, <1>4
  <2> QED
    BY <2>1
<1>11. idx = l + 1
  <2> DEFINE x == l + 1
  <2>1. x \in at /\ \A j \in at : x <= j
    BY <1>9
  <2> HIDE DEF at, x
  <2>2. idx \in at /\ \A j \in at : idx <= j
    BY <2>1
  <2> HIDE DEF idx
  <2>3. idx <= x /\ x <= idx /\ idx \in Int /\ x \in Int
    BY <1>10, <2>1, <2>2
  <2>4. idx = x
    BY <2>3
  <2> QED
    BY <2>4 DEF x
<1>12. Take(b, l) = m
  <2>1. l \in 0..Len(b)
    BY <1>1, <1>4
  <2> DEFINE t == Take(b, l)
  <2>2. t \in Seq(Bytes) /\ Len(t) = l /\ \A i \in 1..l : t[i] = b[i]
    BY <1>4, <2>1, TakeDrop
  <2> HIDE DEF t
  <2>3. Len(t) = Len(m) /\ \A i \in 1..Len(t) : t[i] = m[i]
    BY <1>8, <2>2 DEF l
  <2>4. t = m
    BY <1>1, <2>2, <2>3, SeqEqual
  <2> QED
    BY <2>4 DEF t
<1>14. ShiftN(c, l + 1) = Buffers(<<>>, r)
  <2>1. c = Buffers(<<>>, b)
    BY <1>5 DEF c
  <2> QED
    BY <1>4, <1>6, <2>1, ShiftEmpty
<1>15. DelimiterDecode(e, c) = IF at = {} THEN NoFrame(c) ELSE Frame(Take(b, idx - 1), ShiftN(c, idx))
  BY Zenon DEF DelimiterDecode, b
<1>16. at # {}
  BY <1>9
<1> HIDE DEF at, idx
<1>17. idx - 1 = l
  BY <1>1, <1>11
<1>18. DelimiterDecode(e, c) = Frame(m, Buffers(<<>>, r))
  <2>1. Take(b, idx - 1) = m
    BY <1>12, <1>17
  <2>2. ShiftN(c, idx) = Buffers(<<>>, r)
    BY <1>11, <1>14
  <2> QED
    BY <1>15, <1>16, <2>1, <2>2
<1>19. Decode(cc, c) = DelimiterDecode(e, c)
  BY DEF Decode, e
<1> QED
  BY <1>1, <1>18, <1>19 DEF c

LEMMA SubSeqOfDrop ==
  ASSUME NEW S, NEW b \in Seq(S), NEW p \in Nat, NEW n \in Nat, p + n <= Len(b)
  PROVE  SubSeq(b, p + 1, p + n) = Take(Drop(b, p), n)
<1> DEFINE i0 == p + 1
           j0 == p + n
           y == SubSeq(b, i0, j0)
           d == Drop(b, p)
           t == Take(d, n)
<1>1. Len(b) \in Nat /\ p \in 0..Len(b) /\ i0 \in Int /\ j0 \in Int
  BY LenProperties
<1>2. \A i \in i0..j0 : b[i] \in S
  <2>1. \A i \in i0..j0 : i \in 1..Len(b)
    BY <1>1
  <2> QED
    BY <2>1, ElementOfSeq
<1> HIDE DEF i0, j0
<1>3. /\ y \in Seq(S) /\ Len(y) = IF i0 <= j0 THEN j0 - i0 + 1 ELSE 0
      /\ \A i \in 1..(j0 - i0 + 1) : y[i] = b[i0 + i - 1]
  BY <1>1, <1>2, SubSeqProperties
<1>4. d \in Seq(S) /\ Len(d) = Len(b) - p /\ \A i \in 1..(Len(b) - p) : d[i] = b[p + i]
  BY <1>1, TakeDrop
<1> HIDE DEF y, d
<1>5. t \in Seq(S) /\ Len(t) = n /\ \A i \in 1..n : t[i] = d[i]
  <2>1. n \in 0..Len(d)
    BY <1>1, <1>4
  <2> QED
    BY <1>4, <2>1, TakeDrop
<1> HIDE DEF t
<1>6. Len(y) = n
  BY <1>3 DEF i0, j0
<1>7. ASSUME NEW i \in 1..n PROVE y[i] = t[i]
  <2>1. i \in 1..(j0 - i0 + 1) /\ i0 + i - 1 = p + i /\ i \in 1..(Len(b) - p)
    BY <1>1 DEF i0, j0
  <2>2. y[i] = b[p + i]
    BY <1>3, <2>1
  <2> QED
    BY <1>4, <1>5, <2>1, <2>2
<1>8. y = t
  BY <1>3, <1>5, <1>6, <1>7, SeqEqual
<1> QED
  BY <1>8 DEF y, t, d, i0, j0

LEMMA JoinedSequences ==
  ASSUME NEW S, NEW s \in Seq(S), NEW t \in Seq(S)
  PROVE  Joined(s, t) \in Seq(S) /\ Len(Joined(s, t)) = Len(s) + Len(t)
BY ConcatProperties DEF Joined

LEMMA JoinedAssociative ==
  ASSUME NEW S, NEW s \in Seq(S), NEW t \in Seq(S), NEW u \in Seq(S)
  PROVE  Joined(Joined(s, t), u) = Joined(s, Joined(t, u))
BY ConcatAssociative DEF Joined

LEMMA JoinedCutOff ==
  ASSUME NEW S, NEW s \in Seq(S), NEW r \in Seq(S)
  PROVE  Take(Joined(s, r), Len(s)) = s /\ Drop(Joined(s, r), Len(s)) = r
BY CutOff DEF Joined

\* Three sequences, a frame, and what is behind them.
PiecesOf(S, h, x, m, r, f, b) ==
  /\ b \in Seq(S) /\ f \in Seq(S)
  /\ Len(f) = Len(h) + Len(x) + Len(m)
  /\ Len(b) = Len(h) + Len(x) + Len(m) + Len(r)
  /\ Len(Drop(b, Len(h))) = Len(x) + Len(m) + Len(r)
  /\ SubSeq(b, Len(h) + 1, Len(h) + Len(x)) = x
  /\ Len(Drop(b, Len(h) + Len(x))) = Len(m) + Len(r)

LEMMA Pieces ==
  ASSUME NEW S, NEW h \in Seq(S), NEW x \in Seq(S), NEW m \in Seq(S), NEW r \in Seq(S)
  PROVE  LET f == Joined(h, Joined(x, m)) IN PiecesOf(S, h, x, m, r, f, Joined(f, r))
<1> DEFINE p == Len(h)
           n == Len(x)
           a == Joined(x, m)
           f == Joined(h, a)
           b == Joined(f, r)
           t == Joined(m, r)
           u == Joined(x, t)
           v == Joined(h, x)
           d == Drop(b, p)
<1>1. p \in Nat /\ n \in Nat /\ Len(m) \in Nat /\ Len(r) \in Nat
  BY LenProperties
<1>2. /\ t \in Seq(S) /\ Len(t) = Len(m) + Len(r)
      /\ a \in Seq(S) /\ Len(a) = n + Len(m)
      /\ v \in Seq(S) /\ Len(v) = p + n
  BY JoinedSequences
<1>3. Joined(a, r) = u /\ Joined(v, t) = Joined(h, Joined(x, t))
  <2>1. Joined(a, r) = u
    BY JoinedAssociative
  <2> HIDE DEF t
  <2>2. Joined(v, t) = Joined(h, Joined(x, t))
    BY <1>2, JoinedAssociative
  <2> QED
    BY <2>1, <2>2
<1> HIDE DEF a, t
<1>4. Joined(f, r) = Joined(h, Joined(a, r))
  BY <1>2, JoinedAssociative
<1>5. u \in Seq(S) /\ Len(u) = n + Len(t) /\ Take(u, n) = x
  <2>1. u \in Seq(S) /\ Len(u) = n + Len(t)
    BY <1>2, JoinedSequences
  <2>2. Take(u, n) = x
    BY <1>2, JoinedCutOff
  <2> QED
    BY <2>1, <2>2
<1>6. f \in Seq(S) /\ Len(f) = p + Len(a)
  BY <1>2, JoinedSequences
<1>7. b = Joined(h, u) /\ b = Joined(v, t)
  <2>1. u = Joined(x, t) /\ b = Joined(f, r)
    OBVIOUS
  <2> HIDE DEF u, v, f, b
  <2> QED
    BY <1>3, <1>4, <2>1, Zenon
<1> HIDE DEF u, v, f
<1>8. Drop(Joined(h, u), p) = u /\ Joined(h, u) \in Seq(S) /\ Len(Joined(h, u)) = p + Len(u)
  <2>1. Joined(h, u) \in Seq(S) /\ Len(Joined(h, u)) = p + Len(u)
    BY <1>5, JoinedSequences
  <2>2. Drop(Joined(h, u), p) = u
    BY <1>5, JoinedCutOff
  <2> QED
    BY <2>1, <2>2
<1>9. Drop(Joined(v, t), Len(v)) = t
  BY <1>2, JoinedCutOff
<1> HIDE DEF b
<1>10. b \in Seq(S) /\ Len(b) = p + Len(u) /\ d = u
  BY <1>7, <1>8, Zenon
<1>11. Drop(b, p + n) = t
  BY <1>2, <1>7, <1>9, Zenon
<1> HIDE DEF p, n, d
<1>12. SubSeq(b, p + 1, p + n) = x
  <2>1. p + n <= Len(b)
    BY <1>1, <1>2, <1>5, <1>10
  <2>2. SubSeq(b, p + 1, p + n) = Take(Drop(b, p), n)
    BY <1>1, <1>10, <2>1, SubSeqOfDrop
  <2> QED
    BY <1>5, <1>10, <2>2 DEF d
<1>13. /\ Len(b) = p + n + Len(m) + Len(r)
       /\ Len(f) = p + n + Len(m)
       /\ Len(d) = n + Len(m) + Len(r)
  BY <1>1, <1>2, <1>5, <1>6, <1>10
<1> QED
  BY <1>2, <1>6, <1>10, <1>11, <1>12, <1>13 DEF PiecesOf, p, n, d, b, f, a

LEMMA LengthFieldFirst ==
  ASSUME NEW cc \in Codecs, cc.kind = "LengthField",
         NEW m \in Messages, Encode(cc, m).ok, m # <<>>, NEW r \in Seq(Bytes)
  PROVE  Decode(cc, Buffers(<<>>, FrameBytes(cc, m) \o r)) = Frame(FrameOf(cc, m), Buffers(<<>>, r))
<1> DEFINE dc == cc.decoder
           h == Header(cc)
           x == Field(cc.encoder, m)
           f == FrameBytes(cc, m)
           c == Buffers(<<>>, f \o r)
           in == Read(c)
           start == dc.LengthFieldOffset
           n == dc.LengthFieldLength
           l == Len(m)
           full == start + n + l
<1>1. /\ f = h \o (x \o m) /\ m \in Seq(Bytes) /\ h \in Seq(Bytes) /\ x \in Seq(Bytes)
      /\ start \in Nat /\ n \in Supported /\ dc.InitialBytesToStrip \in 0..(start + n)
      /\ Len(h) = start /\ Len(x) = n
      /\ Uint(dc.ByteOrder, x) + dc.LengthAdjustment = l
  BY LengthFieldFrame
<1>2. n \in Nat \ {0} /\ l \in Nat \ {0} /\ Len(r) \in Nat
  BY <1>1, EmptySeq, LenProperties DEF Supported
<1>3. FrameOf(cc, m) = Drop(f, dc.InitialBytesToStrip)
  BY DEF FrameOf, FrameBytes
<1>4. Decode(cc, c) = LengthFieldDecode(dc, c)
  BY DEF Decode
<1> HIDE DEF h, x, f, dc
<1>5. f \in Seq(Bytes) /\ f \o r \in Seq(Bytes)
  BY <1>1, ConcatProperties
<1>6. in = f \o r
  BY <1>5, ReadEmpty
<1>7. c = Buffers(<<>>, in)
  BY <1>6
<1> HIDE DEF in, c, l, n, start
<1>8. /\ in \in Seq(Bytes) /\ Len(f) = full /\ Len(in) = full + Len(r)
      /\ Len(Drop(in, start)) = n + l + Len(r)
      /\ SubSeq(in, start + 1, start + n) = x
      /\ Len(Drop(in, start + n)) = l + Len(r)
  <2>1. f = Joined(h, Joined(x, m)) /\ in = Joined(f, r)
    BY <1>1, <1>6 DEF Joined
  <2>2. /\ in \in Seq(Bytes)
        /\ Len(f) = Len(h) + Len(x) + Len(m)
        /\ Len(in) = Len(h) + Len(x) + Len(m) + Len(r)
        /\ Len(Drop(in, Len(h))) = Len(x) + Len(m) + Len(r)
        /\ SubSeq(in, Len(h) + 1, Len(h) + Len(x)) = x
        /\ Len(Drop(in, Len(h) + Len(x))) = Len(m) + Len(r)
    <3> DEFINE p == Joined(h, Joined(x, m))
    <3>1. PiecesOf(Bytes, h, x, m, r, p, Joined(p, r))
      BY <1>1, Pieces
    <3>2. p = f /\ Joined(p, r) = in
      BY <2>1
    <3> HIDE DEF p
    <3>3. PiecesOf(Bytes, h, x, m, r, f, in)
      BY <3>1, <3>2, Zenon
    <3> QED
      BY <3>3 DEF PiecesOf
  <2> QED
    BY <1>1, <2>2 DEF l
<1>9. Take(in, full) = f /\ Drop(in, full) = r
  BY <1>5, <1>6, <1>8, CutOff
<1>10. full \in 1..Len(in) /\ start <= Len(in)
  BY <1>1, <1>2, <1>8
<1>11. ShiftN(c, full) = Buffers(<<>>, r)
  BY <1>7, <1>8, <1>9, <1>10, ShiftEmpty
<1>12. /\ start > 0 => CanReadN(in, start)
       /\ n \in Supported /\ CanReadN(Drop(in, start), n)
       /\ CanReadN(Drop(in, start + n), l)
  BY <1>1, <1>2, <1>8, <1>10 DEF CanReadN
<1> DEFINE msgLength == Uint(dc.ByteOrder, SubSeq(in, start + 1, start + n)) + dc.LengthAdjustment
<1>13. msgLength = l
  BY <1>1, <1>8
<1>14. LengthFieldDecode(dc, c) =
         IF /\ start > 0 => CanReadN(in, start)
            /\ n \in Supported /\ CanReadN(Drop(in, start), n)
            /\ CanReadN(Drop(in, start + n), msgLength)
           THEN Frame(Drop(Take(in, start + n + msgLength), dc.InitialBytesToStrip),
                      ShiftN(c, start + n + msgLength))
           ELSE NoFrame(c)
  BY Zenon DEF LengthFieldDecode, in, start, n
<1> HIDE DEF msgLength, full
<1>15. start + n + msgLength = full
  BY <1>13 DEF full
<1>16. LengthFieldDecode(dc, c) = Frame(Drop(f, dc.InitialBytesToStrip), Buffers(<<>>, r))
  BY <1>9, <1>11, <1>12, <1>13, <1>14, <1>15
<1> QED
  BY <1>3, <1>4, <1>16 DEF c, f, dc

LEMMA FirstFrame ==
  ASSUME NEW cc \in Codecs, cc.kind \in {"Delimiter", "LengthField"},
         NEW m \in Messages, Sendable(cc, m), Encode(cc, m).ok,
         cc.kind = "LengthField" => m # <<>>, NEW r \in Seq(Bytes)
  PROVE  Decode(cc, Buffers(<<>>, FrameBytes(cc, m) \o r)) = Frame(FrameOf(cc, m), Buffers(<<>>, r))
BY DelimiterFirst, LengthFieldFirst

LEMMA NothingToDecode ==
  ASSUME NEW cc \in Codecs, cc.kind \in {"Delimiter", "LengthField"}
  PROVE  ~Decode(cc, Buffers(<<>>, <<>>)).ok
<1> DEFINE c == Buffers(<<>>, <<>>)
<1>1. Read(c) = <<>> /\ Len(<<>>) = 0
  <2>1. <<>> \in Seq(Bytes)
    BY EmptySeq
  <2> QED
    BY <2>1, ReadEmpty, EmptySeq
<1> HIDE DEF c
<1>2. CASE cc.kind = "Delimiter"
  <2>1. {i \in 1..Len(Read(c)) : Read(c)[i] = cc.delimiter} = {}
    BY <1>1
  <2>2. ~DelimiterDecode(cc.delimiter, c).ok
    BY <2>1, Zenon DEF DelimiterDecode, NoFrame
  <2> QED
    BY <1>2, <2>2 DEF Decode, c
<1>3. CASE cc.kind = "LengthField"
  <2> DEFINE dc == cc.decoder
             start == dc.LengthFieldOffset
             n == dc.LengthFieldLength
             Guard == /\ start > 0 => CanReadN(Read(c), start)
                      /\ n \in Supported /\ CanReadN(Drop(Read(c), start), n)
  <2>1. start \in Nat
    BY <1>3, CodecsAssumption DEF Matching
  <2>2. ~Guard
    <3>1. CASE start > 0
      BY <1>1, <2>1, <3>1 DEF CanReadN
    <3>2. CASE start = 0
      <4>1. Drop(<<>>, start) = <<>>
        BY <1>1, <3>2, SubSeqEmpty DEF Drop
      <4>2. n \in Supported => ~CanReadN(Drop(Read(c), start), n)
        BY <1>1, <4>1 DEF CanReadN, Supported
      <4> QED
        BY <4>2
    <3> QED
      BY <2>1, <3>1, <3>2
  <2>3. ~LengthFieldDecode(dc, c).ok
    BY <2>2, Zenon DEF LengthFieldDecode, NoFrame
  <2> QED
    BY <1>3, <2>3 DEF Decode, c
<1> QED
  BY <1>2, <1>3

LEMMA FrameType ==
  ASSUME NEW cc \in Codecs, NEW m \in Messages, Encode(cc, m).ok
  PROVE  FrameBytes(cc, m) \in Seq(Bytes)
<1>1. CASE cc.kind \in {"BuiltIn", "FixedLength"}
  BY <1>1, CutFrame
<1>2. CASE cc.kind = "Delimiter"
  BY <1>2, DelimiterFrame, AppendProperties
<1>3. CASE cc.kind = "LengthField"
  <2> DEFINE x == Field(cc.encoder, m)
  <2>1. /\ FrameBytes(cc, m) = Header(cc) \o (x \o m) /\ m \in Seq(Bytes)
        /\ Header(cc) \in Seq(Bytes) /\ x \in Seq(Bytes)
    BY <1>3, LengthFieldFrame
  <2> HIDE DEF x
  <2>2. x \o m \in Seq(Bytes)
    BY <2>1, ConcatProperties
  <2> QED
    BY <2>1, <2>2, ConcatProperties
<1> QED
  BY <1>1, <1>2, <1>3, CodecsAssumption

LEMMA FrameOfType ==
  ASSUME NEW cc \in Codecs, cc.kind \in {"Delimiter", "LengthField"},
         NEW m \in Messages, Encode(cc, m).ok
  PROVE  FrameOf(cc, m) \in Seq(Bytes)
<1>1. CASE cc.kind = "Delimiter"
  BY <1>1, DelimiterFrame
<1>2. CASE cc.kind = "LengthField"
  <2> DEFINE f == FrameBytes(cc, m)
             h == Header(cc)
             x == Field(cc.encoder, m)
             strip == cc.decoder.InitialBytesToStrip
             o == cc.decoder.LengthFieldOffset
             n == cc.decoder.LengthFieldLength
  <2>1. /\ f = h \o (x \o m) /\ m \in Seq(Bytes)
        /\ h \in Seq(Bytes) /\ x \in Seq(Bytes)
        /\ Len(h) = o /\ Len(x) = n /\ o \in Nat /\ n \in Supported /\ strip \in 0..(o + n)
    BY <1>2, LengthFieldFrame
  <2>2. FrameOf(cc, m) = Drop(f, strip)
    BY <1>2 DEF FrameOf, FrameBytes
  <2> HIDE DEF h, x, f, o, n, strip
  <2>3. f \in Seq(Bytes) /\ Len(f) = o + (n + Len(m))
    <3>1. x \o m \in Seq(Bytes) /\ Len(x \o m) = n + Len(m)
      BY <2>1, ConcatProperties
    <3> DEFINE a == x \o m
    <3> HIDE DEF a
    <3>2. h \o a \in Seq(Bytes) /\ Len(h \o a) = o + Len(a)
      BY <2>1, <3>1, ConcatProperties DEF a
    <3> QED
      BY <2>1, <3>1, <3>2 DEF a
  <2>4. strip \in 0..Len(f)
    <3>1. n \in Nat /\ Len(m) \in Nat
      BY <2>1, LenProperties DEF Supported
    <3> QED
      BY <2>1, <2>3, <3>1
  <2> QED
    BY <2>2, <2>3, <2>4, TakeDrop
<1> QED
  BY <1>1, <1>2

-----------------------------------------------------------------------------
(* The frames between two messages.                                         *)

\* The messages that the codec encoded.
AllEncoded(cc, s) == \A i \in 1..Len(s) : Encode(cc, s[i]).ok

LEMMA BetweenType ==
  ASSUME NEW cc \in Codecs, NEW s \in Seq(Messages), AllEncoded(cc, s),
         NEW k \in 0..Len(s), NEW g \in 0..k
  PROVE  /\ Between(cc, s, g, k) \in Seq(Seq(Bytes)) /\ Len(Between(cc, s, g, k)) = k - g
         /\ \A i \in 1..(k - g) : Between(cc, s, g, k)[i] = FrameBytes(cc, s[g + i])
<1> DEFINE n == k - g
<1>1. n \in Nat /\ \A i \in 1..n : g + i \in 1..Len(s)
  BY LenProperties
<1>2. ASSUME NEW i \in 1..n PROVE FrameBytes(cc, s[g + i]) \in Seq(Bytes)
  <2> DEFINE j == g + i
  <2>1. j \in 1..Len(s)
    BY <1>1
  <2> HIDE DEF j
  <2>2. s[j] \in Messages /\ Encode(cc, s[j]).ok
    BY <2>1, ElementOfSeq DEF AllEncoded
  <2>3. FrameBytes(cc, s[j]) \in Seq(Bytes)
    BY <2>2, FrameType
  <2> QED
    BY <2>3 DEF j
<1>3. Between(cc, s, g, k) = [i \in 1..n |-> FrameBytes(cc, s[g + i])]
  BY DEF Between
<1> DEFINE b == Between(cc, s, g, k)
           A == Seq(Bytes)
<1> HIDE DEF n
<1>4. b \in [1..n -> A] /\ \A i \in 1..n : b[i] = FrameBytes(cc, s[g + i])
  BY <1>2, <1>3
<1> HIDE DEF b, A
<1>5. b \in Seq(A) /\ Len(b) = n
  BY <1>1, <1>4, SeqDef
<1> QED
  BY <1>4, <1>5 DEF b, n, A

LEMMA BetweenNone ==
  ASSUME NEW cc, NEW s, NEW g \in Nat
  PROVE  FlattenSeq(Between(cc, s, g, g)) = <<>>
<1>1. 1..(g - g) = {}
  OBVIOUS
<1>2. Between(cc, s, g, g) = <<>>
  BY <1>1 DEF Between
<1> QED
  BY <1>2, FlattenEmpty

LEMMA BetweenFirst ==
  ASSUME NEW cc \in Codecs, NEW s \in Seq(Messages), AllEncoded(cc, s),
         NEW k \in 1..Len(s), NEW g \in 0..(k - 1)
  PROVE  /\ FlattenSeq(Between(cc, s, g, k)) =
              FrameBytes(cc, s[g + 1]) \o FlattenSeq(Between(cc, s, g + 1, k))
         /\ FlattenSeq(Between(cc, s, g + 1, k)) \in Seq(Bytes)
<1> DEFINE b == Between(cc, s, g, k)
           r == Between(cc, s, g + 1, k)
           x == FrameBytes(cc, s[g + 1])
           A == Seq(Bytes)
           n == k - (g + 1)
<1>1. k \in 0..Len(s) /\ g \in 0..k /\ g + 1 \in 0..k /\ n \in Nat /\ k - g = n + 1
  BY LenProperties
<1>2. /\ b \in Seq(A) /\ Len(b) = n + 1
      /\ \A i \in 1..(n + 1) : b[i] = FrameBytes(cc, s[g + i])
  BY <1>1, BetweenType
<1>3. /\ r \in Seq(A) /\ Len(r) = n
      /\ \A i \in 1..n : r[i] = FrameBytes(cc, s[g + 1 + i])
  BY <1>1, BetweenType
<1>4. x \in A
  <2>1. 1 \in 1..(n + 1)
    BY <1>1
  <2>2. b[1] = x /\ b[1] \in A
    <3> HIDE DEF A
    <3> QED
      BY <1>2, <2>1, ElementOfSeq
  <2> QED
    BY <2>2
<1>5. <<x>> \in Seq(A) /\ Len(<<x>>) = 1 /\ <<x>>[1] = x
  BY <1>4
<1> HIDE DEF A, n, r, b
<1> DEFINE q == <<x>>
           w == q \o r
<1>6. q \in Seq(A) /\ Len(q) = 1 /\ q[1] = x
  BY <1>5
<1> HIDE DEF q
<1>7. w \in Seq(A) /\ Len(w) = 1 + n /\ \A i \in 1..(1 + n) : w[i] = IF i <= 1 THEN q[i] ELSE r[i - 1]
  <2>1. /\ w \in Seq(A) /\ Len(w) = Len(q) + Len(r)
        /\ \A i \in 1..(Len(q) + Len(r)) : w[i] = IF i <= Len(q) THEN q[i] ELSE r[i - Len(q)]
    BY <1>3, <1>6, ConcatProperties
  <2> HIDE DEF w
  <2> QED
    BY <1>3, <1>6, <2>1, Zenon
<1> HIDE DEF w
<1>8. ASSUME NEW i \in 1..(n + 1) PROVE b[i] = w[i]
  <2>1. CASE i = 1
    <3>1. w[1] = x /\ b[1] = x
      BY <1>1, <1>2, <1>6, <1>7
    <3> QED
      BY <2>1, <3>1
  <2>2. CASE i # 1
    <3> DEFINE j == i - 1
    <3>1. j \in 1..n /\ ~(i <= 1) /\ i \in 1..(1 + n) /\ g + 1 + j = g + i
      BY <1>1, <2>2
    <3>2. w[i] = r[j]
      BY <1>7, <3>1
    <3> HIDE DEF j
    <3>3. r[j] = FrameBytes(cc, s[g + i])
      BY <1>3, <3>1
    <3> QED
      BY <1>2, <3>2, <3>3
  <2> QED
    BY <2>1, <2>2
<1>9. b = w
  <2>1. Len(b) = Len(w)
    BY <1>1, <1>2, <1>7
  <2> QED
    BY <1>2, <1>7, <1>8, <2>1, SeqEqual
<1>10. FlattenSeq(b) = FlattenSeq(q) \o FlattenSeq(r)
  <2>1. FlattenSeq(q \o r) = FlattenSeq(q) \o FlattenSeq(r)
    BY <1>3, <1>6, FlattenConcat DEF A
  <2> QED
    BY <1>9, <2>1 DEF w
<1>11. FlattenSeq(q) = x
  <2> HIDE DEF x
  <2> QED
    BY <1>4, FlattenOne DEF q, A
<1>12. FlattenSeq(r) \in Seq(Bytes)
  BY <1>3, FlattenType DEF A
<1> QED
  BY <1>10, <1>11, <1>12 DEF b, r

-----------------------------------------------------------------------------
(* Packets.                                                                 *)

LEMMA FlattenSplit ==
  ASSUME NEW S, NEW w \in Seq(Seq(S)), NEW n \in 0..Len(w)
  PROVE  /\ Take(w, n) \in Seq(Seq(S)) /\ Drop(w, n) \in Seq(Seq(S))
         /\ FlattenSeq(w) = FlattenSeq(Take(w, n)) \o FlattenSeq(Drop(w, n))
<1> DEFINE A == Seq(S)
           t == Take(w, n)
           d == Drop(w, n)
<1> HIDE DEF A
<1>1. w \in Seq(A)
  BY DEF A
<1>2. t \in Seq(A) /\ d \in Seq(A) /\ t \o d = w
  BY <1>1, TakeDrop
<1> HIDE DEF t, d
<1>3. FlattenSeq(t \o d) = FlattenSeq(t) \o FlattenSeq(d)
  BY <1>2, FlattenConcat DEF A
<1> QED
  BY <1>2, <1>3 DEF t, d, A

LEMMA FlattenFirst ==
  ASSUME NEW S, NEW x \in Seq(S), NEW r \in Seq(Seq(S))
  PROVE  <<x>> \o r \in Seq(Seq(S)) /\ FlattenSeq(<<x>> \o r) = x \o FlattenSeq(r)
<1> DEFINE A == Seq(S)
           q == <<x>>
<1>1. q \in Seq(A) /\ r \in Seq(A)
  OBVIOUS
<1>2. FlattenSeq(q) = x
  BY FlattenOne
<1> HIDE DEF q, A
<1>3. q \o r \in Seq(A)
  BY <1>1, ConcatProperties
<1>4. FlattenSeq(q \o r) = FlattenSeq(q) \o FlattenSeq(r)
  BY <1>1, FlattenConcat DEF A
<1> QED
  BY <1>2, <1>3, <1>4 DEF q, A

Regrouped(a, t, d, r) == (a \o t) \o (d \o r) = a \o ((t \o d) \o r)

LEMMA Regroup ==
  ASSUME NEW S, NEW a \in Seq(S), NEW t \in Seq(S), NEW d \in Seq(S), NEW r \in Seq(S)
  PROVE  Regrouped(a, t, d, r)
<1> DEFINE u == d \o r
<1>1. u \in Seq(S)
  BY ConcatProperties
<1>2. (t \o d) \o r = t \o u
  BY ConcatAssociative
<1> HIDE DEF u
<1>3. (a \o t) \o u = a \o (t \o u)
  BY <1>1, ConcatAssociative
<1> QED
  BY <1>2, <1>3, Zenon DEF u, Regrouped

LEMMA FlattenPart ==
  ASSUME NEW S, NEW w \in Seq(Seq(S)), NEW n \in 0..(Len(w) - 1),
         NEW k \in 0..Len(w[n + 1])
  PROVE  LET b == FlattenSeq(Take(w, n)) \o Take(w[n + 1], k)
             v == <<Drop(w[n + 1], k)>> \o Drop(w, n + 1)
         IN  b \in Seq(S) /\ v \in Seq(Seq(S)) /\ FlattenSeq(w) = b \o FlattenSeq(v)
<1> DEFINE A == Seq(S)
           x == w[n + 1]
           t == Take(x, k)
           d == Drop(x, k)
           r == Drop(w, n + 1)
           a == FlattenSeq(Take(w, n))
           R == FlattenSeq(r)
<1>1. n \in 0..Len(w) /\ n + 1 \in 1..Len(w) /\ n + 1 \in 0..Len(w)
  BY LenProperties
<1>2. x \in Seq(S)
  BY <1>1, ElementOfSeq
<1>3. t \in Seq(S) /\ d \in Seq(S) /\ t \o d = x
  BY <1>2, TakeDrop
<1>4. /\ Take(w, n) \in Seq(Seq(S)) /\ Drop(w, n) \in Seq(Seq(S)) /\ r \in Seq(Seq(S))
      /\ FlattenSeq(w) = a \o FlattenSeq(Drop(w, n))
  BY <1>1, FlattenSplit
<1>5. Drop(w, n) = <<x>> \o r
  <2>1. Len(w) \in (n + 1)..Len(w)
    BY <1>1
  <2>2. SubSeq(w, n + 1, Len(w)) = <<w[n + 1]>> \o SubSeq(w, n + 1 + 1, Len(w))
    <3> HIDE DEF A
    <3>1. w \in Seq(A)
      BY DEF A
    <3> QED
      BY <1>1, <2>1, <3>1, SubSeqRecursiveFirst
  <2> QED
    BY <2>2 DEF Drop
<1>6. a \in Seq(S) /\ R \in Seq(S)
  BY <1>4, FlattenType
<1> HIDE DEF x, t, d, r, a
<1>7. FlattenSeq(<<x>> \o r) = x \o R
  BY <1>2, <1>4, FlattenFirst
<1>8. <<d>> \o r \in Seq(Seq(S)) /\ FlattenSeq(<<d>> \o r) = d \o R
  BY <1>3, <1>4, FlattenFirst
<1> HIDE DEF R
<1>9. a \o t \in Seq(S)
  BY <1>3, <1>6, ConcatProperties
<1>10. t \in Seq(S) /\ d \in Seq(S)
  BY <1>3
<1>11. Regrouped(a, t, d, R)
  BY <1>6, <1>10, Regroup
<1>12. FlattenSeq(w) = (a \o t) \o FlattenSeq(<<d>> \o r)
  <2>1. FlattenSeq(w) = a \o (x \o R)
    BY <1>4, <1>5, <1>7, Zenon
  <2> QED
    BY <1>3, <1>8, <1>11, <2>1, Zenon DEF Regrouped
<1> QED
  BY <1>8, <1>9, <1>12 DEF a, t, d, r, x

\* What a packet holds is what the wire loses.
LEMMA Packet ==
  ASSUME wire \in Seq(Seq(Bytes)), NEW n \in 0..Len(wire), NEW k \in Cuts(n), ReadPacket(n, k)
  PROVE  /\ buffer' \in Seq(Bytes) /\ wire' \in Seq(Seq(Bytes))
         /\ FlattenSeq(wire) = buffer' \o FlattenSeq(wire')
         /\ k = 0 => buffer' = FlattenSeq(Take(wire, n)) /\ wire' = Drop(wire, n)
<1>1. CASE k = 0
  <2> DEFINE b == FlattenSeq(Take(wire, n))
  <2>1. /\ Take(wire, n) \in Seq(Seq(Bytes)) /\ Drop(wire, n) \in Seq(Seq(Bytes))
        /\ FlattenSeq(wire) = b \o FlattenSeq(Drop(wire, n))
    BY FlattenSplit
  <2>2. b \in Seq(Bytes)
    BY <2>1, FlattenType
  <2>3. b \o <<>> = b
    BY <2>2, ConcatEmptySeq
  <2>4. buffer' = b /\ wire' = Drop(wire, n)
    BY <1>1, <2>3 DEF ReadPacket
  <2> QED
    BY <2>1, <2>2, <2>4
<1>2. CASE k # 0
  <2>1. n < Len(wire) /\ k \in 1..(Len(wire[n + 1]) - 1)
    BY <1>2 DEF Cuts
  <2>2. n \in 0..(Len(wire) - 1) /\ n + 1 \in 1..Len(wire)
    BY <2>1, LenProperties
  <2>3. wire[n + 1] \in Seq(Bytes)
    BY <2>2, ElementOfSeq
  <2>4. Len(wire[n + 1]) \in Nat
    BY <2>3, LenProperties
  <2>5. k \in 0..Len(wire[n + 1])
    BY <2>1, <2>4
  <2> DEFINE b == FlattenSeq(Take(wire, n)) \o Take(wire[n + 1], k)
             v == <<Drop(wire[n + 1], k)>> \o Drop(wire, n + 1)
  <2>6. b \in Seq(Bytes) /\ v \in Seq(Seq(Bytes)) /\ FlattenSeq(wire) = b \o FlattenSeq(v)
    BY <2>2, <2>5, FlattenPart
  <2>7. buffer' = b /\ wire' = v
    BY <1>2, Zenon DEF ReadPacket
  <2> HIDE DEF b, v
  <2> QED
    BY <1>2, <2>6, <2>7
<1> QED
  BY <1>1, <1>2

-----------------------------------------------------------------------------
(* What is sent.                                                            *)

LEMMA BetweenAppend ==
  ASSUME NEW cc \in Codecs, NEW s \in Seq(Messages), AllEncoded(cc, s),
         NEW m \in Messages, Encode(cc, m).ok, NEW k \in 0..Len(s), NEW g \in 0..k
  PROVE  Between(cc, Append(s, m), g, k) = Between(cc, s, g, k)
<1> DEFINE t == Append(s, m)
<1>1. \A i \in 1..Len(s) : t[i] = s[i]
  BY AppendProperties
<1> HIDE DEF t
<1>2. ASSUME NEW i \in 1..(k - g) PROVE t[g + i] = s[g + i]
  <2>1. g + i \in 1..Len(s)
    BY LenProperties
  <2> QED
    BY <1>1, <2>1
<1>3. Between(cc, t, g, k) = Between(cc, s, g, k)
  BY <1>2 DEF Between
<1> QED
  BY <1>3 DEF t

LEMMA BetweenAll ==
  ASSUME NEW cc \in Codecs, NEW s \in Seq(Messages), AllEncoded(cc, s)
  PROVE  /\ Between(cc, s, 0, Len(s)) \in Seq(Seq(Bytes))
         /\ Len(Between(cc, s, 0, Len(s))) = Len(s)
         /\ \A i \in 1..Len(s) : Between(cc, s, 0, Len(s))[i] = FrameBytes(cc, s[i])
<1> DEFINE g == 0
           k == Len(s)
           b == Between(cc, s, g, k)
<1>1. k \in 0..Len(s) /\ g \in 0..k /\ k - g = k /\ \A i \in 1..k : g + i = i
  BY LenProperties
<1> HIDE DEF g, k
<1>2. /\ b \in Seq(Seq(Bytes)) /\ Len(b) = k - g
      /\ \A i \in 1..(k - g) : b[i] = FrameBytes(cc, s[g + i])
  BY <1>1, BetweenType
<1> HIDE DEF b
<1>3. ASSUME NEW i \in 1..k PROVE b[i] = FrameBytes(cc, s[i])
  BY <1>1, <1>2
<1> QED
  BY <1>1, <1>2, <1>3 DEF b, g, k

LEMMA StreamAppend ==
  ASSUME NEW cc \in Codecs, NEW s \in Seq(Messages), AllEncoded(cc, s),
         NEW m \in Messages, Encode(cc, m).ok
  PROVE  /\ FlattenSeq(Between(cc, Append(s, m), 0, Len(Append(s, m)))) =
              FlattenSeq(Between(cc, s, 0, Len(s))) \o FrameBytes(cc, m)
         /\ FlattenSeq(Between(cc, s, 0, Len(s))) \in Seq(Bytes)
<1> DEFINE t == Append(s, m)
           n == Len(s)
           b == Between(cc, s, 0, n)
           q == Between(cc, t, 0, n + 1)
           f == FrameBytes(cc, m)
           A == Seq(Bytes)
<1>1. /\ t \in Seq(Messages) /\ Len(t) = n + 1 /\ n \in Nat
      /\ \A i \in 1..n : t[i] = s[i]
      /\ t[n + 1] = m
  BY AppendProperties, LenProperties
<1>2. f \in A
  BY FrameType
<1>3. b \in Seq(A) /\ Len(b) = n /\ \A i \in 1..n : b[i] = FrameBytes(cc, s[i])
  BY BetweenAll
<1>4. AllEncoded(cc, t)
  <2>1. \A i \in 1..(n + 1) : i \in 1..n \/ i = n + 1
    BY <1>1
  <2> HIDE DEF t
  <2> QED
    BY <1>1, <2>1 DEF AllEncoded
<1> HIDE DEF t
<1>5. q \in Seq(A) /\ Len(q) = n + 1 /\ \A i \in 1..(n + 1) : q[i] = FrameBytes(cc, t[i])
  <2>1. /\ Between(cc, t, 0, Len(t)) \in Seq(A) /\ Len(Between(cc, t, 0, Len(t))) = Len(t)
        /\ \A i \in 1..Len(t) : Between(cc, t, 0, Len(t))[i] = FrameBytes(cc, t[i])
    BY <1>1, <1>4, BetweenAll
  <2> QED
    BY <1>1, <2>1
<1> HIDE DEF b, q, A, n
<1> DEFINE c == Append(b, f)
<1>6. /\ c \in Seq(A) /\ Len(c) = Len(b) + 1 /\ \A i \in 1..Len(b) : c[i] = b[i]
      /\ c[Len(b) + 1] = f
  BY <1>2, <1>3, AppendProperties
<1> HIDE DEF c
<1>7. ASSUME NEW i \in 1..Len(c) PROVE c[i] = q[i]
  <2>1. i \in 1..n \/ i = n + 1
    BY <1>1, <1>3, <1>6
  <2>2. i \in 1..(n + 1)
    BY <1>1, <2>1
  <2>3. CASE i \in 1..n
    BY <1>1, <1>3, <1>5, <1>6, <2>2, <2>3
  <2>4. CASE i = n + 1
    BY <1>1, <1>3, <1>5, <1>6, <2>2, <2>4
  <2> QED
    BY <2>1, <2>3, <2>4
<1>8. c = q
  <2>1. Len(c) = Len(q)
    BY <1>3, <1>5, <1>6
  <2> QED
    BY <1>5, <1>6, <1>7, <2>1, SeqEqual
<1>9. FlattenSeq(c) = FlattenSeq(b) \o f
  <2>1. b \in Seq(Seq(Bytes)) /\ f \in Seq(Bytes)
    BY <1>2, <1>3 DEF A
  <2> HIDE DEF f
  <2> QED
    BY <2>1, FlattenAppend DEF c
<1>10. FlattenSeq(b) \in Seq(Bytes)
  BY <1>3, FlattenType DEF A
<1> QED
  BY <1>1, <1>8, <1>9, <1>10 DEF b, q, t, n

AllFrames(cc, s) == [i \in DOMAIN s |-> Header(cc) \o Encode(cc, s[i]).bytes]

LEMMA StreamIs ==
  ASSUME NEW cc, NEW s \in Seq(Messages)
  PROVE  AllFrames(cc, s) = Between(cc, s, 0, Len(s))
<1>1. DOMAIN s = 1..Len(s) /\ Len(s) - 0 = Len(s) /\ \A i \in 1..Len(s) : 0 + i = i
  BY LenProperties
<1> QED
  BY <1>1 DEF AllFrames, Between, FrameBytes

-----------------------------------------------------------------------------
(* The types, and what was sent could be sent.                              *)

LEMMA StepSending ==
  ASSUME Sending, [Next]_vars
  PROVE  Sending'
<1>1. ASSUME NEW m \in Messages, Send(m) PROVE Sending'
  <2>1. /\ sent' \in Seq(Messages) /\ Len(sent') = Len(sent) + 1
        /\ \A i \in 1..Len(sent) : sent'[i] = sent[i]
        /\ sent'[Len(sent) + 1] = m
    BY <1>1, AppendProperties DEF Send, Sending
  <2>2. FrameBytes(codec, m) \in Seq(Bytes)
    BY <1>1, FrameType DEF Send, Sending
  <2>3. wire' \in Seq(Seq(Bytes))
    <3> DEFINE A == Seq(Bytes)
               f == FrameBytes(codec, m)
    <3>1. wire \in Seq(A) /\ f \in A /\ wire' = Append(wire, f)
      BY <1>1, <2>2 DEF Send, Sending, FrameBytes
    <3> HIDE DEF A, f
    <3>2. wire' \in Seq(A)
      BY <3>1, AppendProperties
    <3> QED
      BY <3>2 DEF A
  <2>4. ASSUME NEW i \in 1..Len(sent') PROVE Sendable(codec, sent'[i]) /\ Encode(codec, sent'[i]).ok
    <3>1. i \in 1..Len(sent) \/ i = Len(sent) + 1
      BY <2>1, LenProperties DEF Sending
    <3>2. CASE i \in 1..Len(sent)
      BY <2>1, <3>2 DEF Sending
    <3>3. CASE i = Len(sent) + 1
      BY <1>1, <2>1, <3>3 DEF Send
    <3> QED
      BY <3>1, <3>2, <3>3
  <2> QED
    BY <1>1, <2>1, <2>3, <2>4 DEF Send, Sending
<1>2. ASSUME NEW n \in 0..Len(wire), NEW k \in Cuts(n), ReadPacket(n, k) PROVE Sending'
  <2>1. wire' \in Seq(Seq(Bytes))
    BY <1>2, Packet DEF Sending
  <2> QED
    BY <1>2, <2>1 DEF ReadPacket, Sending
<1>3. CASE React
  BY <1>3 DEF React, Sending
<1>4. CASE KeepRest
  BY <1>4 DEF KeepRest, Sending
<1>5. CASE UNCHANGED vars
  BY <1>5 DEF vars, Sending
<1> QED
  BY <1>1, <1>2, <1>3, <1>4, <1>5 DEF Next

-----------------------------------------------------------------------------
(* The codecs that cut by size: what React got, what is buffered and what   *)
(* is on the wire are together the stream.                                  *)

Cut(g, rest, f, t)      == g \o (rest \o f) = t
CutEq(g, i, rest, f, t) == g \o (i \o rest \o f) = t

LEMMA CutEqIs ==
  ASSUME NEW S, NEW rest \in Seq(S), NEW g, NEW f, NEW t
  PROVE  CutEq(g, <<>>, rest, f, t) <=> Cut(g, rest, f, t)
<1>1. <<>> \o rest = rest
  BY ConcatEmptySeq
<1> QED
  BY <1>1, Zenon DEF Cut, CutEq

LEMMA CutSend ==
  ASSUME NEW S, NEW g \in Seq(S), NEW rest \in Seq(S), NEW f \in Seq(S), NEW x \in Seq(S),
         NEW t, Cut(g, rest, f, t)
  PROVE  Cut(g, rest, Joined(f, x), Joined(t, x))
<1> DEFINE a == Joined(rest, f)
<1>1. a \in Seq(S) /\ Joined(a, x) = Joined(rest, Joined(f, x))
  BY JoinedSequences, JoinedAssociative
<1> HIDE DEF a
<1>2. Joined(Joined(g, a), x) = Joined(g, Joined(a, x))
  BY <1>1, JoinedAssociative
<1>3. Joined(g, a) = t
  BY Zenon DEF Cut, Joined, a
<1>4. Joined(g, Joined(rest, Joined(f, x))) = Joined(t, x)
  BY <1>1, <1>2, <1>3, Zenon
<1> QED
  BY <1>4, Zenon DEF Cut, Joined

LEMMA CutTake ==
  ASSUME NEW S, NEW g \in Seq(S), NEW b \in Seq(S), NEW d \in Seq(S), NEW f \in Seq(S),
         NEW t, Cut(g, Joined(b, d), f, t)
  PROVE  Cut(Joined(g, b), d, f, t)
<1>1. Regrouped(g, b, d, f)
  BY Regroup
<1> QED
  BY <1>1, Zenon DEF Cut, Joined, Regrouped

LEMMA CutPacket ==
  ASSUME NEW S, NEW b \in Seq(S), NEW f \in Seq(S),
         NEW g, NEW t, Cut(g, <<>>, Joined(b, f), t)
  PROVE  Cut(g, b, f, t)
<1>1. <<>> \o (b \o f) = b \o f
  <2>1. b \o f \in Seq(S)
    BY ConcatProperties
  <2> DEFINE a == b \o f
  <2> HIDE DEF a
  <2>2. <<>> \o a = a
    BY <2>1, ConcatEmptySeq DEF a
  <2> QED
    BY <2>2 DEF a
<1> QED
  BY <1>1, Zenon DEF Cut, Joined

\* The stream of the messages that were sent.
StreamOf(cc, s) == FlattenSeq(Between(cc, s, 0, Len(s)))

CutState ==
  /\ inbound = <<>>
  /\ buffer \in Seq(Bytes)
  /\ got \in Seq(Seq(Bytes))
  /\ Cut(FlattenSeq(got), IF reading THEN buffer ELSE <<>>, FlattenSeq(wire), StreamOf(codec, sent))

LEMMA CutNow ==
  ASSUME Sending, CutInv, codec.kind \in {"BuiltIn", "FixedLength"}
  PROVE  CutState
<1> DEFINE rest == IF reading THEN buffer ELSE <<>>
<1>1. inbound = <<>> /\ buffer \in Seq(Bytes) /\ got \in Seq(Seq(Bytes)) /\ FlattenSeq(got) \o Unread = Stream
  BY DEF CutInv
<1>2. rest \in Seq(Bytes)
  BY <1>1, EmptySeq
<1>3. Stream = StreamOf(codec, sent)
  <2>1. AllFrames(codec, sent) = Between(codec, sent, 0, Len(sent))
    BY StreamIs DEF Sending
  <2> QED
    BY <2>1, Zenon DEF Stream, AllFrames, StreamOf
<1> HIDE DEF rest
<1>4. CutEq(FlattenSeq(got), <<>>, rest, FlattenSeq(wire), StreamOf(codec, sent))
  BY <1>1, <1>3, Zenon DEF CutEq, Unread, rest
<1>5. Cut(FlattenSeq(got), rest, FlattenSeq(wire), StreamOf(codec, sent))
  BY <1>2, <1>4, CutEqIs
<1> QED
  BY <1>1, <1>5 DEF CutState, rest

LEMMA CutNext ==
  ASSUME Sending', codec.kind \in {"BuiltIn", "FixedLength"} => CutState', codec' = codec
  PROVE  CutInv'
<1> SUFFICES ASSUME codec.kind \in {"BuiltIn", "FixedLength"}
             PROVE  /\ inbound' = <<>> /\ buffer' \in Seq(Bytes) /\ got' \in Seq(Seq(Bytes))
                    /\ FlattenSeq(got') \o Unread' = Stream'
  BY DEF CutInv
<1> DEFINE rest == IF reading' THEN buffer' ELSE <<>>
<1>1. /\ inbound' = <<>> /\ buffer' \in Seq(Bytes) /\ got' \in Seq(Seq(Bytes))
      /\ Cut(FlattenSeq(got'), rest, FlattenSeq(wire'), StreamOf(codec', sent'))
  BY DEF CutState
<1>2. rest \in Seq(Bytes)
  BY <1>1, EmptySeq
<1>3. Stream' = StreamOf(codec', sent')
  <2>1. AllFrames(codec', sent') = Between(codec', sent', 0, Len(sent'))
    BY StreamIs DEF Sending
  <2> QED
    BY <2>1, Zenon DEF Stream, AllFrames, StreamOf
<1> HIDE DEF rest
<1>4. CutEq(FlattenSeq(got'), <<>>, rest, FlattenSeq(wire'), StreamOf(codec', sent'))
  BY <1>1, <1>2, CutEqIs
<1>5. FlattenSeq(got') \o Unread' = Stream'
  BY <1>1, <1>3, <1>4, Zenon DEF CutEq, Unread, rest
<1> QED
  BY <1>1, <1>5

LEMMA CutTypes ==
  ASSUME Sending, CutState
  PROVE  /\ FlattenSeq(got) \in Seq(Bytes) /\ FlattenSeq(wire) \in Seq(Bytes)
         /\ (IF reading THEN buffer ELSE <<>>) \in Seq(Bytes)
<1>1. got \in Seq(Seq(Bytes)) /\ wire \in Seq(Seq(Bytes)) /\ buffer \in Seq(Bytes) /\ <<>> \in Seq(Bytes)
  BY EmptySeq DEF Sending, CutState
<1> QED
  BY <1>1, FlattenType

LEMMA CutOnSend ==
  ASSUME Sending, CutState, NEW m \in Messages, Send(m)
  PROVE  CutState'
<1> DEFINE g == FlattenSeq(got)
           f == FlattenSeq(wire)
           rest == IF reading THEN buffer ELSE <<>>
           t == StreamOf(codec, sent)
           x == FrameBytes(codec, m)
<1>1. g \in Seq(Bytes) /\ f \in Seq(Bytes) /\ rest \in Seq(Bytes)
  BY CutTypes
<1>2. /\ codec \in Codecs /\ sent \in Seq(Messages) /\ AllEncoded(codec, sent) /\ Encode(codec, m).ok
      /\ wire \in Seq(Seq(Bytes))
  BY DEF Sending, Send, AllEncoded
<1>3. x \in Seq(Bytes)
  BY <1>2, FrameType
<1>4. sent' = Append(sent, m) /\ wire' = Append(wire, x) /\ UNCHANGED <<codec, inbound, buffer, got, reading>>
  BY DEF Send, FrameBytes
<1>5. StreamOf(codec, Append(sent, m)) = Joined(t, x)
  BY <1>2, StreamAppend DEF StreamOf, Joined
<1> HIDE DEF x
<1>6. FlattenSeq(Append(wire, x)) = Joined(f, x)
  BY <1>2, <1>3, FlattenAppend DEF Joined
<1>7. Cut(g, rest, f, t)
  BY DEF CutState
<1> HIDE DEF g, f, rest, t
<1>8. Cut(g, rest, Joined(f, x), Joined(t, x))
  BY <1>1, <1>3, <1>7, CutSend
<1>9. g = FlattenSeq(got') /\ rest = IF reading' THEN buffer' ELSE <<>>
  BY <1>4 DEF g, rest
<1>10. Cut(FlattenSeq(got'), IF reading' THEN buffer' ELSE <<>>, FlattenSeq(wire'), StreamOf(codec', sent'))
  BY <1>4, <1>5, <1>6, <1>8, <1>9, Zenon
<1> QED
  BY <1>4, <1>10 DEF CutState

LEMMA CutOnPacket ==
  ASSUME Sending, CutState, NEW n \in 0..Len(wire), NEW k \in Cuts(n), ReadPacket(n, k)
  PROVE  CutState'
<1> DEFINE g == FlattenSeq(got)
           f == FlattenSeq(wire')
           t == StreamOf(codec, sent)
           b == buffer'
<1>1. /\ b \in Seq(Bytes) /\ wire' \in Seq(Seq(Bytes))
      /\ FlattenSeq(wire) = Joined(b, f)
  BY Packet DEF Sending, Joined
<1>2. f \in Seq(Bytes)
  BY <1>1, FlattenType
<1>3. UNCHANGED <<codec, sent, inbound, got>> /\ ~reading /\ reading'
  BY DEF ReadPacket
<1>4. Cut(g, <<>>, Joined(b, f), t)
  BY <1>1, <1>3, Zenon DEF CutState
<1> HIDE DEF g, f, t, b
<1>5. Cut(g, b, f, t)
  BY <1>1, <1>2, <1>4, CutPacket
<1>6. Cut(FlattenSeq(got'), IF reading' THEN buffer' ELSE <<>>, FlattenSeq(wire'), StreamOf(codec', sent'))
  BY <1>3, <1>5 DEF g, f, t, b
<1> QED
  BY <1>1, <1>3, <1>6 DEF CutState, b

LEMMA CutOnReact ==
  ASSUME Sending, CutState, codec.kind \in {"BuiltIn", "FixedLength"}, React
  PROVE  CutState'
<1> DEFINE c == Buffers(<<>>, buffer)
           d == Decode(codec, c)
<1>1. /\ inbound = <<>> /\ buffer \in Seq(Bytes) /\ got \in Seq(Seq(Bytes)) /\ codec \in Codecs
      /\ wire \in Seq(Seq(Bytes))
  BY DEF CutState, Sending
<1>2. /\ reading /\ d.ok /\ got' = Append(got, d.frame)
      /\ inbound' = d.conn.inbound /\ buffer' = d.conn.buffer
      /\ UNCHANGED <<codec, sent, wire, reading>>
  BY <1>1 DEF React
<1>3. buffer # <<>>
  BY <1>1, <1>2, CutDecode
<1>4. PICK l \in 1..Len(buffer) : d = Frame(Take(buffer, l), Buffers(<<>>, Drop(buffer, l)))
  BY <1>1, <1>3, CutDecode
<1> DEFINE b == Take(buffer, l)
           e == Drop(buffer, l)
           g == FlattenSeq(got)
           f == FlattenSeq(wire)
           t == StreamOf(codec, sent)
<1>5. b \in Seq(Bytes) /\ e \in Seq(Bytes) /\ Joined(b, e) = buffer
  <2>1. l \in 0..Len(buffer)
    OBVIOUS
  <2> QED
    BY <1>1, <2>1, TakeDrop DEF Joined
<1>6. got' = Append(got, b) /\ inbound' = <<>> /\ buffer' = e
  BY <1>2, <1>4 DEF Frame, Buffers
<1>7. Cut(g, Joined(b, e), f, t)
  BY <1>2, <1>5 DEF CutState
<1>8. g \in Seq(Bytes) /\ f \in Seq(Bytes)
  BY CutTypes
<1> HIDE DEF b, e
<1>9. FlattenSeq(got') = Joined(g, b)
  BY <1>1, <1>5, <1>6, FlattenAppend DEF Joined
<1>10. got' \in Seq(Seq(Bytes))
  <2> DEFINE A == Seq(Bytes)
  <2>1. got \in Seq(A) /\ b \in A
    BY <1>1, <1>5
  <2> HIDE DEF A
  <2>2. Append(got, b) \in Seq(A)
    BY <2>1, AppendProperties
  <2> QED
    BY <1>6, <2>2 DEF A
<1> HIDE DEF g, f, t
<1>11. Cut(Joined(g, b), e, f, t)
  BY <1>5, <1>7, <1>8, CutTake
<1>12. Cut(FlattenSeq(got'), IF reading' THEN buffer' ELSE <<>>, FlattenSeq(wire'), StreamOf(codec', sent'))
  BY <1>2, <1>6, <1>9, <1>11 DEF f, t
<1> QED
  BY <1>5, <1>6, <1>10, <1>12 DEF CutState

LEMMA CutOnKeepRest ==
  ASSUME Sending, CutState, codec.kind \in {"BuiltIn", "FixedLength"}, KeepRest
  PROVE  CutState'
<1>1. inbound = <<>> /\ buffer \in Seq(Bytes) /\ codec \in Codecs
  BY DEF CutState, Sending
<1>2. /\ reading /\ ~reading' /\ ~Decode(codec, Buffers(<<>>, buffer)).ok
      /\ inbound' = <<>> \o buffer /\ UNCHANGED <<codec, sent, wire, buffer, got>>
  BY <1>1 DEF KeepRest
<1>3. buffer = <<>>
  <2> SUFFICES ASSUME buffer # <<>> PROVE FALSE
    OBVIOUS
  <2>1. PICK l \in 1..Len(buffer) :
          Decode(codec, Buffers(<<>>, buffer)) = Frame(Take(buffer, l), Buffers(<<>>, Drop(buffer, l)))
    BY <1>1, CutDecode
  <2> QED
    BY <1>2, <2>1 DEF Frame
<1>4. inbound' = <<>>
  BY <1>1, <1>2, <1>3, ConcatEmptySeq
<1> QED
  BY <1>2, <1>3, <1>4 DEF CutState

LEMMA StepCut ==
  ASSUME Sending, Sending', CutInv, [Next]_vars
  PROVE  CutInv'
<1>1. codec' = codec
  BY DEF Next, Send, ReadPacket, React, KeepRest, vars
<1>2. ASSUME codec.kind \in {"BuiltIn", "FixedLength"} PROVE CutState'
  <2>1. CutState
    BY <1>2, CutNow
  <2>2. CASE UNCHANGED vars
    BY <2>1, <2>2 DEF CutState, vars
  <2> QED
    BY <1>2, <2>1, <2>2, CutOnSend, CutOnPacket, CutOnReact, CutOnKeepRest DEF Next
<1> QED
  BY <1>1, <1>2, CutNext

-----------------------------------------------------------------------------
(* Frames of a fixed length.                                                *)

IsMultiple(a, n) == a % n = 0

LEMMA Multiples ==
  ASSUME NEW n \in Nat, n # 0, NEW a \in Nat, IsMultiple(a, n)
  PROVE  /\ \A b \in Nat : IsMultiple(b, n) => IsMultiple(a + b, n)
         /\ a # 0 => n <= a /\ a - n \in Nat /\ IsMultiple(a - n, n)
<1> DEFINE p == a \div n
<1>1. p \in Nat /\ a = p * n
  BY DEF IsMultiple
<1> HIDE DEF p
<1>2. ASSUME NEW b \in Nat, IsMultiple(b, n) PROVE IsMultiple(a + b, n)
  <2> DEFINE q == b \div n
  <2>1. q \in Nat /\ b = q * n
    BY <1>2 DEF IsMultiple
  <2> HIDE DEF q
  <2>2. a + b = (p + q) * n
    BY <1>1, <2>1
  <2> DEFINE r == p + q
  <2>3. r \in Nat
    BY <1>1, <2>1
  <2> HIDE DEF r
  <2>4. (r * n) % n = 0
    BY <2>3
  <2> QED
    BY <2>2, <2>4 DEF IsMultiple, r
<1>3. ASSUME a # 0 PROVE n <= a /\ a - n \in Nat /\ IsMultiple(a - n, n)
  <2> DEFINE r == p - 1
  <2>1. r \in Nat
    BY <1>1, <1>3
  <2>2. a - n = r * n
    BY <1>1
  <2> HIDE DEF r
  <2>3. r * n \in Nat /\ (r * n) % n = 0
    BY <2>1
  <2>4. n <= a
    BY <2>2, <2>3
  <2> QED
    BY <2>2, <2>3, <2>4 DEF IsMultiple
<1> QED
  BY <1>2, <1>3

LEMMA FlattenMultiple ==
  ASSUME NEW S, NEW s \in Seq(Seq(S)), NEW n \in Nat, n # 0,
         \A i \in 1..Len(s) : IsMultiple(Len(s[i]), n)
  PROVE  IsMultiple(Len(FlattenSeq(s)), n)
<1> DEFINE l == Len(s)
           V == {i \in 0..l : IsMultiple(Len(FlattenSeq(Take(s, i))), n)}
<1>1. l \in Nat
  BY LenProperties
<1>2. 0 \in V
  <2>1. Take(s, 0) = <<>>
    BY SubSeqEmpty DEF Take
  <2>2. Len(FlattenSeq(Take(s, 0))) = 0
    BY <2>1, FlattenEmpty, EmptySeq
  <2>3. IsMultiple(0, n)
    BY DEF IsMultiple
  <2> QED
    BY <1>1, <2>2, <2>3
<1>3. ASSUME NEW i \in 1..l, i - 1 \in V PROVE i \in V
  <2> DEFINE u == Take(s, i - 1)
             x == s[i]
  <2>1. u \in Seq(Seq(S)) /\ x \in Seq(S) /\ Take(s, i) = Append(u, x)
    <3>1. i - 1 \in 0..Len(s)
      BY <1>1
    <3> QED
      BY <3>1, TakeDrop, TakeNext, ElementOfSeq
  <2>2. IsMultiple(Len(FlattenSeq(u)), n) /\ IsMultiple(Len(x), n)
    BY <1>3
  <2> HIDE DEF u, x
  <2>3. FlattenSeq(Append(u, x)) = FlattenSeq(u) \o x /\ FlattenSeq(u) \in Seq(S)
    BY <2>1, FlattenAppend, FlattenType
  <2> DEFINE a == FlattenSeq(u)
  <2>4. Len(a \o x) = Len(a) + Len(x) /\ Len(a) \in Nat /\ Len(x) \in Nat
    <3>1. a \in Seq(S)
      BY <2>3
    <3> HIDE DEF a
    <3> QED
      BY <2>1, <3>1, ConcatProperties, LenProperties
  <2>5. IsMultiple(Len(a) + Len(x), n)
    BY <2>2, <2>4, Multiples
  <2>6. IsMultiple(Len(FlattenSeq(Take(s, i))), n)
    BY <2>1, <2>3, <2>4, <2>5, Zenon
  <2> QED
    BY <1>1, <2>6
<1> HIDE DEF V
<1>4. \A i \in 0..l : i \in V
  BY <1>1, <1>2, <1>3, UpTo
<1>5. IsMultiple(Len(FlattenSeq(Take(s, l))), n)
  <2>1. l \in 0..l
    BY <1>1
  <2> QED
    BY <1>4, <2>1 DEF V
<1>6. Take(s, l) = s
  BY SubSeqFull DEF Take
<1> QED
  BY <1>5, <1>6

LEMMA StaysWhole ==
  ASSUME Sending, [Next]_vars
  PROVE  codec' = codec /\ (whole' => whole)
<1>1. ASSUME NEW m \in Messages, Send(m) PROVE codec' = codec /\ (whole' => whole)
  BY <1>1 DEF Send
<1>2. ASSUME NEW n \in 0..Len(wire), NEW k \in Cuts(n), ReadPacket(n, k)
      PROVE  codec' = codec /\ (whole' => whole)
  BY <1>2 DEF ReadPacket
<1>3. ASSUME React \/ KeepRest PROVE codec' = codec /\ (whole' => whole)
  BY <1>3 DEF React, KeepRest
<1>4. ASSUME UNCHANGED vars PROVE codec' = codec /\ (whole' => whole)
  BY <1>4 DEF vars
<1> QED
  BY <1>1, <1>2, <1>3, <1>4 DEF Next

LEMMA StepFixed ==
  ASSUME Sending, CutInv, FixedInv, [Next]_vars
  PROVE  FixedInv'
<1>1. codec' = codec /\ (whole' => whole)
  BY StaysWhole
<1> DEFINE fl == codec.frameLength
           Fixed(g, w, b, rd) ==
             /\ \A i \in 1..Len(g) : Len(g[i]) = fl
             /\ \A i \in 1..Len(w) : IsMultiple(Len(w[i]), fl)
             /\ rd => IsMultiple(Len(b), fl)
<1> SUFFICES ASSUME codec.kind = "FixedLength", whole, whole'
             PROVE  Fixed(got', wire', buffer', reading')
  BY <1>1 DEF FixedInv, IsMultiple
<1>2. /\ Fixed(got, wire, buffer, reading)
      /\ inbound = <<>> /\ buffer \in Seq(Bytes) /\ got \in Seq(Seq(Bytes))
  BY DEF FixedInv, CutInv, IsMultiple
<1>3. /\ codec \in Codecs /\ wire \in Seq(Seq(Bytes)) /\ fl \in Nat /\ fl # 0
      /\ Len(wire) \in Nat /\ Len(got) \in Nat
  BY <1>2, CodecsAssumption, LenProperties DEF Sending
<1> HIDE DEF fl
<1> DEFINE A == Seq(Bytes)
<1> HIDE DEF A
<1>4. wire \in Seq(A) /\ got \in Seq(A)
  BY <1>2, <1>3 DEF A
<1>5. ASSUME NEW m \in Messages, Send(m) PROVE Fixed(got', wire', buffer', reading')
  <2> DEFINE x == FrameBytes(codec, m)
  <2>1. x \in A /\ IsMultiple(Len(x), fl)
    BY <1>3, <1>5, CutFrame DEF Send, fl, IsMultiple, A
  <2>2. wire' = Append(wire, x) /\ UNCHANGED <<got, buffer, reading>>
    BY <1>5 DEF Send, FrameBytes
  <2> HIDE DEF x
  <2>3. /\ Len(wire') = Len(wire) + 1
        /\ \A i \in 1..Len(wire) : wire'[i] = wire[i]
        /\ wire'[Len(wire) + 1] = x
    BY <1>4, <2>1, <2>2, AppendProperties
  <2>4. ASSUME NEW i \in 1..Len(wire') PROVE IsMultiple(Len(wire'[i]), fl)
    <3>1. i \in 1..Len(wire) \/ i = Len(wire) + 1
      BY <1>3, <2>3
    <3> QED
      BY <1>2, <2>1, <2>3, <3>1
  <2> QED
    BY <1>2, <2>2, <2>4
<1>6. ASSUME NEW n \in 0..Len(wire), NEW k \in Cuts(n), ReadPacket(n, k)
      PROVE  Fixed(got', wire', buffer', reading')
  <2>1. k = 0 /\ got' = got
    BY <1>6 DEF ReadPacket
  <2>2. buffer' = FlattenSeq(Take(wire, n)) /\ wire' = Drop(wire, n)
    BY <1>3, <1>6, <2>1, Packet
  <2> DEFINE t == Take(wire, n)
             d == Drop(wire, n)
  <2>3. /\ t \in Seq(A) /\ Len(t) = n /\ \A i \in 1..n : t[i] = wire[i]
        /\ Len(d) = Len(wire) - n /\ \A i \in 1..(Len(wire) - n) : d[i] = wire[n + i]
    BY <1>4, TakeDrop
  <2> HIDE DEF t, d
  <2>4. ASSUME NEW i \in 1..Len(t) PROVE IsMultiple(Len(t[i]), fl)
    <3>1. i \in 1..n /\ i \in 1..Len(wire)
      BY <1>3, <2>3
    <3> QED
      BY <1>2, <2>3, <3>1
  <2>5. IsMultiple(Len(FlattenSeq(t)), fl)
    BY <1>3, <2>3, <2>4, FlattenMultiple DEF A
  <2>6. ASSUME NEW i \in 1..Len(d) PROVE IsMultiple(Len(d[i]), fl)
    <3>1. i \in 1..(Len(wire) - n) /\ n + i \in 1..Len(wire)
      BY <1>3, <2>3
    <3> QED
      BY <1>2, <2>3, <3>1
  <2> QED
    BY <1>2, <2>1, <2>2, <2>5, <2>6 DEF t, d
<1>7. ASSUME React PROVE Fixed(got', wire', buffer', reading')
  <2> DEFINE c == Buffers(<<>>, buffer)
             d == Decode(codec, c)
  <2>1. /\ reading /\ d.ok /\ got' = Append(got, d.frame) /\ buffer' = d.conn.buffer
        /\ UNCHANGED <<wire, reading>>
    BY <1>2, <1>7 DEF React
  <2>2. buffer # <<>>
    BY <1>2, <1>3, <2>1, CutDecode
  <2>3. PICK l \in 1..Len(buffer) :
          /\ d = Frame(Take(buffer, l), Buffers(<<>>, Drop(buffer, l)))
          /\ fl <= Len(buffer) => l = fl
    BY <1>2, <1>3, <2>2, CutDecode DEF fl
  <2> HIDE DEF d
  <2> DEFINE n == Len(buffer)
  <2>4. n \in Nat /\ n # 0 /\ IsMultiple(n, fl)
    BY <1>2, <2>1, <2>2, EmptySeq, LenProperties
  <2>5. fl <= n /\ n - fl \in Nat /\ IsMultiple(n - fl, fl)
    <3> HIDE DEF n
    <3> QED
      BY <1>3, <2>4, Multiples
  <2>6. l = fl /\ l \in 0..n
    BY <2>3, <2>5
  <2> DEFINE b == Take(buffer, l)
             e == Drop(buffer, l)
  <2>7. Len(b) = fl /\ Len(e) = n - fl /\ b \in A
    BY <1>2, <2>6, TakeDrop DEF A
  <2>8. got' = Append(got, b) /\ buffer' = e
    BY <2>1, <2>3 DEF Frame, Buffers
  <2> HIDE DEF b, e, n
  <2>9. /\ Len(got') = Len(got) + 1
        /\ \A i \in 1..Len(got) : got'[i] = got[i]
        /\ got'[Len(got) + 1] = b
    BY <1>4, <2>7, <2>8, AppendProperties
  <2>10. ASSUME NEW i \in 1..Len(got') PROVE Len(got'[i]) = fl
    <3>1. i \in 1..Len(got) \/ i = Len(got) + 1
      BY <1>3, <2>9
    <3> QED
      BY <1>2, <2>7, <2>9, <3>1
  <2> QED
    BY <1>2, <2>1, <2>5, <2>7, <2>8, <2>10
<1>8. CASE KeepRest
  BY <1>2, <1>8 DEF KeepRest
<1>9. CASE UNCHANGED vars
  BY <1>2, <1>9 DEF vars
<1> QED
  BY <1>5, <1>6, <1>7, <1>8, <1>9 DEF Next

-----------------------------------------------------------------------------
(* The codecs that look for a frame.                                        *)

LEMMA FramedSend ==
  ASSUME NEW cc \in Codecs, NEW s \in Seq(Messages), AllEncoded(cc, s),
         NEW m \in Messages, Encode(cc, m).ok,
         NEW g \in Seq(Seq(Bytes)), NEW w \in Seq(Seq(Bytes)), NEW b, NEW rd \in BOOLEAN,
         Framed(cc, s, g, w, b, rd)
  PROVE  Framed(cc, Append(s, m), g, Append(w, FrameBytes(cc, m)), b, rd)
<1> DEFINE t == Append(s, m)
           x == FrameBytes(cc, m)
           v == Append(w, x)
           A == Seq(Bytes)
           k == Len(s) - Len(w)
<1>1. /\ Len(t) = Len(s) + 1 /\ t[Len(s) + 1] = m /\ \A i \in 1..Len(s) : t[i] = s[i]
      /\ Len(s) \in Nat /\ Len(g) \in Nat /\ Len(w) \in Nat
  BY AppendProperties, LenProperties
<1>2. x \in A
  BY FrameType
<1> HIDE DEF x, A
<1>3. Len(v) = Len(w) + 1 /\ v[Len(w) + 1] = x /\ \A i \in 1..Len(w) : v[i] = w[i]
  <2>1. w \in Seq(A)
    BY DEF A
  <2> QED
    BY <1>2, <2>1, AppendProperties
<1>4. k \in 0..Len(s) /\ Len(g) \in 0..k
  BY <1>1 DEF Framed
<1>5. Between(cc, t, Len(g), k) = Between(cc, s, Len(g), k)
  <2> DEFINE n == Len(g)
  <2>1. n \in 0..k
    BY <1>4
  <2> HIDE DEF n, k
  <2>2. Between(cc, t, n, k) = Between(cc, s, n, k)
    BY <1>4, <2>1, BetweenAppend
  <2> QED
    BY <2>2 DEF n
<1> HIDE DEF t, v
<1>6. Len(t) - Len(v) = k
  BY <1>1, <1>3
<1>7. ASSUME NEW i \in 1..Len(g) PROVE g[i] = FrameOf(cc, t[i])
  <2>1. i \in 1..Len(s)
    BY <1>1 DEF Framed
  <2> QED
    BY <1>1, <2>1 DEF Framed
<1>8. ASSUME NEW i \in 1..Len(v) PROVE v[i] = FrameBytes(cc, t[k + i])
  <2>1. CASE i = Len(w) + 1
    <3>1. k + i = Len(s) + 1
      BY <1>1, <2>1
    <3> QED
      BY <1>1, <1>3, <2>1, <3>1 DEF x
  <2>2. CASE i # Len(w) + 1
    <3>1. i \in 1..Len(w) /\ k + i \in 1..Len(s)
      BY <1>1, <1>3, <1>4, <2>2
    <3>2. w[i] = FrameBytes(cc, s[k + i])
      BY <3>1 DEF Framed
    <3> QED
      BY <1>1, <1>3, <3>1, <3>2
  <2> QED
    BY <2>1, <2>2
<1>9. Len(g) + Len(v) <= Len(t) /\ (~rd => Len(g) + Len(v) = Len(t))
  <2> DEFINE lg == Len(g)
             lw == Len(w)
             ls == Len(s)
  <2>1. /\ lg \in Nat /\ lw \in Nat /\ ls \in Nat
        /\ lg + lw <= ls /\ (~rd => lg + lw = ls)
        /\ Len(v) = lw + 1 /\ Len(t) = ls + 1
    BY <1>1, <1>3 DEF Framed
  <2> HIDE DEF lg, lw, ls
  <2>2. lg + (lw + 1) <= ls + 1 /\ (~rd => lg + (lw + 1) = ls + 1)
    BY <2>1
  <2> QED
    BY <2>1, <2>2, Zenon DEF lg
<1>10. rd => b = FlattenSeq(Between(cc, t, Len(g), k))
  BY <1>5 DEF Framed
<1> HIDE DEF k
<1>11. Framed(cc, t, g, v, b, rd)
  BY <1>6, <1>7, <1>8, <1>9, <1>10 DEF Framed
<1> QED
  BY <1>11 DEF t, v, x

LEMMA FramedPacket ==
  ASSUME NEW cc \in Codecs, NEW s \in Seq(Messages), AllEncoded(cc, s),
         NEW g \in Seq(Seq(Bytes)), NEW w \in Seq(Seq(Bytes)), NEW b, NEW n \in 0..Len(w),
         Framed(cc, s, g, w, b, FALSE)
  PROVE  Framed(cc, s, g, Drop(w, n), FlattenSeq(Take(w, n)), TRUE)
<1> DEFINE A == Seq(Bytes)
           t == Take(w, n)
           d == Drop(w, n)
           l == Len(g)
           k == l + n
           q == Between(cc, s, l, k)
<1>1. l \in Nat /\ Len(w) \in Nat /\ Len(s) \in Nat /\ l + Len(w) = Len(s)
  BY LenProperties DEF Framed
<1>2. /\ t \in Seq(A) /\ Len(t) = n /\ \A i \in 1..n : t[i] = w[i]
      /\ Len(d) = Len(w) - n /\ \A i \in 1..(Len(w) - n) : d[i] = w[n + i]
  <2> HIDE DEF A
  <2>1. w \in Seq(A)
    BY DEF A
  <2> QED
    BY <2>1, TakeDrop
<1>3. k \in 0..Len(s) /\ l \in 0..k /\ k - l = n
  BY <1>1
<1>4. \A i \in 1..Len(w) : w[i] = FrameBytes(cc, s[l + i])
  <2>1. Len(s) - Len(w) = l
    BY <1>1
  <2> HIDE DEF l
  <2> QED
    BY <2>1 DEF Framed
<1>5. q \in Seq(A) /\ Len(q) = n /\ \A i \in 1..n : q[i] = FrameBytes(cc, s[l + i])
  <2> HIDE DEF k, l
  <2>1. q \in Seq(A) /\ Len(q) = k - l /\ \A i \in 1..(k - l) : q[i] = FrameBytes(cc, s[l + i])
    BY <1>3, BetweenType
  <2> HIDE DEF q
  <2> QED
    BY <1>3, <2>1
<1> HIDE DEF q, t, d, A, k
<1>6. t = q
  <2>1. ASSUME NEW i \in 1..Len(t) PROVE t[i] = q[i]
    <3>1. i \in 1..n /\ i \in 1..Len(w)
      BY <1>1, <1>2
    <3> QED
      BY <1>2, <1>4, <1>5, <3>1
  <2> QED
    BY <1>2, <1>5, <2>1, SeqEqual
<1>7. Len(s) - Len(d) = k /\ l + Len(d) <= Len(s)
  <2> DEFINE lw == Len(w)
             ls == Len(s)
  <2>1. /\ l \in Nat /\ lw \in Nat /\ ls \in Nat /\ l + lw = ls
        /\ n \in 0..lw /\ Len(d) = lw - n
    BY <1>1, <1>2
  <2> HIDE DEF lw, ls, l
  <2>2. ls - (lw - n) = l + n /\ l + (lw - n) <= ls
    BY <2>1
  <2> QED
    BY <2>1, <2>2, Zenon DEF ls, k
<1>8. ASSUME NEW i \in 1..Len(d) PROVE d[i] = FrameBytes(cc, s[k + i])
  <2>1. i \in 1..(Len(w) - n) /\ n + i \in 1..Len(w) /\ l + (n + i) = k + i
    BY <1>1, <1>2 DEF k
  <2> QED
    BY <1>2, <1>4, <2>1
<1>9. \A i \in 1..l : g[i] = FrameOf(cc, s[i])
  BY DEF Framed
<1>10. FlattenSeq(t) = FlattenSeq(Between(cc, s, l, k))
  BY <1>6 DEF q
<1>11. Framed(cc, s, g, d, FlattenSeq(t), TRUE)
  BY <1>7, <1>8, <1>9, <1>10 DEF Framed
<1> QED
  BY <1>11 DEF t, d

LEMMA FramedReact ==
  ASSUME NEW cc \in Codecs, NEW s \in Seq(Messages), AllEncoded(cc, s),
         NEW g \in Seq(Seq(Bytes)), NEW w \in Seq(Seq(Bytes)), NEW b,
         Framed(cc, s, g, w, b, TRUE), Len(g) + Len(w) # Len(s),
         FrameOf(cc, s[Len(g) + 1]) \in Seq(Bytes)
  PROVE  \E r \in Seq(Bytes) :
           /\ Len(g) + 1 \in 1..Len(s)
           /\ b = FrameBytes(cc, s[Len(g) + 1]) \o r
           /\ Append(g, FrameOf(cc, s[Len(g) + 1])) \in Seq(Seq(Bytes))
           /\ Framed(cc, s, Append(g, FrameOf(cc, s[Len(g) + 1])), w, r, TRUE)
<1> DEFINE A == Seq(Bytes)
           l == Len(g)
           k == Len(s) - Len(w)
           m == s[l + 1]
           x == FrameOf(cc, m)
           h == Append(g, x)
           r == FlattenSeq(Between(cc, s, l + 1, k))
<1>1. l \in Nat /\ Len(w) \in Nat /\ Len(s) \in Nat /\ l + Len(w) <= Len(s) /\ l + Len(w) # Len(s)
  BY LenProperties DEF Framed
<1>2. k \in 1..Len(s) /\ l \in 0..(k - 1) /\ l + 1 \in 1..Len(s)
  BY <1>1
<1>3. h \in Seq(A) /\ Len(h) = l + 1 /\ h[l + 1] = x /\ \A i \in 1..l : h[i] = g[i]
  <2>1. g \in Seq(A) /\ x \in A
    OBVIOUS
  <2> HIDE DEF A, x
  <2> QED
    BY <2>1, AppendProperties
<1> HIDE DEF h
<1>4. /\ b = FlattenSeq(Between(cc, s, l, k))
      /\ \A i \in 1..l : g[i] = FrameOf(cc, s[i])
      /\ \A i \in 1..Len(w) : w[i] = FrameBytes(cc, s[k + i])
  BY DEF Framed
<1> HIDE DEF k, l
<1>5. FlattenSeq(Between(cc, s, l, k)) = FrameBytes(cc, m) \o r /\ r \in Seq(Bytes)
  BY <1>2, BetweenFirst
<1>6. ASSUME NEW i \in 1..Len(h) PROVE h[i] = FrameOf(cc, s[i])
  <2>1. i \in 1..l \/ i = l + 1
    BY <1>1, <1>3
  <2>2. CASE i \in 1..l
    BY <1>3, <1>4, <2>2
  <2>3. CASE i = l + 1
    BY <1>3, <2>3
  <2> QED
    BY <2>1, <2>2, <2>3
<1>7. Len(h) + Len(w) <= Len(s)
  BY <1>1, <1>3
<1>8. r = FlattenSeq(Between(cc, s, Len(h), k))
  BY <1>3
<1> HIDE DEF r, x, m
<1>9. Framed(cc, s, h, w, r, TRUE)
  <2>1. \A i \in 1..Len(w) : w[i] = FrameBytes(cc, s[(Len(s) - Len(w)) + i])
    BY <1>4 DEF k
  <2>2. r = FlattenSeq(Between(cc, s, Len(h), Len(s) - Len(w)))
    BY <1>8 DEF k
  <2> QED
    BY <1>6, <1>7, <2>1, <2>2 DEF Framed
<1> QED
  <2>1. b = FrameBytes(cc, s[Len(g) + 1]) \o r
    BY <1>4, <1>5 DEF m, l
  <2>2. Append(g, FrameOf(cc, s[Len(g) + 1])) = h
    BY DEF h, x, m, l
  <2>3. h \in Seq(Seq(Bytes)) /\ Len(g) + 1 \in 1..Len(s)
    BY <1>2, <1>3 DEF A, l
  <2> HIDE DEF A
  <2> QED
    BY <1>5, <1>9, <2>1, <2>2, <2>3

FramedState ==
  /\ inbound = <<>>
  /\ got \in Seq(Seq(Bytes))
  /\ Framed(codec, sent, got, wire, buffer, reading)

LEMMA FramedOnReact ==
  ASSUME Sending, FramedState, NoneEmpty, codec.kind \in {"Delimiter", "LengthField"},
         reading, Len(got) + Len(wire) # Len(sent)
  PROVE  LET m == sent[Len(got) + 1]
         IN  \E r \in Seq(Bytes) :
               /\ Decode(codec, Buffers(inbound, buffer)) = Frame(FrameOf(codec, m), Buffers(<<>>, r))
               /\ Append(got, FrameOf(codec, m)) \in Seq(Seq(Bytes))
               /\ Framed(codec, sent, Append(got, FrameOf(codec, m)), wire, r, TRUE)
<1> DEFINE m == sent[Len(got) + 1]
<1>1. /\ inbound = <<>> /\ got \in Seq(Seq(Bytes)) /\ wire \in Seq(Seq(Bytes))
      /\ codec \in Codecs /\ sent \in Seq(Messages) /\ AllEncoded(codec, sent)
      /\ Framed(codec, sent, got, wire, buffer, TRUE)
  BY DEF Sending, FramedState, AllEncoded
<1>2. Len(got) + 1 \in 1..Len(sent)
  <2> DEFINE lg == Len(got)
             lw == Len(wire)
             ls == Len(sent)
  <2>1. lg \in Nat /\ lw \in Nat /\ ls \in Nat /\ lg + lw <= ls /\ lg + lw # ls
    BY <1>1, LenProperties DEF Framed
  <2> HIDE DEF lg, lw, ls
  <2>2. lg + 1 \in 1..ls
    BY <2>1
  <2> QED
    BY <2>2 DEF lg, ls
<1>3. /\ m \in Messages /\ Sendable(codec, m) /\ Encode(codec, m).ok
      /\ codec.kind = "LengthField" => m # <<>>
  <2> DEFINE i == Len(got) + 1
  <2>1. i \in 1..Len(sent) /\ i \in DOMAIN sent
    BY <1>1, <1>2, LenProperties
  <2> HIDE DEF i
  <2>2. /\ sent[i] \in Messages /\ Sendable(codec, sent[i]) /\ Encode(codec, sent[i]).ok
        /\ codec.kind = "LengthField" => sent[i] # <<>>
    BY <1>1, <2>1, ElementOfSeq DEF Sending, NoneEmpty
  <2> QED
    BY <2>2 DEF i
<1>4. FrameOf(codec, m) \in Seq(Bytes)
  BY <1>1, <1>3, FrameOfType
<1>5. PICK r \in Seq(Bytes) :
        /\ buffer = FrameBytes(codec, m) \o r
        /\ Append(got, FrameOf(codec, m)) \in Seq(Seq(Bytes))
        /\ Framed(codec, sent, Append(got, FrameOf(codec, m)), wire, r, TRUE)
  BY <1>1, <1>4, FramedReact
<1> HIDE DEF m
<1>6. Decode(codec, Buffers(<<>>, FrameBytes(codec, m) \o r)) = Frame(FrameOf(codec, m), Buffers(<<>>, r))
  BY <1>1, <1>3, FirstFrame
<1>7. Decode(codec, Buffers(inbound, buffer)) = Frame(FrameOf(codec, m), Buffers(<<>>, r))
  BY <1>1, <1>5, <1>6, Zenon
<1> QED
  BY <1>5, <1>7, Zenon DEF m

\* When the buffer holds the frames of no message, there is no frame.
LEMMA FramedEmpty ==
  ASSUME Sending, FramedState, codec.kind \in {"Delimiter", "LengthField"},
         reading, Len(got) + Len(wire) = Len(sent)
  PROVE  buffer = <<>> /\ ~Decode(codec, Buffers(inbound, buffer)).ok
<1> DEFINE lg == Len(got)
           lw == Len(wire)
           ls == Len(sent)
<1>1. /\ inbound = <<>> /\ codec \in Codecs
      /\ lg \in Nat /\ lw \in Nat /\ ls \in Nat /\ lg + lw = ls
      /\ buffer = FlattenSeq(Between(codec, sent, lg, ls - lw))
  BY LenProperties DEF Sending, FramedState, Framed
<1> HIDE DEF lg, lw, ls
<1>2. ls - lw = lg
  BY <1>1
<1>3. buffer = <<>>
  BY <1>1, <1>2, BetweenNone
<1> QED
  BY <1>1, <1>3, NothingToDecode

LEMMA StepFramed ==
  ASSUME Sending, Sending', FramedInv, [Next]_vars
  PROVE  FramedInv'
<1>1. codec' = codec /\ (whole' => whole)
  BY StaysWhole
<1>2. NoneEmpty' => NoneEmpty
  <2>1. ASSUME NEW m \in Messages, Send(m), NoneEmpty' PROVE NoneEmpty
    <3>1. /\ sent \in Seq(Messages) /\ sent' \in Seq(Messages) /\ Len(sent') = Len(sent) + 1
          /\ \A i \in 1..Len(sent) : sent'[i] = sent[i]
      BY <2>1, AppendProperties DEF Send, Sending
    <3>2. /\ DOMAIN sent = 1..Len(sent) /\ DOMAIN sent' = 1..Len(sent') /\ Len(sent) \in Nat
      BY <3>1, LenProperties
    <3>3. \A i \in 1..Len(sent) : i \in 1..Len(sent')
      BY <3>1, <3>2
    <3> QED
      BY <1>1, <2>1, <3>1, <3>2, <3>3 DEF NoneEmpty
  <2>2. ASSUME sent' = sent, NoneEmpty' PROVE NoneEmpty
    BY <1>1, <2>2 DEF NoneEmpty
  <2>3. sent' = sent \/ \E m \in Messages : Send(m)
    BY DEF Next, ReadPacket, React, KeepRest, vars
  <2> QED
    BY <2>1, <2>2, <2>3
<1> SUFFICES ASSUME codec.kind \in {"Delimiter", "LengthField"}, whole', NoneEmpty'
             PROVE  FramedState'
  BY <1>1 DEF FramedInv, FramedState
<1>3. FramedState /\ NoneEmpty
  BY <1>1, <1>2 DEF FramedInv, FramedState
<1>4. /\ inbound = <<>> /\ got \in Seq(Seq(Bytes)) /\ wire \in Seq(Seq(Bytes))
      /\ codec \in Codecs /\ sent \in Seq(Messages) /\ AllEncoded(codec, sent)
      /\ Framed(codec, sent, got, wire, buffer, reading) /\ reading \in BOOLEAN
  BY <1>3 DEF Sending, FramedState, AllEncoded
<1>5. ASSUME NEW m \in Messages, Send(m) PROVE FramedState'
  <2>1. /\ sent' = Append(sent, m) /\ wire' = Append(wire, FrameBytes(codec, m))
        /\ Encode(codec, m).ok /\ UNCHANGED <<codec, inbound, buffer, reading, got>>
    BY <1>5 DEF Send, FrameBytes
  <2>2. Framed(codec, Append(sent, m), got, Append(wire, FrameBytes(codec, m)), buffer, reading)
    BY <1>4, <2>1, FramedSend
  <2>3. Framed(codec', sent', got', wire', buffer', reading')
    BY <2>1, <2>2, Zenon
  <2> QED
    BY <1>4, <2>1, <2>3 DEF FramedState
<1>6. ASSUME NEW n \in 0..Len(wire), NEW k \in Cuts(n), ReadPacket(n, k) PROVE FramedState'
  <2>1. k = 0 /\ ~reading /\ reading' = TRUE /\ UNCHANGED <<codec, sent, inbound, got>>
    BY <1>6 DEF ReadPacket
  <2>2. buffer' = FlattenSeq(Take(wire, n)) /\ wire' = Drop(wire, n)
    BY <1>4, <1>6, <2>1, Packet
  <2>3. Framed(codec, sent, got, wire, buffer, FALSE)
    BY <1>4, <2>1
  <2>4. Framed(codec, sent, got, Drop(wire, n), FlattenSeq(Take(wire, n)), TRUE)
    BY <1>4, <2>3, FramedPacket
  <2>5. Framed(codec', sent', got', wire', buffer', reading')
    BY <2>1, <2>2, <2>4, Zenon
  <2> QED
    BY <1>4, <2>1, <2>5 DEF FramedState
<1>7. ASSUME React PROVE FramedState'
  <2> DEFINE d == Decode(codec, Buffers(inbound, buffer))
  <2>1. /\ reading /\ d.ok /\ got' = Append(got, d.frame)
        /\ inbound' = d.conn.inbound /\ buffer' = d.conn.buffer
        /\ UNCHANGED <<codec, sent, wire, reading>>
    BY <1>7 DEF React
  <2>2. Len(got) + Len(wire) # Len(sent)
    BY <1>3, <2>1, FramedEmpty
  <2> DEFINE x == FrameOf(codec, sent[Len(got) + 1])
  <2>3. PICK r \in Seq(Bytes) :
          /\ d = Frame(x, Buffers(<<>>, r))
          /\ Append(got, x) \in Seq(Seq(Bytes))
          /\ Framed(codec, sent, Append(got, x), wire, r, TRUE)
    BY <1>3, <2>1, <2>2, FramedOnReact
  <2> HIDE DEF d, x
  <2>4. got' = Append(got, x) /\ inbound' = <<>> /\ buffer' = r
    BY <2>1, <2>3 DEF Frame, Buffers
  <2>5. reading' = TRUE
    BY <1>4, <2>1
  <2>6. Framed(codec', sent', got', wire', buffer', reading')
    BY <2>1, <2>3, <2>4, <2>5, Zenon
  <2> QED
    BY <2>3, <2>4, <2>6 DEF FramedState
<1>8. ASSUME KeepRest PROVE FramedState'
  <2>1. /\ reading /\ ~Decode(codec, Buffers(inbound, buffer)).ok /\ reading' = FALSE
        /\ inbound' = inbound \o buffer /\ UNCHANGED <<codec, sent, wire, buffer, got>>
    BY <1>8 DEF KeepRest
  <2>2. Len(got) + Len(wire) = Len(sent)
    <3> SUFFICES ASSUME Len(got) + Len(wire) # Len(sent) PROVE FALSE
      OBVIOUS
    <3>1. PICK f, c : Decode(codec, Buffers(inbound, buffer)) = Frame(f, c)
      BY <1>3, <2>1, FramedOnReact
    <3> QED
      BY <2>1, <3>1 DEF Frame
  <2>3. buffer = <<>>
    BY <1>3, <2>1, <2>2, FramedEmpty
  <2>4. inbound' = <<>>
    <3>1. <<>> \in Seq(Bytes)
      BY EmptySeq
    <3> QED
      BY <1>4, <2>1, <2>3, <3>1, ConcatEmptySeq
  <2>5. Framed(codec, sent, got, wire, buffer, FALSE)
    BY <1>4, <2>1, <2>2 DEF Framed
  <2>6. Framed(codec', sent', got', wire', buffer', reading')
    BY <2>1, <2>5, Zenon
  <2> QED
    BY <1>4, <2>1, <2>4, <2>6 DEF FramedState
<1>9. CASE UNCHANGED vars
  BY <1>3, <1>9 DEF FramedState, vars
<1> QED
  BY <1>5, <1>6, <1>7, <1>8, <1>9 DEF Next

-----------------------------------------------------------------------------
(* The theorem.                                                             *)

LEMMA InitInv == Init => Inv
<1> SUFFICES ASSUME Init PROVE Inv
  OBVIOUS
<1>1. /\ <<>> \in Seq(Seq(Bytes)) /\ <<>> \in Seq(Messages) /\ <<>> \in Seq(Bytes)
      /\ Len(<<>>) = 0 /\ Len(sent) = 0 /\ Len(got) = 0 /\ Len(wire) = 0
  BY EmptySeq DEF Init
<1>2. Sending
  <2> DEFINE A == Seq(Bytes)
  <2>1. /\ sent = <<>> /\ got = <<>> /\ wire = <<>> /\ inbound = <<>> /\ buffer = <<>>
        /\ whole = TRUE /\ reading = FALSE
    BY DEF Init
  <2>2. codec \in Codecs
    BY DEF Init
  <2>3. <<>> \in Seq(A) /\ <<>> \in A
    BY <1>1
  <2>4. ASSUME NEW i \in 1..Len(sent) PROVE FALSE
    BY <1>1, <2>4
  <2> HIDE DEF A
  <2>5. wire \in Seq(A) /\ got \in Seq(A) /\ inbound \in A /\ buffer \in A
    BY <2>1, <2>3, Zenon
  <2>6. sent \in Seq(Messages) /\ whole \in BOOLEAN /\ reading \in BOOLEAN
    BY <1>1, <2>1, Zenon
  <2> QED
    BY <1>1, <2>1, <2>2, <2>4, <2>5, <2>6 DEF Sending, A
<1>3. CutInv
  <2>1. StreamOf(codec, <<>>) = <<>>
    <3>1. Between(codec, <<>>, 0, 0) = <<>>
      BY DEF Between
    <3> QED
      BY <1>1, <3>1, FlattenEmpty DEF StreamOf
  <2>2. AllFrames(codec, sent) = Between(codec, sent, 0, Len(sent))
    BY <1>2, StreamIs DEF Sending
  <2>3. Stream = <<>>
    BY <2>1, <2>2, Zenon DEF Init, Stream, AllFrames, StreamOf
  <2>4. <<>> \o <<>> = <<>>
    BY <1>1, ConcatEmptySeq
  <2>5. FlattenSeq(got) \o Unread = <<>>
    <3>1. got = <<>> /\ wire = <<>> /\ inbound = <<>> /\ reading = FALSE
      BY DEF Init
    <3> QED
      BY <2>4, <3>1, FlattenEmpty DEF Unread
  <2> QED
    BY <1>1, <2>3, <2>5 DEF Init, CutInv
<1>4. FixedInv
  BY <1>1 DEF Init, FixedInv
<1>5. FramedInv
  BY <1>1 DEF Init, FramedInv, Framed
<1> QED
  BY <1>2, <1>3, <1>4, <1>5 DEF Inv

LEMMA StepInv == Inv /\ [Next]_vars => Inv'
BY StepSending, StepCut, StepFixed, StepFramed DEF Inv

LEMMA InvRoundTrip == Inv => RoundTrip
<1> SUFFICES ASSUME Inv PROVE RoundTrip
  OBVIOUS
<1>1. Sending /\ CutInv /\ FixedInv /\ FramedInv
  BY DEF Inv
<1>2. ASSUME codec.kind = "FixedLength", whole
      PROVE  \A i \in DOMAIN got : Len(got[i]) = codec.frameLength
  BY <1>1, <1>2, LenProperties DEF CutInv, FixedInv
<1>3. ASSUME codec.kind \in {"Delimiter", "LengthField"}, whole, NoneEmpty
      PROVE  /\ IsPrefix(got, Expected)
             /\ ~reading /\ wire = <<>> => got = Expected /\ inbound = <<>>
  <2> DEFINE E == Expected
             A == Seq(Bytes)
  <2>1. /\ inbound = <<>> /\ got \in Seq(A) /\ wire \in Seq(A) /\ sent \in Seq(Messages)
        /\ Len(got) \in Nat /\ Len(wire) \in Nat /\ Len(sent) \in Nat
        /\ Len(got) + Len(wire) <= Len(sent) /\ (~reading => Len(got) + Len(wire) = Len(sent))
        /\ \A i \in 1..Len(got) : got[i] = FrameOf(codec, sent[i])
    BY <1>1, <1>3, LenProperties DEF Sending, FramedInv, Framed
  <2>2. E \in Seq(A) /\ Len(E) = Len(sent) /\ \A i \in 1..Len(sent) : E[i] = FrameOf(codec, sent[i])
    <3>1. ASSUME NEW i \in 1..Len(sent) PROVE FrameOf(codec, sent[i]) \in A
      <4>1. sent[i] \in Messages /\ codec \in Codecs /\ Encode(codec, sent[i]).ok
        BY <1>1, <2>1, ElementOfSeq DEF Sending
      <4> QED
        BY <1>3, <4>1, FrameOfType
    <3>2. DOMAIN sent = 1..Len(sent)
      BY <2>1, LenProperties
    <3>3. E = [i \in 1..Len(sent) |-> FrameOf(codec, sent[i])]
      BY <3>2 DEF Expected
    <3> HIDE DEF A, E
    <3>4. E \in [1..Len(sent) -> A]
      BY <3>1, <3>3
    <3>5. E \in Seq(A) /\ Len(E) = Len(sent)
      <4> DEFINE l == Len(sent)
      <4>1. l \in Nat /\ E \in [1..l -> A]
        BY <2>1, <3>4
      <4> HIDE DEF l
      <4>2. E \in Seq(A)
        BY <4>1, SeqDef
      <4>3. Len(E) = l
        BY <4>1, <4>2, LenProperties
      <4> QED
        BY <4>2, <4>3 DEF l
    <3> QED
      BY <3>3, <3>5
  <2> HIDE DEF E, A
  <2> DEFINE n == Len(got)
  <2>3. n \in 0..Len(E) /\ n <= Len(E)
    BY <2>1, <2>2
  <2>4. Take(E, n) \in Seq(A) /\ Len(Take(E, n)) = n /\ \A i \in 1..n : Take(E, n)[i] = E[i]
    BY <2>2, <2>3, TakeDrop
  <2>5. Take(E, n) = got
    <3>1. ASSUME NEW i \in 1..n PROVE got[i] = Take(E, n)[i]
      <4>1. i \in 1..Len(sent)
        BY <2>2, <2>3
      <4> QED
        BY <2>1, <2>2, <2>4, <4>1
    <3> DEFINE t == Take(E, n)
    <3>2. t \in Seq(A) /\ Len(t) = Len(got) /\ \A i \in 1..Len(got) : got[i] = t[i]
      BY <2>4, <3>1
    <3> HIDE DEF t
    <3>3. got = t
      BY <2>1, <3>2, SeqEqual
    <3> QED
      BY <3>3 DEF t
  <2>6. SubSeq(got, 1, Len(got)) = got
    BY <2>1, SubSeqFull
  <2>7. IsPrefix(got, E)
    BY <2>3, <2>5, <2>6 DEF IsPrefix, Take
  <2>8. ASSUME ~reading, wire = <<>> PROVE got = E
    <3>1. Len(wire) = 0
      BY <2>8, EmptySeq
    <3>2. Len(got) = Len(E)
      BY <2>1, <2>2, <2>8, <3>1
    <3>3. Take(E, Len(E)) = E
      BY <2>2, SubSeqFull DEF Take
    <3> QED
      BY <2>5, <3>2, <3>3, Zenon
  <2> QED
    BY <2>1, <2>7, <2>8 DEF E
<1> QED
  BY <1>1, <1>2, <1>3 DEF CutInv, RoundTrip

\* What the codecs promise holds for every set of messages, any number of them,
\* every radix of a byte and every configuration whose two ends match, whatever
\* the packets are cut into (codec.go, connection_unix.go:118-190).
THEOREM CodecsRoundTrip == Spec => []RoundTrip
<1>1. Spec => []Inv
  BY InitInv, StepInv, PTL DEF Spec
<1> QED
  BY <1>1, InvRoundTrip, PTL

=============================================================================
