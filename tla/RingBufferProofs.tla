-------------------------- MODULE RingBufferProofs ---------------------------
(***************************************************************************)
(* For every size, every byte and every payload, the ring buffer is the    *)
(* queue of bytes of ByteQueue: RingBuffer's specification implies it.     *)
(*                                                                         *)
(* The lemmas speak of an array b of s bytes that is read at i and written *)
(* at j, and that is empty when e is TRUE, so that they can be used before *)
(* and after a step.                                                       *)
(***************************************************************************)
EXTENDS RingBuffer, SequenceTheorems, TLAPS

RingOK(b, s, i, j, e) ==
  /\ s \in Nat
  /\ b \in [0..(s - 1) -> Byte]
  /\ IF s = 0 THEN i = 0 /\ j = 0 /\ e ELSE i \in 0..(s - 1) /\ j \in 0..(s - 1)
  /\ e \in BOOLEAN
  /\ e => i = j

\* The number of bytes that can be read.
Held(s, i, j, e) == IF e THEN 0 ELSE IF j > i THEN j - i ELSE s - i + j

Wrapped(s, x) == IF x < s THEN x ELSE x - s

Cut(b, i, j) == [k \in 1..(j - i) |-> b[i + k - 1]]

\* What can be read, as LazyReadAll returns it.
Readable(b, s, i, j, e) ==
  IF e THEN <<>>
  ELSE IF j > i THEN Cut(b, i, j)
  ELSE Cut(b, i, s) \o Cut(b, 0, j)

-----------------------------------------------------------------------------
(* Sequences and slices.                                                   *)

LEMMA FunctionIsSeq ==
  ASSUME NEW S, NEW n \in Nat, NEW f \in [1..n -> S]
  PROVE  f \in Seq(S) /\ Len(f) = n
<1>1. f \in Seq(S)
  BY SeqDef
<1>2. Len(f) = n
  BY <1>1
<1> QED
  BY <1>1, <1>2

LEMMA CutProperties ==
  ASSUME NEW s \in Nat, NEW b \in [0..(s - 1) -> Byte],
         NEW j \in 0..s, NEW i \in 0..j
  PROVE  /\ Cut(b, i, j) \in Seq(Byte)
         /\ Len(Cut(b, i, j)) = j - i
         /\ \A k \in 1..(j - i) : Cut(b, i, j)[k] = b[i + k - 1]
<1> DEFINE n == j - i
<1>1. n \in Nat
  OBVIOUS
<1>2. \A k \in 1..n : i + k - 1 \in 0..(s - 1)
  OBVIOUS
<1>3. Cut(b, i, j) \in [1..n -> Byte]
  BY <1>2 DEF Cut
<1>4. Cut(b, i, j) \in Seq(Byte) /\ Len(Cut(b, i, j)) = n
  BY <1>1, <1>3, FunctionIsSeq
<1> QED
  BY <1>4 DEF Cut

LEMMA HeldRange ==
  ASSUME NEW b, NEW s, NEW i, NEW j, NEW e, RingOK(b, s, i, j, e)
  PROVE  Held(s, i, j, e) \in 0..s
BY DEF RingOK, Held

LEMMA ReadableProperties ==
  ASSUME NEW b, NEW s, NEW i, NEW j, NEW e, RingOK(b, s, i, j, e)
  PROVE  /\ Readable(b, s, i, j, e) \in Seq(Byte)
         /\ Len(Readable(b, s, i, j, e)) = Held(s, i, j, e)
         /\ \A k \in 1..Held(s, i, j, e) :
              Readable(b, s, i, j, e)[k] = b[Wrapped(s, i + k - 1)]
<1>1. CASE e
  BY <1>1, EmptySeq DEF Readable, Held
<1>2. CASE ~e /\ j > i
  <2>1. s \in Nat /\ b \in [0..(s - 1) -> Byte] /\ j \in 0..s /\ i \in 0..j
    BY <1>2 DEF RingOK
  <2>2. \A k \in 1..(j - i) : Wrapped(s, i + k - 1) = i + k - 1
    BY <2>1, <1>2 DEF Wrapped
  <2>3. Readable(b, s, i, j, e) = Cut(b, i, j) /\ Held(s, i, j, e) = j - i
    BY <1>2 DEF Readable, Held
  <2> QED
    <3>1. /\ Cut(b, i, j) \in Seq(Byte)
          /\ Len(Cut(b, i, j)) = j - i
          /\ \A k \in 1..(j - i) : Cut(b, i, j)[k] = b[i + k - 1]
      BY <2>1, CutProperties
    <3> QED
      BY <2>1, <2>2, <2>3, <3>1
<1>3. CASE ~e /\ ~(j > i)
  <2> DEFINE c == Cut(b, i, s)
             d == Cut(b, 0, j)
  <2>1. /\ s \in Nat /\ b \in [0..(s - 1) -> Byte] /\ i \in 0..(s - 1)
        /\ j \in 0..(s - 1) /\ j <= i
    BY <1>3 DEF RingOK
  <2>2. /\ c \in Seq(Byte) /\ Len(c) = s - i
        /\ \A k \in 1..(s - i) : c[k] = b[i + k - 1]
    <3>1. s \in 0..s /\ i \in 0..s
      BY <2>1
    <3> QED
      BY <2>1, <3>1, CutProperties
  <2>3. /\ d \in Seq(Byte) /\ Len(d) = j
        /\ \A k \in 1..j : d[k] = b[k - 1]
    <3>1. j \in 0..s /\ 0 \in 0..j
      BY <2>1
    <3>2. /\ d \in Seq(Byte) /\ Len(d) = j - 0
          /\ \A k \in 1..(j - 0) : d[k] = b[0 + k - 1]
      BY <2>1, <3>1, CutProperties
    <3> HIDE DEF d
    <3> QED
      BY <2>1, <3>2
  <2>4. Readable(b, s, i, j, e) = c \o d /\ Held(s, i, j, e) = s - i + j
    BY <1>3 DEF Readable, Held
  <2> HIDE DEF c, d
  <2>5. /\ c \o d \in Seq(Byte)
        /\ Len(c \o d) = s - i + j
        /\ \A k \in 1..(s - i + j) :
             (c \o d)[k] = IF k <= s - i THEN c[k] ELSE d[k - (s - i)]
    <3>1. /\ c \o d \in Seq(Byte)
          /\ Len(c \o d) = Len(c) + Len(d)
          /\ \A k \in 1..(Len(c) + Len(d)) :
               (c \o d)[k] = IF k <= Len(c) THEN c[k] ELSE d[k - Len(c)]
      BY <2>2, <2>3, ConcatProperties, Zenon
    <3> QED
      BY <2>2, <2>3, <3>1
  <2>6. ASSUME NEW k \in 1..(s - i + j)
        PROVE  (c \o d)[k] = b[Wrapped(s, i + k - 1)]
    <3>1. CASE k <= s - i
      <4>1. k \in 1..(s - i) /\ Wrapped(s, i + k - 1) = i + k - 1
        BY <2>1, <3>1 DEF Wrapped
      <4> QED
        BY <2>2, <2>5, <3>1, <4>1
    <3>2. CASE ~(k <= s - i)
      <4>1. k - (s - i) \in 1..j /\ Wrapped(s, i + k - 1) = k - (s - i) - 1
        BY <2>1, <3>2 DEF Wrapped
      <4> QED
        BY <2>3, <2>5, <3>2, <4>1
    <3> QED
      BY <3>1, <3>2
  <2> QED
    BY <2>4, <2>5, <2>6
<1> QED
  BY <1>1, <1>2, <1>3

-----------------------------------------------------------------------------
(* Reading.                                                                *)

\* A part of a sequence, element by element.
LEMMA PartProperties ==
  ASSUME NEW S, NEW q \in Seq(S), NEW m \in 1..(Len(q) + 1), NEW n \in 0..Len(q),
         m <= n + 1
  PROVE  /\ SubSeq(q, m, n) \in Seq(S)
         /\ Len(SubSeq(q, m, n)) = n - m + 1
         /\ \A k \in 1..(n - m + 1) : SubSeq(q, m, n)[k] = q[m + k - 1]
<1>1. \A k \in m..n : q[k] \in S
  BY ElementOfSeq
<1>2. m \in Int /\ n \in Int
  BY LenProperties
<1>3. /\ SubSeq(q, m, n) \in Seq(S)
      /\ Len(SubSeq(q, m, n)) = IF m <= n THEN n - m + 1 ELSE 0
      /\ \A k \in 1..(n - m + 1) : SubSeq(q, m, n)[k] = q[m + k - 1]
  BY <1>1, <1>2, SubSeqProperties
<1> QED
  BY <1>2, <1>3

\* Reading n bytes moves the reader past them.
LEMMA Consumed ==
  ASSUME NEW b, NEW s, NEW i, NEW j, NEW e, RingOK(b, s, i, j, e), ~e,
         NEW n \in 1..Held(s, i, j, e),
         NEW i2, i2 = Wrapped(s, i + n),
         NEW e2 \in BOOLEAN, e2 <=> i2 = j
  PROVE  /\ RingOK(b, s, i2, j, e2)
         /\ Readable(b, s, i2, j, e2) =
              SubSeq(Readable(b, s, i, j, e), n + 1, Held(s, i, j, e))
<1> DEFINE h  == Held(s, i, j, e)
           q  == Readable(b, s, i, j, e)
           q2 == Readable(b, s, i2, j, e2)
<1>1. /\ s \in Nat \ {0} /\ b \in [0..(s - 1) -> Byte]
      /\ i \in 0..(s - 1) /\ j \in 0..(s - 1)
  BY DEF RingOK
<1>2. h = IF j > i THEN j - i ELSE s - i + j
  BY DEF Held
<1>3. h \in 0..s
  BY HeldRange
<1>4. RingOK(b, s, i2, j, e2)
  BY <1>1, <1>2, <1>3 DEF RingOK, Wrapped
<1>5. Held(s, i2, j, e2) = h - n
  <2> HIDE DEF h
  <2>1. n \in 1..h
    BY DEF h
  <2>2. CASE j > i
    <3>1. i2 = i + n /\ i2 <= j
      BY <1>1, <1>2, <2>1, <2>2 DEF Wrapped
    <3> QED
      BY <1>1, <1>2, <2>1, <2>2, <3>1 DEF Held
  <2>3. CASE ~(j > i) /\ i + n < s
    <3>1. i2 = i + n /\ i2 > j
      BY <1>1, <1>2, <2>1, <2>3 DEF Wrapped
    <3> QED
      BY <1>1, <1>2, <2>1, <2>3, <3>1 DEF Held
  <2>4. CASE ~(j > i) /\ ~(i + n < s)
    <3>1. i2 = i + n - s /\ i2 <= j
      BY <1>1, <1>2, <2>1, <2>4 DEF Wrapped
    <3> QED
      BY <1>1, <1>2, <2>1, <2>4, <3>1 DEF Held
  <2> QED
    BY <2>2, <2>3, <2>4
<1>6. ASSUME NEW k \in 1..(h - n)
      PROVE  Wrapped(s, i2 + k - 1) = Wrapped(s, i + (n + k) - 1)
  BY <1>1, <1>2, <1>3 DEF Wrapped
<1>7. q \in Seq(Byte) /\ Len(q) = h /\ \A k \in 1..h : q[k] = b[Wrapped(s, i + k - 1)]
  BY ReadableProperties
<1>8. /\ q2 \in Seq(Byte) /\ Len(q2) = h - n
      /\ \A k \in 1..(h - n) : q2[k] = b[Wrapped(s, i2 + k - 1)]
  BY <1>4, <1>5, ReadableProperties
<1> HIDE DEF h, q, q2
<1>9. n \in 1..h
  BY DEF h
<1>10. /\ SubSeq(q, n + 1, h) \in Seq(Byte)
       /\ Len(SubSeq(q, n + 1, h)) = h - n
       /\ \A k \in 1..(h - n) : SubSeq(q, n + 1, h)[k] = q[n + k]
  <2>1. n + 1 \in 1..(Len(q) + 1) /\ h \in 0..Len(q) /\ n + 1 <= h + 1
    BY <1>1, <1>3, <1>7, <1>9
  <2>2. /\ SubSeq(q, n + 1, h) \in Seq(Byte)
        /\ Len(SubSeq(q, n + 1, h)) = h - (n + 1) + 1
        /\ \A k \in 1..(h - (n + 1) + 1) : SubSeq(q, n + 1, h)[k] = q[n + 1 + k - 1]
    BY <1>7, <2>1, PartProperties
  <2>3. h \in Nat /\ n \in Nat /\ h - (n + 1) + 1 = h - n
    BY <1>1, <1>3, <1>9
  <2>4. \A k \in 1..(h - n) : n + 1 + k - 1 = n + k
    BY <2>3
  <2>5. \A k \in 1..(h - n) : SubSeq(q, n + 1, h)[k] = q[n + 1 + k - 1]
    BY <2>2, <2>3, Zenon
  <2>6. \A k \in 1..(h - n) : SubSeq(q, n + 1, h)[k] = q[n + k]
    BY <2>4, <2>5, Zenon
  <2> QED
    BY <2>2, <2>3, <2>6
<1>11. \A k \in 1..(h - n) : q2[k] = SubSeq(q, n + 1, h)[k]
  <2> TAKE k \in 1..(h - n)
  <2>1. n + k \in 1..h
    BY <1>3, <1>9
  <2> QED
    BY <1>6, <1>7, <1>8, <1>10, <2>1
<1>12. q2 = SubSeq(q, n + 1, h)
  BY <1>8, <1>10, <1>11, SeqEqual
<1> QED
  BY <1>4, <1>12 DEF h, q, q2

\* What Read and LazyRead copy is what comes first.
LEMMA TakenIsFirst ==
  ASSUME NEW b, NEW s, NEW i, NEW j, NEW e, RingOK(b, s, i, j, e), ~e,
         NEW n \in 0..Held(s, i, j, e)
  PROVE  (IF j > i \/ i + n < s THEN Cut(b, i, i + n)
                                ELSE Cut(b, i, s) \o Cut(b, 0, n - (s - i)))
           = SubSeq(Readable(b, s, i, j, e), 1, n)
<1> DEFINE h == Held(s, i, j, e)
           q == Readable(b, s, i, j, e)
           p == SubSeq(q, 1, n)
<1>1. /\ s \in Nat \ {0} /\ b \in [0..(s - 1) -> Byte]
      /\ i \in 0..(s - 1) /\ j \in 0..(s - 1)
  BY DEF RingOK
<1>2. h = IF j > i THEN j - i ELSE s - i + j
  BY DEF Held
<1>3. h \in 0..s
  BY HeldRange
<1>4. q \in Seq(Byte) /\ Len(q) = h /\ \A k \in 1..h : q[k] = b[Wrapped(s, i + k - 1)]
  BY ReadableProperties
<1> HIDE DEF h, q
<1>5. n \in 0..h
  BY DEF h
<1>6. p \in Seq(Byte) /\ Len(p) = n /\ \A k \in 1..n : p[k] = q[k]
  <2>1. 1 \in 1..(Len(q) + 1) /\ n \in 0..Len(q) /\ 1 <= n + 1
    BY <1>3, <1>4, <1>5
  <2>2. /\ p \in Seq(Byte) /\ Len(p) = n - 1 + 1
        /\ \A k \in 1..(n - 1 + 1) : p[k] = q[1 + k - 1]
    BY <1>4, <2>1, PartProperties
  <2> QED
    BY <1>3, <1>5, <2>2
<1>7. \A k \in 1..n : p[k] = b[Wrapped(s, i + k - 1)]
  BY <1>3, <1>4, <1>5, <1>6
<1> HIDE DEF p
<1>8. CASE j > i \/ i + n < s
  <2>1. i + n \in 0..s /\ i \in 0..(i + n) /\ i + n - i = n
    BY <1>1, <1>2, <1>3, <1>5, <1>8
  <2>2. /\ Cut(b, i, i + n) \in Seq(Byte) /\ Len(Cut(b, i, i + n)) = n
        /\ \A k \in 1..n : Cut(b, i, i + n)[k] = b[i + k - 1]
    <3> DEFINE m == i + n
    <3>1. s \in Nat /\ m \in 0..s /\ i \in 0..m /\ m - i = n
      BY <1>1, <2>1
    <3> HIDE DEF m
    <3>2. /\ Cut(b, i, m) \in Seq(Byte) /\ Len(Cut(b, i, m)) = m - i
          /\ \A k \in 1..(m - i) : Cut(b, i, m)[k] = b[i + k - 1]
      BY <1>1, <3>1, CutProperties
    <3> QED
      BY <3>1, <3>2 DEF m
  <2>3. \A k \in 1..n : Wrapped(s, i + k - 1) = i + k - 1
    BY <1>1, <2>1 DEF Wrapped
  <2>4. \A k \in 1..n : Cut(b, i, i + n)[k] = p[k]
    BY <1>7, <2>2, <2>3
  <2>5. Cut(b, i, i + n) = p
    BY <1>6, <2>2, <2>4, SeqEqual
  <2> QED
    BY <1>8, <2>5 DEF p, q
<1>9. CASE ~(j > i \/ i + n < s)
  <2> DEFINE m == n - (s - i)
             c == Cut(b, i, s)
             d == Cut(b, 0, m)
  <2>1. m \in 0..s /\ s \in 0..s /\ i \in 0..s /\ 0 \in 0..m /\ m - 0 = m
    BY <1>1, <1>2, <1>3, <1>5, <1>9
  <2>2. c \in Seq(Byte) /\ Len(c) = s - i /\ \A k \in 1..(s - i) : c[k] = b[i + k - 1]
    <3> HIDE DEF m, d
    <3>1. s \in Nat /\ b \in [0..(s - 1) -> Byte] /\ s \in 0..s /\ i \in 0..s
      BY <1>1, <2>1
    <3> HIDE DEF c
    <3>2. /\ Cut(b, i, s) \in Seq(Byte) /\ Len(Cut(b, i, s)) = s - i
          /\ \A k \in 1..(s - i) : Cut(b, i, s)[k] = b[i + k - 1]
      BY <3>1, CutProperties, ZenonT(30)
    <3> QED
      BY <3>2, Zenon DEF c
  <2>3. d \in Seq(Byte) /\ Len(d) = m /\ \A k \in 1..m : d[k] = b[k - 1]
    <3> HIDE DEF m
    <3>1. d \in Seq(Byte) /\ Len(d) = m - 0 /\ \A k \in 1..(m - 0) : d[k] = b[0 + k - 1]
      BY <1>1, <2>1, CutProperties
    <3> HIDE DEF d
    <3> QED
      BY <2>1, <3>1
  <2> HIDE DEF c, d
  <2>4. /\ c \o d \in Seq(Byte)
        /\ Len(c \o d) = Len(c) + Len(d)
        /\ \A k \in 1..(Len(c) + Len(d)) :
             (c \o d)[k] = IF k <= Len(c) THEN c[k] ELSE d[k - Len(c)]
    BY <2>2, <2>3, ConcatProperties, Zenon
  <2>5. Len(c) + Len(d) = n
    BY <1>1, <1>5, <2>1, <2>2, <2>3
  <2>6. ASSUME NEW k \in 1..n PROVE (c \o d)[k] = p[k]
    <3>1. CASE k <= s - i
      <4>1. k \in 1..(s - i) /\ Wrapped(s, i + k - 1) = i + k - 1
        BY <1>1, <3>1 DEF Wrapped
      <4> QED
        BY <1>7, <2>2, <2>4, <2>5, <3>1, <4>1
    <3>2. CASE ~(k <= s - i)
      <4>1. k - (s - i) \in 1..m /\ Wrapped(s, i + k - 1) = k - (s - i) - 1
        BY <1>1, <1>5, <2>1, <3>2 DEF Wrapped
      <4>2. (c \o d)[k] = d[k - (s - i)]
        BY <2>2, <2>4, <2>5, <3>2
      <4>3. d[k - (s - i)] = b[k - (s - i) - 1]
        BY <2>3, <4>1
      <4> QED
        BY <1>7, <4>1, <4>2, <4>3
    <3> QED
      BY <3>1, <3>2
  <2>7. c \o d = p
    BY <1>6, <2>4, <2>5, <2>6, SeqEqual
  <2> QED
    BY <1>9, <2>7 DEF p, q, c, d
<1> QED
  BY <1>8, <1>9 DEF p, q

-----------------------------------------------------------------------------
(* Writing.                                                                *)

\* A payload that fits comes after what can be read already, and overwrites
\* none of it.
LEMMA Appended ==
  ASSUME NEW b, NEW s, NEW i, NEW j, NEW e, RingOK(b, s, i, j, e),
         NEW p \in Seq(Byte), p # <<>>, Len(p) <= s - Held(s, i, j, e),
         NEW b2, b2 = Stored(b, s, i, j, p),
         NEW j2, j2 = Advanced(s, i, j, Len(p)),
         NEW f \in BOOLEAN, ~f
  PROVE  /\ RingOK(b2, s, i, j2, f)
         /\ Readable(b2, s, i, j2, f) = Readable(b, s, i, j, e) \o p
<1> DEFINE h == Held(s, i, j, e)
           n == Len(p)
           q == Readable(b, s, i, j, e)
           q2 == Readable(b2, s, i, j2, f)
<1>1. n \in Nat \ {0} /\ \A k \in 1..n : p[k] \in Byte
  BY EmptySeq, ElementOfSeq
<1>2. h \in 0..s /\ n <= s - h
  BY HeldRange
<1>3. q \in Seq(Byte) /\ Len(q) = h /\ \A k \in 1..h : q[k] = b[Wrapped(s, i + k - 1)]
  BY ReadableProperties
<1> HIDE DEF h, n, q, q2
<1>4. /\ s \in Nat \ {0} /\ b \in [0..(s - 1) -> Byte]
      /\ i \in 0..(s - 1) /\ j \in 0..(s - 1)
  BY <1>1, <1>2 DEF RingOK
<1>5. \/ j >= i /\ h = j - i
      \/ j < i /\ h = s - i + j
  BY <1>1, <1>2, <1>4 DEF RingOK, Held, h
<1>6. b2 = [x \in 0..(s - 1) |->
              IF x >= j /\ x - j < n THEN p[x - j + 1]
              ELSE IF j >= i /\ x < n - (s - j) THEN p[s - j + x + 1]
              ELSE b[x]]
  BY DEF Stored, n
<1>6a. \/ j >= i /\ s - j < n /\ j2 = n - (s - j) /\ j2 <= i
       \/ j >= i /\ s - j = n /\ j2 = 0
       \/ j >= i /\ s - j > n /\ j2 = j + n
       \/ j < i /\ j2 = j + n /\ j2 <= i
  BY <1>1, <1>2, <1>4, <1>5 DEF Advanced, n
<1>7. b2 \in [0..(s - 1) -> Byte]
  <2>1. ASSUME NEW x \in 0..(s - 1), x >= j, x - j < n
        PROVE  p[x - j + 1] \in Byte
    <3>1. x - j + 1 \in 1..n
      BY <1>1, <1>4, <2>1
    <3> QED
      BY <1>1, <3>1
  <2>2. ASSUME NEW x \in 0..(s - 1), x < n - (s - j)
        PROVE  p[s - j + x + 1] \in Byte
    <3>1. s - j + x + 1 \in 1..n
      BY <1>1, <1>4, <2>2
    <3> QED
      BY <1>1, <3>1
  <2> QED
    BY <1>4, <1>6, <2>1, <2>2
<1>8. j2 \in 0..(s - 1)
  BY <1>1, <1>2, <1>4, <1>5, <1>6a
<1>9. RingOK(b2, s, i, j2, f)
  BY <1>4, <1>7, <1>8 DEF RingOK
<1>10. Held(s, i, j2, f) = h + n
  <2>1. Held(s, i, j2, f) = IF j2 > i THEN j2 - i ELSE s - i + j2
    BY DEF Held
  <2>2. CASE j >= i /\ h = j - i
    <3>1. CASE s - j < n /\ j2 = n - (s - j) /\ j2 <= i
      BY <1>1, <1>2, <1>4, <2>1, <2>2, <3>1
    <3>2. CASE s - j = n /\ j2 = 0
      BY <1>1, <1>2, <1>4, <2>1, <2>2, <3>2
    <3>3. CASE s - j > n /\ j2 = j + n
      BY <1>1, <1>2, <1>4, <2>1, <2>2, <3>3
    <3> QED
      BY <1>4, <1>6a, <2>2, <3>1, <3>2, <3>3
  <2>3. CASE j < i /\ h = s - i + j
    BY <1>1, <1>2, <1>4, <1>6a, <2>1, <2>3
  <2> QED
    BY <1>5, <2>2, <2>3
<1>11. /\ q2 \in Seq(Byte) /\ Len(q2) = h + n
       /\ \A k \in 1..(h + n) : q2[k] = b2[Wrapped(s, i + k - 1)]
  BY <1>9, <1>10, ReadableProperties DEF q2
<1>12. ASSUME NEW k \in 1..h
       PROVE  b2[Wrapped(s, i + k - 1)] = b[Wrapped(s, i + k - 1)]
  <2> DEFINE x == Wrapped(s, i + k - 1)
  <2>1. /\ x \in 0..(s - 1)
        /\ ~(x >= j /\ x - j < n)
        /\ ~(j >= i /\ x < n - (s - j))
    <3>1. CASE j >= i /\ h = j - i
      <4>1. x = i + k - 1
        BY <1>1, <1>2, <1>4, <3>1 DEF Wrapped
      <4> QED
        BY <1>1, <1>2, <1>4, <3>1, <4>1
    <3>2. CASE j < i /\ h = s - i + j
      BY <1>1, <1>2, <1>4, <3>2 DEF Wrapped
    <3> QED
      BY <1>5, <3>1, <3>2
  <2> HIDE DEF x
  <2>2. b2[x] = b[x]
    BY <1>6, <2>1
  <2> QED
    BY <2>2 DEF x
<1>13. ASSUME NEW k \in (h + 1)..(h + n)
       PROVE  b2[Wrapped(s, i + k - 1)] = p[k - h]
  <2> DEFINE x == Wrapped(s, i + k - 1)
  <2>1. x \in 0..(s - 1)
    BY <1>1, <1>2, <1>4 DEF Wrapped
  <2>2. \/ x >= j /\ x - j < n /\ x - j + 1 = k - h
        \/ ~(x >= j) /\ j >= i /\ x < n - (s - j) /\ s - j + x + 1 = k - h
    <3>1. CASE j >= i /\ h = j - i /\ i + k - 1 < s
      <4>1. x = i + k - 1
        BY <3>1 DEF Wrapped
      <4> QED
        BY <1>1, <1>2, <1>4, <3>1, <4>1
    <3>2. CASE j >= i /\ h = j - i /\ ~(i + k - 1 < s)
      <4>1. x = i + k - 1 - s
        BY <1>1, <1>2, <1>4, <3>2 DEF Wrapped
      <4> QED
        BY <1>1, <1>2, <1>4, <3>2, <4>1
    <3>3. CASE j < i /\ h = s - i + j
      <4>1. x = i + k - 1 - s
        BY <1>1, <1>2, <1>4, <3>3 DEF Wrapped
      <4> QED
        BY <1>1, <1>2, <1>4, <3>3, <4>1
    <3> QED
      BY <1>5, <3>1, <3>2, <3>3
  <2> HIDE DEF x
  <2>3. b2[x] = p[k - h]
    BY <1>6, <2>1, <2>2
  <2> QED
    BY <2>3 DEF x
<1>14. /\ q \o p \in Seq(Byte) /\ Len(q \o p) = h + n
       /\ \A k \in 1..(h + n) : (q \o p)[k] = IF k <= h THEN q[k] ELSE p[k - h]
  <2>1. /\ q \o p \in Seq(Byte) /\ Len(q \o p) = Len(q) + Len(p)
        /\ \A k \in 1..(Len(q) + Len(p)) :
             (q \o p)[k] = IF k <= Len(q) THEN q[k] ELSE p[k - Len(q)]
    BY <1>3, ConcatProperties, Zenon
  <2> QED
    BY <1>3, <2>1 DEF n
<1>15. ASSUME NEW k \in 1..(h + n) PROVE q2[k] = (q \o p)[k]
  <2>1. CASE k <= h
    <3>1. k \in 1..h
      BY <1>1, <1>2, <2>1
    <3> QED
      BY <1>3, <1>11, <1>12, <1>14, <2>1, <3>1
  <2>2. CASE ~(k <= h)
    <3>1. k \in (h + 1)..(h + n)
      BY <1>1, <1>2, <2>2
    <3> QED
      BY <1>11, <1>13, <1>14, <2>2, <3>1
  <2> QED
    BY <2>1, <2>2
<1>16. q2 = q \o p
  BY <1>11, <1>14, <1>15, SeqEqual
<1> QED
  BY <1>9, <1>16 DEF q, q2

\* A new array of c bytes with the bytes q at its front.
InFront(c, q) == [x \in 0..(c - 1) |-> IF x < Len(q) THEN q[x + 1] ELSE Zero]

\* malloc moves what can be read to the front of a larger array.
LEMMA Moved ==
  ASSUME NEW b, NEW s, NEW i, NEW j, NEW e, RingOK(b, s, i, j, e),
         NEW c \in Nat, Held(s, i, j, e) < c,
         NEW b2, b2 = InFront(c, Readable(b, s, i, j, e)),
         NEW f \in BOOLEAN, f <=> Held(s, i, j, e) = 0
  PROVE  /\ RingOK(b2, c, 0, Held(s, i, j, e), f)
         /\ Held(c, 0, Held(s, i, j, e), f) = Held(s, i, j, e)
         /\ Readable(b2, c, 0, Held(s, i, j, e), f) = Readable(b, s, i, j, e)
<1> DEFINE h == Held(s, i, j, e)
           q == Readable(b, s, i, j, e)
           q2 == Readable(b2, c, 0, h, f)
<1>1. h \in Nat
  BY HeldRange DEF RingOK
<1>2. q \in Seq(Byte) /\ Len(q) = h /\ \A k \in 1..h : q[k] \in Byte
  BY ReadableProperties, ElementOfSeq
<1>3. b2 = [x \in 0..(c - 1) |-> IF x < h THEN q[x + 1] ELSE Zero] /\ h < c /\ (f <=> h = 0)
  BY <1>2 DEF InFront
<1> HIDE DEF h, q
<1>4. \A x \in 0..(c - 1) : x < h => x + 1 \in 1..h
  BY <1>1
<1>5. b2 \in [0..(c - 1) -> Byte]
  BY <1>2, <1>3, <1>4, RingAssumption
<1>6. h \in 0..(c - 1) /\ 0 \in 0..(c - 1) /\ c # 0
  BY <1>1, <1>3
<1>7. RingOK(b2, c, 0, h, f)
  BY <1>3, <1>5, <1>6 DEF RingOK
<1>8. Held(c, 0, h, f) = h
  BY <1>1, <1>3 DEF Held
<1>9. /\ q2 \in Seq(Byte) /\ Len(q2) = h
      /\ \A k \in 1..h : q2[k] = b2[Wrapped(c, 0 + k - 1)]
  BY <1>7, <1>8, ReadableProperties
<1> HIDE DEF q2
<1>10. ASSUME NEW k \in 1..h PROVE q2[k] = q[k]
  <2>1. Wrapped(c, 0 + k - 1) = k - 1 /\ k - 1 \in 0..(c - 1) /\ k - 1 < h /\ k - 1 + 1 = k
    BY <1>1, <1>3 DEF Wrapped
  <2> QED
    BY <1>3, <1>9, <2>1
<1>11. q2 = q
  BY <1>2, <1>9, <1>10, SeqEqual
<1> QED
  BY <1>7, <1>8, <1>11 DEF h, q, q2

-----------------------------------------------------------------------------
(* The operators of RingBuffer in these terms.                             *)

LEMMA RemainderOnce ==
  ASSUME NEW s \in Nat \ {0}, NEW x \in Nat, x < 2 * s
  PROVE  x % s = Wrapped(s, x)
BY DEF Wrapped

LEMMA Operators ==
  ASSUME TypeOK
  PROVE  /\ RingOK(buf, size, r, w, isEmpty)
         /\ All = Readable(buf, size, r, w, isEmpty)
         /\ Length = Held(size, r, w, isEmpty)
         /\ Free = size - Held(size, r, w, isEmpty)
         /\ Length \in 0..size
         /\ All \in Seq(Byte)
         /\ Len(All) = Length
         /\ size # 0 => \A x \in Nat : x < 2 * size => Masked(x) = Wrapped(size, x)
<1>1. RingOK(buf, size, r, w, isEmpty)
  BY RingAssumption DEF TypeOK, RingOK
<1>2. All = Readable(buf, size, r, w, isEmpty)
  BY DEF All, Readable, Slice, Cut
<1>3. Length = Held(size, r, w, isEmpty)
  BY <1>1 DEF RingOK, Length, Held
<1>4. Free = size - Held(size, r, w, isEmpty)
  BY <1>1 DEF RingOK, Free, Held
<1>5. Held(size, r, w, isEmpty) \in 0..size
  BY <1>1, HeldRange
<1>6. /\ Readable(buf, size, r, w, isEmpty) \in Seq(Byte)
      /\ Len(Readable(buf, size, r, w, isEmpty)) = Held(size, r, w, isEmpty)
  BY <1>1, ReadableProperties
<1>7. ASSUME size # 0, NEW x \in Nat, x < 2 * size
      PROVE  Masked(x) = Wrapped(size, x)
  <2>1. mask + 1 = size /\ size \in Nat \ {0}
    BY <1>7, RingAssumption DEF TypeOK
  <2> QED
    BY <1>7, <2>1, RemainderOnce DEF Masked
<1> QED
  BY <1>1, <1>2, <1>3, <1>4, <1>5, <1>6, <1>7, SMTT(40)

-----------------------------------------------------------------------------
(* Each operation is the queue's.                                          *)

LEMMA NotEmpty ==
  ASSUME TypeOK, ~isEmpty
  PROVE  /\ size \in Nat \ {0} /\ r \in 0..(size - 1) /\ w \in 0..(size - 1)
         /\ Length \in 1..size
BY RingAssumption DEF TypeOK, Length

\* The bytes that Read and LazyRead take: the first of the queue.
LEMMA TakenFirst ==
  ASSUME TypeOK, ~isEmpty, NEW len \in Nat
  PROVE  /\ Available(len) = Least(Length, len)
         /\ Available(len) \in 0..Length
         /\ Taken(Available(len)) = Queue!First(All, len)
<1> DEFINE n == Available(len)
<1>1. n = Least(Length, len)
  BY DEF TypeOK, Available, Length
<1>2. n \in 0..Length
  BY <1>1, Operators DEF Least
<1>3. n = IF len > Len(All) THEN Len(All) ELSE len
  BY <1>1, Operators DEF Least
<1> HIDE DEF n
<1>4. n \in 0..Held(size, r, w, isEmpty)
  BY <1>2, Operators
<1>5. (IF w > r \/ r + n < size THEN Cut(buf, r, r + n)
                                ELSE Cut(buf, r, size) \o Cut(buf, 0, n - (size - r)))
        = SubSeq(Readable(buf, size, r, w, isEmpty), 1, n)
  BY <1>4, Operators, TakenIsFirst
<1>6. Taken(n) = SubSeq(All, 1, n)
  BY <1>5, Operators DEF Taken, Slice, Cut
<1> QED
  BY <1>1, <1>2, <1>3, <1>6 DEF n, Queue!First

LEMMA LazyReadSteps ==
  ASSUME TypeOK, NEW n \in Lengths, LazyRead(n)
  PROVE  TypeOK' /\ Queue!Peek(n)
<1>1. TypeOK' /\ All' = All
  BY DEF LazyRead, TypeOK, All, Slice
<1>2. n \in Nat
  BY RingAssumption
<1>3. (IF isEmpty \/ n <= 0 THEN <<>> ELSE Taken(Available(n))) = Queue!First(All, n)
  <2>1. CASE isEmpty
    BY <1>2, <2>1, SubSeqEmpty DEF All, Queue!First
  <2>2. CASE ~isEmpty /\ n <= 0
    <3>1. n = 0 /\ Len(All) \in Nat
      BY <1>2, <2>2, Operators, LenProperties
    <3>2. Queue!First(All, n) = SubSeq(All, 1, 0)
      BY <3>1 DEF Queue!First
    <3> QED
      BY <2>2, <3>2, SubSeqEmpty
  <2>3. CASE ~isEmpty /\ ~(n <= 0)
    BY <1>2, <2>3, TakenFirst
  <2> QED
    BY <2>1, <2>2, <2>3
<1> QED
  BY <1>1, <1>3 DEF LazyRead, Returned, Queue!Peek, Queue!Returned

LEMMA WithByteBufferSteps ==
  ASSUME TypeOK, NEW b \in Payloads, WithByteBuffer(b)
  PROVE  TypeOK' /\ Queue!PeekAllWith(b)
<1>1. TypeOK' /\ All' = All
  BY DEF WithByteBuffer, TypeOK, All, Slice
<1> QED
  BY <1>1 DEF WithByteBuffer, Returned, Queue!PeekAllWith, Queue!Returned

\* The state after n bytes are read.
LEMMA ConsumedState ==
  ASSUME TypeOK, ~isEmpty, NEW n \in 1..Length,
         r' = Wrapped(size, r + n), isEmpty' \in BOOLEAN, isEmpty' <=> r' = w,
         UNCHANGED <<buf, size, mask, w>>
  PROVE  TypeOK' /\ All' = SubSeq(All, n + 1, Len(All))
<1>1. n \in 1..Held(size, r, w, isEmpty)
  BY Operators
<1>2. /\ RingOK(buf, size, r', w, isEmpty')
      /\ Readable(buf, size, r', w, isEmpty') =
           SubSeq(Readable(buf, size, r, w, isEmpty), n + 1, Held(size, r, w, isEmpty))
  BY <1>1, Operators, Consumed
<1>3. TypeOK'
  BY <1>2 DEF TypeOK, RingOK
<1>4. All' = Readable(buf, size, r', w, isEmpty')
  BY DEF All, Readable, Slice, Cut
<1> QED
  BY <1>2, <1>3, <1>4, Operators

LEMMA ReadSteps ==
  ASSUME TypeOK, NEW n \in Lengths, Read(n)
  PROVE  TypeOK' /\ Queue!Read(n)
<1>1. n \in Nat /\ Len(All) \in Nat /\ SubSeq(All, 1, Len(All)) = All
  BY RingAssumption, Operators, LenProperties, SubSeqFull
<1>2. CASE n = 0 \/ isEmpty
  <2>1. TypeOK' /\ All' = All
    BY <1>2 DEF Read, TypeOK, All, Slice
  <2>2. Queue!Rest(All, n) = All /\ Queue!First(All, n) = <<>>
    <3>1. CASE isEmpty
      <4>1. All = <<>> /\ Len(All) = 0
        BY <3>1 DEF All
      <4>2. Queue!Rest(All, n) = SubSeq(All, n + 1, 0) /\ 0 < n + 1
        BY <1>1, <4>1 DEF Queue!Rest
      <4>3. Queue!First(All, n) = SubSeq(All, 1, 0)
        BY <1>1, <4>1 DEF Queue!First
      <4> QED
        BY <1>1, <4>1, <4>2, <4>3, SubSeqEmpty
    <3>2. CASE n = 0
      <4>1. Queue!Rest(All, n) = SubSeq(All, 1, Len(All))
        BY <3>2 DEF Queue!Rest
      <4>2. Queue!First(All, n) = SubSeq(All, 1, 0)
        BY <1>1, <3>2 DEF Queue!First
      <4> QED
        BY <1>1, <4>1, <4>2, SubSeqEmpty
    <3> QED
      BY <1>2, <3>1, <3>2
  <2>3. n > 0 /\ All = <<>> <=> n # 0
    <3>1. CASE isEmpty
      BY <1>1, <3>1 DEF All
    <3>2. CASE n = 0
      BY <3>2
    <3> QED
      BY <1>2, <3>1, <3>2
  <2> QED
    BY <1>2, <2>1, <2>2, <2>3 DEF Read, Returned, Queue!Read, Queue!Returned
<1>3. CASE n # 0 /\ ~isEmpty
  <2> DEFINE a == Available(n)
  <2>1. /\ result' = Returned(Taken(a), "nil")
        /\ r' = IF w > r THEN r + a ELSE Masked(r + a)
        /\ isEmpty' = (r' = w)
        /\ UNCHANGED <<buf, size, mask, w>>
    BY <1>3 DEF Read
  <2>2. /\ a \in 0..Length /\ a = Least(Length, n)
        /\ Taken(a) = Queue!First(All, n)
    BY <1>1, <1>3, TakenFirst
  <2>3. size \in Nat \ {0} /\ r \in 0..(size - 1) /\ w \in 0..(size - 1) /\ Length \in 1..size
    BY <1>3, NotEmpty
  <2> HIDE DEF a
  <2>4. a \in 1..Length
    BY <1>1, <1>3, <2>2, <2>3 DEF Least
  <2>5. r' = Wrapped(size, r + a)
    <3>1. CASE w > r
      <4>1. a <= w - r
        BY <2>3, <2>4, <3>1 DEF Length
      <4> QED
        BY <2>1, <2>3, <2>4, <3>1, <4>1 DEF Wrapped
    <3>2. CASE ~(w > r)
      <4>1. r + a \in Nat /\ r + a < 2 * size
        BY <2>3, <2>4
      <4> QED
        BY <2>1, <2>3, <3>2, <4>1, Operators
    <3> QED
      BY <3>1, <3>2
  <2>6. isEmpty' \in BOOLEAN /\ (isEmpty' <=> r' = w)
    BY <2>1, Zenon
  <2>7. TypeOK' /\ All' = SubSeq(All, a + 1, Len(All))
    BY <1>3, <2>1, <2>4, <2>5, <2>6, ConsumedState
  <2>8. SubSeq(All, a + 1, Len(All)) = Queue!Rest(All, n)
    <3>1. CASE n <= Length
      BY <1>1, <2>2, <2>3, <3>1 DEF Least, Queue!Rest
    <3>2. CASE ~(n <= Length)
      <4>1. a = Length /\ Length < n
        BY <1>1, <2>2, <2>3, <3>2 DEF Least
      <4>2. Len(All) = Length
        BY Operators
      <4> QED
        BY <1>1, <4>1, <4>2, SubSeqEmpty DEF Queue!Rest
    <3> QED
      BY <3>1, <3>2
  <2>9. All # <<>>
    BY <2>3, Operators, EmptySeq
  <2> QED
    BY <2>1, <2>2, <2>7, <2>8, <2>9 DEF Returned, Queue!Read, Queue!Returned
<1> QED
  BY <1>2, <1>3

LEMMA ReadByteSteps ==
  ASSUME TypeOK, ReadByte
  PROVE  TypeOK' /\ Queue!Read(1)
<1>1. CASE isEmpty
  <2>1. TypeOK' /\ All' = All /\ All = <<>>
    BY <1>1 DEF ReadByte, TypeOK, All, Slice
  <2>2. Queue!Rest(All, 1) = All
    BY <2>1, SubSeqEmpty DEF Queue!Rest
  <2> QED
    BY <1>1, <2>1, <2>2 DEF ReadByte, Returned, Queue!Read, Queue!Returned
<1>2. CASE ~isEmpty
  <2>1. size \in Nat \ {0} /\ r \in 0..(size - 1) /\ w \in 0..(size - 1) /\ Length \in 1..size
    BY <1>2, NotEmpty
  <2>2. r' = Wrapped(size, r + 1)
    BY <1>2, <2>1 DEF ReadByte, Wrapped
  <2>3. isEmpty' \in BOOLEAN /\ (isEmpty' <=> r' = w) /\ UNCHANGED <<buf, size, mask, w>>
    BY <1>2, Zenon DEF ReadByte
  <2>4. 1 \in 1..Length
    BY <2>1
  <2>5. TypeOK' /\ All' = SubSeq(All, 1 + 1, Len(All))
    BY <1>2, <2>2, <2>3, <2>4, ConsumedState
  <2>6. <<buf[r]>> = Queue!First(All, 1)
    <3>1. RingOK(buf, size, r, w, isEmpty) /\ All = Readable(buf, size, r, w, isEmpty)
          /\ Length = Held(size, r, w, isEmpty) /\ Len(All) = Length /\ All \in Seq(Byte)
      BY Operators
    <3>2. All[1] = buf[Wrapped(size, r + 1 - 1)]
      BY <2>4, <3>1, ReadableProperties
    <3>3. All[1] = buf[r]
      BY <2>1, <3>2 DEF Wrapped
    <3>4. Queue!First(All, 1) = SubSeq(All, 1, 1)
      BY <2>1, <3>1 DEF Queue!First
    <3>5. /\ SubSeq(All, 1, 1) \in Seq(Byte) /\ Len(SubSeq(All, 1, 1)) = 1
          /\ SubSeq(All, 1, 1)[1] = All[1]
      <4>1. 1 \in 1..(Len(All) + 1) /\ 1 \in 0..Len(All) /\ 1 <= 1 + 1
        BY <2>1, <3>1
      <4>2. /\ SubSeq(All, 1, 1) \in Seq(Byte) /\ Len(SubSeq(All, 1, 1)) = 1 - 1 + 1
            /\ \A k \in 1..(1 - 1 + 1) : SubSeq(All, 1, 1)[k] = All[1 + k - 1]
        BY <3>1, <4>1, PartProperties
      <4> QED
        BY <4>2
    <3>6. <<buf[r]>> \in Seq(Byte) /\ Len(<<buf[r]>>) = 1 /\ <<buf[r]>>[1] = buf[r]
      BY <2>1 DEF TypeOK
    <3>7. \A k \in 1..1 : <<buf[r]>>[k] = SubSeq(All, 1, 1)[k]
      BY <3>3, <3>5, <3>6
    <3>8. <<buf[r]>> = SubSeq(All, 1, 1)
      BY <3>5, <3>6, <3>7, SeqEqual
    <3> QED
      BY <3>4, <3>8
  <2>7. All # <<>>
    BY <2>1, Operators, EmptySeq
  <2> QED
    BY <1>2, <2>5, <2>6, <2>7 DEF ReadByte, Returned, Queue!Read, Queue!Rest, Queue!Returned
<1> QED
  BY <1>1, <1>2

LEMMA ResetSteps ==
  ASSUME TypeOK, Reset
  PROVE  TypeOK' /\ All' = <<>> /\ Queue!Reset
<1>1. TypeOK' /\ All' = <<>>
  BY RingAssumption DEF Reset, TypeOK, All
<1> QED
  BY <1>1 DEF Reset, Nothing, Returned, Queue!Reset, Queue!Nothing, Queue!Returned

LEMMA ShiftSteps ==
  ASSUME TypeOK, NEW n \in Lengths, Shift(n)
  PROVE  TypeOK' /\ Queue!Shift(n)
<1>1. n \in Nat /\ Len(All) \in Nat /\ SubSeq(All, 1, Len(All)) = All /\ Len(All) = Length
  BY RingAssumption, Operators, LenProperties, SubSeqFull
<1>2. TypeOK' /\ All' = Queue!Rest(All, n) /\ result' = Nothing
  <2>1. CASE n <= 0 /\ result' = Nothing /\ UNCHANGED <<buf, size, mask, r, w, isEmpty>>
    <3>1. TypeOK' /\ All' = All
      BY <2>1 DEF TypeOK, All, Slice
    <3>2. n + 1 = 1
      BY <1>1, <2>1
    <3> QED
      BY <1>1, <2>1, <3>1, <3>2 DEF Queue!Rest
  <2>2. CASE /\ n > 0 /\ n < Length /\ r' = Masked(r + n)
             /\ isEmpty' = (IF r' = w THEN TRUE ELSE isEmpty)
             /\ result' = Nothing
             /\ UNCHANGED <<buf, size, mask, w>>
    <3>1. ~isEmpty
      BY <1>1, <2>2 DEF Length, TypeOK
    <3>2. size \in Nat \ {0} /\ r \in 0..(size - 1) /\ Length \in 1..size
      BY <3>1, NotEmpty
    <3>3. r + n \in Nat /\ r + n < 2 * size /\ n \in 1..Length
      BY <1>1, <2>2, <3>2
    <3>4. r' = Wrapped(size, r + n)
      BY <2>2, <3>2, <3>3, Operators
    <3>5. isEmpty' \in BOOLEAN /\ (isEmpty' <=> r' = w)
      BY <2>2, <3>1 DEF TypeOK
    <3> QED
      BY <2>2, <3>1, <3>3, <3>4, <3>5, ConsumedState DEF Queue!Rest
  <2>3. CASE n > 0 /\ n >= Length /\ Reset
    <3>1. SubSeq(All, n + 1, Len(All)) = <<>>
      BY <1>1, <2>3, SubSeqEmpty
    <3> QED
      BY <2>3, <3>1, ResetSteps DEF Queue!Rest, Reset
  <2> QED
    BY <2>1, <2>2, <2>3 DEF Shift
<1> QED
  BY <1>2 DEF Nothing, Returned, Queue!Shift, Queue!Nothing, Queue!Returned

LEMMA AppendedAt ==
  ASSUME NEW b, NEW s, NEW i, NEW j, NEW e, RingOK(b, s, i, j, e),
         NEW p \in Seq(Byte), p # <<>>, Len(p) <= s - Held(s, i, j, e),
         NEW f \in BOOLEAN, ~f
  PROVE  /\ RingOK(Stored(b, s, i, j, p), s, i, Advanced(s, i, j, Len(p)), f)
         /\ Readable(Stored(b, s, i, j, p), s, i, Advanced(s, i, j, Len(p)), f) =
              Readable(b, s, i, j, e) \o p
<1> DEFINE b2 == Stored(b, s, i, j, p)
           j2 == Advanced(s, i, j, Len(p))
<1>1. b2 = Stored(b, s, i, j, p) /\ j2 = Advanced(s, i, j, Len(p))
  OBVIOUS
<1> HIDE DEF b2, j2
<1>2. RingOK(b2, s, i, j2, f) /\ Readable(b2, s, i, j2, f) = Readable(b, s, i, j, e) \o p
  BY <1>1, Appended
<1> QED
  BY <1>1, <1>2

LEMMA WriteSteps ==
  ASSUME TypeOK, NEW p \in Payloads, Write(p)
  PROVE  TypeOK' /\ Queue!Write(p)
<1> DEFINE h == Held(size, r, w, isEmpty)
<1>1. p \in Seq(Byte) /\ Len(p) \in Nat
  BY RingAssumption, LenProperties
<1>2. /\ RingOK(buf, size, r, w, isEmpty) /\ All = Readable(buf, size, r, w, isEmpty)
      /\ Length = h /\ Free = size - h /\ h \in 0..size /\ Len(All) = h
      /\ All \in Seq(Byte)
  BY Operators
<1>3. size \in Nat
  BY RingAssumption DEF TypeOK
<1> HIDE DEF h
<1>4. TypeOK' /\ All' = All \o p
  <2>1. CASE p = <<>> /\ UNCHANGED <<buf, size, mask, r, w, isEmpty>>
    <3>1. TypeOK' /\ All' = All
      BY <2>1 DEF TypeOK, All, Slice
    <3> QED
      BY <1>2, <2>1, <3>1, ConcatEmptySeq
  <2>2. CASE /\ p # <<>> /\ Len(p) <= Free
             /\ buf' = Stored(buf, size, r, w, p)
             /\ w' = Advanced(size, r, w, Len(p))
             /\ isEmpty' = FALSE
             /\ UNCHANGED <<size, mask, r>>
    <3>1. isEmpty' \in BOOLEAN /\ ~isEmpty'
      BY <2>2
    <3>2. Len(p) <= size - Held(size, r, w, isEmpty)
      BY <1>2, <2>2 DEF h
    <3>3. /\ RingOK(buf', size, r, w', isEmpty')
          /\ Readable(buf', size, r, w', isEmpty') = Readable(buf, size, r, w, isEmpty) \o p
      <4>1. p # <<>> /\ buf' = Stored(buf, size, r, w, p) /\ w' = Advanced(size, r, w, Len(p))
        BY <2>2
      <4>2. RingOK(buf, size, r, w, isEmpty)
        BY <1>2
      <4> QED
        BY <1>1, <3>1, <3>2, <4>1, <4>2, AppendedAt
    <3>4. TypeOK'
      BY <2>2, <3>3 DEF TypeOK, RingOK
    <3>5. All' = Readable(buf', size, r, w', isEmpty')
      BY <2>2 DEF All, Readable, Slice, Cut
    <3> QED
      BY <1>2, <3>3, <3>4, <3>5
  <2>3. CASE /\ Len(p) > Free
             /\ size + Len(p) - Free <= MaxSize
             /\ size' = NewCap(Len(p) - Free)
             /\ size' <= MaxSize
             /\ mask' = size' - 1
             /\ buf' = Stored(Copied(size'), size', 0, Length, p)
             /\ r' = 0
             /\ w' = Advanced(size', 0, Length, Len(p))
             /\ isEmpty' = FALSE
    <3> DEFINE c == size'
               f == (h = 0)
               b == InFront(c, All)
    <3> HIDE DEF f, b
    <3>1. c \in 1..MaxSize /\ c >= h + Len(p) /\ Len(p) > 0
      <4>1. size + (Len(p) - Free) \in 0..MaxSize /\ Len(p) - Free \in Nat
        BY <1>1, <1>2, <1>3, <2>3, RingAssumption
      <4>2. CASE size = 0 /\ InitSize >= Len(p) - Free
        <5>1. c = InitSize
          BY <2>3, <4>2 DEF NewCap
        <5>2. Free = 0 /\ h = 0
          <6>1. h \in 0..size
            BY <1>2
          <6>2. size = 0
            BY <4>2
          <6>3. h = 0
            BY <6>1, <6>2
          <6>4. Free = size - h
            BY <1>2
          <6> QED
            BY <6>2, <6>3, <6>4
        <5> QED
          BY <1>1, <2>3, <4>2, <5>1, <5>2, RingAssumption
      <4>3. CASE ~(size = 0 /\ InitSize >= Len(p) - Free)
        <5>1. c = PowerAtLeast(size + (Len(p) - Free))
          BY <2>3, <4>3 DEF NewCap
        <5>2. c \in Nat /\ c >= size + (Len(p) - Free) /\ c >= 2
          BY <4>1, <5>1, RingAssumption
        <5> QED
          BY <1>1, <1>2, <1>3, <2>3, <5>2, RingAssumption
      <4> QED
        BY <4>2, <4>3
    <3>2. h < c /\ c \in Nat
      BY <1>1, <1>2, <1>3, <3>1, RingAssumption
    <3>3. Copied(c) = b
      BY <1>2 DEF Copied, InFront, b
    <3>4. buf' = Stored(b, c, 0, h, p) /\ w' = Advanced(c, 0, h, Len(p)) /\ r' = 0
      BY <1>2, <2>3, <3>3
    <3>5. f \in BOOLEAN /\ (f <=> h = 0)
      BY DEF f
    <3>6. isEmpty' \in BOOLEAN /\ ~isEmpty'
      BY <2>3
    <3>7. b = InFront(c, Readable(buf, size, r, w, isEmpty))
      BY <1>2 DEF b
    <3> HIDE DEF c
    <3>8. /\ RingOK(b, c, 0, h, f) /\ Held(c, 0, h, f) = h
          /\ Readable(b, c, 0, h, f) = All
      BY <1>2, <3>2, <3>5, <3>7, Moved DEF h
    <3>9. p # <<>> /\ Len(p) <= c - Held(c, 0, h, f)
      <4>1. p # <<>>
        BY <1>1, <3>1, EmptySeq
      <4>2. Len(p) <= c - h
        BY <1>1, <1>2, <1>3, <3>1, <3>2
      <4> QED
        BY <3>8, <4>1, <4>2
    <3>10. /\ RingOK(buf', c, 0, w', isEmpty')
           /\ Readable(buf', c, 0, w', isEmpty') = Readable(b, c, 0, h, f) \o p
      <4>1. /\ RingOK(Stored(b, c, 0, h, p), c, 0, Advanced(c, 0, h, Len(p)), isEmpty')
            /\ Readable(Stored(b, c, 0, h, p), c, 0, Advanced(c, 0, h, Len(p)), isEmpty') =
                 Readable(b, c, 0, h, f) \o p
        <5> DEFINE z == 0
                   g == isEmpty'
        <5>1. RingOK(b, c, z, h, f)
          BY <3>8
        <5>2. p \in Seq(Byte) /\ p # <<>> /\ Len(p) <= c - Held(c, z, h, f)
          BY <1>1, <3>9
        <5>3. g \in BOOLEAN /\ ~g
          BY <3>6
        <5> HIDE DEF z, g
        <5>4. /\ RingOK(Stored(b, c, z, h, p), c, z, Advanced(c, z, h, Len(p)), g)
              /\ Readable(Stored(b, c, z, h, p), c, z, Advanced(c, z, h, Len(p)), g) =
                   Readable(b, c, z, h, f) \o p
          BY <5>1, <5>2, <5>3, AppendedAt
        <5> QED
          BY <5>4 DEF z, g
      <4> QED
        BY <3>4, <4>1
    <3>11. TypeOK'
      BY <2>3, <3>1, <3>10, RingAssumption DEF TypeOK, RingOK, c
    <3>12. All' = Readable(buf', c, 0, w', isEmpty')
      BY <2>3 DEF All, Readable, Slice, Cut, c
    <3> QED
      BY <3>8, <3>10, <3>11, <3>12
  <2> QED
    BY <2>1, <2>2, <2>3 DEF Write
<1> QED
  BY <1>4 DEF Write, Nothing, Returned, Queue!Write, Queue!Nothing, Queue!Returned

-----------------------------------------------------------------------------
(* The theorems.                                                           *)

LEMMA InitSteps == Init => TypeOK /\ Queue!Init
<1> SUFFICES ASSUME Init PROVE TypeOK /\ Queue!Init
  OBVIOUS
<1>1. PICK n \in StartSizes : New(n)
  BY DEF Init
<1>2. TypeOK
  BY <1>1, RingAssumption DEF Init, New, TypeOK
<1>3. All = <<>>
  BY DEF Init, All
<1> QED
  BY <1>2, <1>3 DEF Init, Nothing, Returned, Queue!Init, Queue!Nothing, Queue!Returned

LEMMA NextSteps ==
  TypeOK /\ [Next]_vars => TypeOK' /\ [Queue!Next]_(Queue!vars)
<1> SUFFICES ASSUME TypeOK, [Next]_vars
             PROVE  TypeOK' /\ [Queue!Next]_(Queue!vars)
  OBVIOUS
<1>1. ASSUME NEW p \in Payloads, Write(p) PROVE TypeOK' /\ Queue!Next
  BY <1>1, WriteSteps DEF Queue!Next
<1>2. ASSUME NEW p \in Payloads, WithByteBuffer(p) PROVE TypeOK' /\ Queue!Next
  BY <1>2, WithByteBufferSteps DEF Queue!Next
<1>3. ASSUME NEW n \in Lengths, LazyRead(n) PROVE TypeOK' /\ Queue!Next
  BY <1>3, LazyReadSteps DEF Queue!Next
<1>4. ASSUME NEW n \in Lengths, Read(n) PROVE TypeOK' /\ Queue!Next
  BY <1>4, ReadSteps DEF Queue!Next
<1>5. ASSUME NEW n \in Lengths, Shift(n) PROVE TypeOK' /\ Queue!Next
  BY <1>5, ShiftSteps DEF Queue!Next
<1>6. CASE ReadByte
  BY <1>6, ReadByteSteps, RingAssumption DEF Queue!Next
<1>7. CASE Reset
  BY <1>7, ResetSteps DEF Queue!Next
<1>8. CASE UNCHANGED vars
  BY <1>8 DEF vars, TypeOK, All, Slice, Queue!vars
<1> QED
  BY <1>1, <1>2, <1>3, <1>4, <1>5, <1>6, <1>7, <1>8 DEF Next

\* The indexes of the ring buffer (ring_buffer.go:19-25) stay inside its array
\* through every operation and every growth.
THEOREM RingTypeCorrect == Spec => []TypeOK
BY InitSteps, NextSteps, PTL DEF Spec

\* The ring buffer, which wraps around, overwrites what was read and moves to
\* a larger array (ring_buffer.go:150-242, 328-343), is a queue of bytes:
\* nothing is lost, repeated or reordered.
THEOREM RingIsQueue == Spec => QueueSpec
<1>1. Init => Queue!Init
  BY InitSteps
<1>2. TypeOK /\ [Next]_vars => [Queue!Next]_(Queue!vars)
  BY NextSteps
<1> QED
  BY <1>1, <1>2, RingTypeCorrect, PTL DEF Spec, QueueSpec, Queue!Spec

\* Length(), Free() and what can be read always agree (ring_buffer.go:92-119).
THEOREM RingAccessors == Spec => []AccessorsAgree
<1>1. TypeOK => AccessorsAgree
  <2> SUFFICES ASSUME TypeOK PROVE AccessorsAgree
    OBVIOUS
  <2>1. /\ Length = Held(size, r, w, isEmpty) /\ Len(All) = Length
        /\ Free = size - Held(size, r, w, isEmpty) /\ Length \in 0..size
    BY Operators
  <2>2. size \in Nat
    BY RingAssumption DEF TypeOK
  <2> QED
    BY <2>1, <2>2 DEF AccessorsAgree
<1> QED
  BY <1>1, RingTypeCorrect, PTL

=============================================================================
