-------------------------- MODULE ConnectionProofs ---------------------------
(***************************************************************************)
(* For every bound, every size of the packet and of the socket's buffer,   *)
(* every set of calls and every action of the event handler: the types of  *)
(* Connection, the order of what the peer receives and of what React is    *)
(* given, the registration of the write event and the calls of OnClosed.   *)
(*                                                                         *)
(* A call of write, loopWrite, loopCloseConn or handleAction has many      *)
(* outcomes; After says what each of them has in common.                   *)
(***************************************************************************)
EXTENDS Connection, WellFoundedInduction, SequenceTheorems, FiniteSetTheorems, TLAPS

Written == 1..MaxIssued
Input == 1..MaxSent

-----------------------------------------------------------------------------
(* Sequences.                                                              *)

LEMMA FunctionIsSeq ==
  ASSUME NEW S, NEW n \in Nat, NEW f \in [1..n -> S]
  PROVE  f \in Seq(S) /\ Len(f) = n
<1>1. f \in Seq(S)
  BY SeqDef
<1>2. Len(f) = n
  BY <1>1
<1> QED
  BY <1>1, <1>2

\* A sequence is its first n elements and the rest.
LEMMA Split ==
  ASSUME NEW S, NEW s \in Seq(S), NEW n \in 0..Len(s)
  PROVE  /\ SubSeq(s, 1, n) \in Seq(S) /\ Len(SubSeq(s, 1, n)) = n
         /\ Drop(s, n) \in Seq(S) /\ Len(Drop(s, n)) = Len(s) - n
         /\ SubSeq(s, 1, n) \o Drop(s, n) = s
<1>1. Len(s) \in Nat /\ \A i \in 1..Len(s) : s[i] \in S
  BY LenProperties, ElementOfSeq
<1>2. SubSeq(s, 1, n) \in Seq(S) /\ Len(SubSeq(s, 1, n)) = n
  BY <1>1, SubSeqProperties
<1>3. Drop(s, n) \in Seq(S) /\ Len(Drop(s, n)) = Len(s) - n
  BY <1>1, SubSeqProperties DEF Drop
<1>4. SubSeq(s, 1, n) \o Drop(s, n) = SubSeq(s, 1, Len(s))
  <2>1. 1 \in 1..Len(s)+1 /\ n \in 1-1..Len(s) /\ Len(s) \in n..Len(s)
    BY <1>1
  <2> QED
    BY <2>1, ConcatAdjacentSubSeq DEF Drop
<1> QED
  BY <1>2, <1>3, <1>4, SubSeqFull

LEMMA ConcatWritten ==
  \A s, t, u \in Seq(Written) : s \o t \in Seq(Written) /\ (s \o t) \o u = s \o (t \o u)
<1> TAKE s, t, u \in Seq(Written)
<1>1. s \o t \in Seq(Written)
  BY ConcatProperties
<1>2. (s \o t) \o u = s \o (t \o u)
  BY ConcatAssociative
<1> QED
  BY <1>1, <1>2

LEMMA SplitMoved ==
  ASSUME NEW k \in Seq(Written), NEW s \in Seq(Written), NEW n \in 0..Len(s)
  PROVE  /\ k \o SubSeq(s, 1, n) \in Seq(Written)
         /\ Len(k \o SubSeq(s, 1, n)) = Len(k) + n
         /\ (k \o SubSeq(s, 1, n)) \o Drop(s, n) = k \o s
<1> DEFINE p == SubSeq(s, 1, n)
           q == Drop(s, n)
<1>1. p \in Seq(Written) /\ Len(p) = n /\ q \in Seq(Written)
  BY Split
<1>2. p \o q = s
  BY Split
<1> HIDE DEF p, q
<1>3. (k \o p) \o q = k \o s
  <2>1. (k \o p) \o q = k \o (p \o q)
    BY <1>1, ConcatWritten
  <2> QED
    BY <1>2, <2>1, Zenon
<1>4. k \o p \in Seq(Written) /\ Len(k \o p) = Len(k) + n
  BY <1>1, ConcatProperties
<1> QED
  BY <1>3, <1>4, Zenon DEF p, q

LEMMA EmptyIffLen ==
  ASSUME NEW S, NEW s \in Seq(S)
  PROVE  s = <<>> <=> Len(s) = 0
BY EmptySeq

\* The first n of the first k elements.
LEMMA PrefixOfPrefix ==
  ASSUME NEW S, NEW s \in Seq(S), NEW k \in 1..Len(s), NEW n \in 1..k
  PROVE  SubSeq(SubSeq(s, 1, k), 1, n) = SubSeq(s, 1, n)
<1>1. /\ Len(s) \in Nat /\ k \in 1..Len(s) /\ 1 \in 1..Len(s)
      /\ n \in 1..(k - 1 + 1) /\ 1 \in 1..(k - 1 + 1)
  BY LenProperties
<1>2. SubSeq(SubSeq(s, 1, k), 1, n) = SubSeq(s, 1 + 1 - 1, 1 + n - 1)
  BY <1>1, SubSeqOfSubSeq
<1> QED
  BY <1>2

LEMMA HeadMoved ==
  ASSUME NEW S, NEW s \in Seq(S), NEW t \in Seq(S), t # <<>>
  PROVE  Append(s, Head(t)) \o Tail(t) = s \o t
OBVIOUS

LEMMA AppendMoved ==
  ASSUME NEW S, NEW s \in Seq(S), NEW t \in Seq(S), NEW x \in S
  PROVE  s \o Append(t, x) = Append(s \o t, x)
OBVIOUS

LEMMA PrefixOfConcat ==
  ASSUME NEW S, NEW s \in Seq(S), NEW t \in Seq(S)
  PROVE  IsPrefix(s, s \o t)
<1>1. /\ Len(s) \in Nat /\ Len(t) \in Nat
      /\ s \o t \in Seq(S) /\ Len(s \o t) = Len(s) + Len(t)
      /\ \A i \in 1..Len(s) : (s \o t)[i] = s[i]
  BY LenProperties, ConcatProperties
<1>2. SubSeq(s \o t, 1, Len(s)) = SubSeq(s, 1, Len(s))
  <2>1. CASE Len(s) = 0
    BY <2>1, <1>1, SubSeqEmpty
  <2>2. CASE Len(s) # 0
    BY <2>2, <1>1, SubSeqOfConcat1
  <2> QED
    BY <2>1, <2>2
<1> QED
  BY <1>1, <1>2 DEF IsPrefix

\* The numbers from m + 1 to m + k.
LEMMA NumbersSeq ==
  ASSUME NEW m \in Nat, NEW k \in Nat, NEW b \in Nat, m + k <= b
  PROVE  /\ Numbers(m + 1, m + k) \in Seq(1..b)
         /\ Len(Numbers(m + 1, m + k)) = k
         /\ \A i \in 1..k : Numbers(m + 1, m + k)[i] = m + i
<1>1. (m + k) - (m + 1) + 1 = k
  OBVIOUS
<1>2. Numbers(m + 1, m + k) = [i \in 1..k |-> (m + 1) + i - 1]
  BY <1>1 DEF Numbers
<1>3. [i \in 1..k |-> (m + 1) + i - 1] \in [1..k -> 1..b]
  OBVIOUS
<1> QED
  BY <1>2, <1>3, FunctionIsSeq

LEMMA FirstNumbers ==
  ASSUME NEW m \in Nat, NEW b \in Nat, m <= b
  PROVE  /\ Numbers(1, m) \in Seq(1..b)
         /\ Len(Numbers(1, m)) = m
         /\ \A i \in 1..m : Numbers(1, m)[i] = i
BY NumbersSeq, 0 + 1 = 1, 0 + m = m

LEMMA NumbersConcat ==
  ASSUME NEW m \in Nat, NEW k \in Nat, NEW b \in Nat, m + k <= b
  PROVE  Numbers(1, m) \o Numbers(m + 1, m + k) = Numbers(1, m + k)
<1> DEFINE s == Numbers(1, m)
           t == Numbers(m + 1, m + k)
           u == Numbers(1, m + k)
<1>1. s \in Seq(1..b) /\ Len(s) = m /\ \A i \in 1..m : s[i] = i
  <2>1. m <= b
    OBVIOUS
  <2> QED
    BY <2>1, FirstNumbers
<1>2. t \in Seq(1..b) /\ Len(t) = k /\ \A i \in 1..k : t[i] = m + i
  BY NumbersSeq
<1>3. u \in Seq(1..b) /\ Len(u) = m + k /\ \A i \in 1..(m + k) : u[i] = i
  <2>1. m + k \in Nat
    OBVIOUS
  <2> QED
    BY <2>1, FirstNumbers
<1> HIDE DEF s, t, u
<1>4. /\ s \o t \in Seq(1..b) /\ Len(s \o t) = m + k
      /\ \A i \in 1..(m + k) : (s \o t)[i] = IF i <= m THEN s[i] ELSE t[i - m]
  BY <1>1, <1>2, ConcatProperties
<1>5. ASSUME NEW i \in 1..(m + k) PROVE (s \o t)[i] = u[i]
  <2>1. CASE i <= m
    BY <1>1, <1>3, <1>4, <2>1
  <2>2. CASE ~(i <= m)
    <3>1. i - m \in 1..k /\ m + (i - m) = i
      BY <2>2
    <3>2. t[i - m] = i
      BY <1>2, <3>1
    <3>3. (s \o t)[i] = t[i - m] /\ u[i] = i
      BY <1>3, <1>4, <2>2
    <3> QED
      BY <3>2, <3>3
  <2> QED
    BY <2>1, <2>2
<1>6. s \o t = u
  BY <1>3, <1>4, <1>5, SeqEqual
<1> QED
  BY <1>6 DEF s, t, u
-----------------------------------------------------------------------------
(* The connection, and what every outcome of a call keeps of it.           *)

Conns ==
  [fd : {"open", "closed"}, opened : BOOLEAN, released : BOOLEAN, closes : Nat,
   reused : BOOLEAN, buffer : Seq(Input), inbound : Seq(Input),
   outbound : Seq(Written), writing : BOOLEAN, kernel : Seq(Written)]

\* The invariants of one connection.
Sound(c) ==
  /\ c \in Conns
  /\ Len(c.kernel) <= SendBuffer
  /\ c.released => ~c.opened /\ c.fd = "closed"
  /\ c.fd = "open" => (c.writing <=> c.outbound # <<>>)
  /\ c.closes > 0 <=> c.fd = "closed"
  /\ c.closes > 1 => c.reused

\* What is still to be received of what c has written.
Unreceived(c) == c.kernel \o c.outbound

\* After s has been written to c, which may have been closed then, it is d.
After(c, s, d) ==
  /\ Sound(d)
  /\ ~d.released => ~c.released /\ d.inbound = c.inbound /\ d.buffer = c.buffer
  /\ d.fd = "open" => c.fd = "open" /\ Unreceived(d) = Unreceived(c) \o s
  /\ c.fd = "open" => \E r \in Seq(Written) : d.kernel \o r = Unreceived(c) \o s
  /\ c.fd = "closed" => d.kernel = c.kernel

Returns == {"nil", "shutdown", "panic"}

LEMMA UnreceivedType ==
  ASSUME NEW c, Sound(c)
  PROVE  /\ c.kernel \in Seq(Written) /\ c.outbound \in Seq(Written)
         /\ Unreceived(c) \in Seq(Written)
BY ConcatProperties DEF Sound, Conns, Unreceived

LEMMA AfterNothing ==
  ASSUME NEW c, Sound(c)
  PROVE  After(c, <<>>, c)
<1>1. /\ c.outbound \in Seq(Written) /\ Unreceived(c) \in Seq(Written)
      /\ Unreceived(c) \o <<>> = Unreceived(c)
  BY UnreceivedType, ConcatEmptySeq
<1>2. c.kernel \o c.outbound = Unreceived(c) \o <<>>
  BY <1>1 DEF Unreceived
<1> QED
  BY <1>1, <1>2 DEF After

LEMMA AfterBoth ==
  ASSUME NEW c, NEW s \in Seq(Written), NEW d, NEW e, Sound(c),
         After(c, s, d), After(d, <<>>, e)
  PROVE  After(c, s, e)
<1>1. Sound(d) /\ Sound(e)
  BY DEF After
<1>2. /\ Unreceived(c) \in Seq(Written) /\ Unreceived(d) \in Seq(Written)
      /\ Unreceived(d) \o <<>> = Unreceived(d)
  BY <1>1, UnreceivedType, ConcatEmptySeq
<1>3. c.fd \in {"open", "closed"} /\ d.fd \in {"open", "closed"}
  BY <1>1 DEF Sound, Conns
<1>4. ~e.released => ~c.released /\ e.inbound = c.inbound /\ e.buffer = c.buffer
  BY DEF After
<1>5. e.fd = "open" => c.fd = "open" /\ Unreceived(e) = Unreceived(c) \o s
  BY <1>2 DEF After
<1>6. c.fd = "open" => \E r \in Seq(Written) : e.kernel \o r = Unreceived(c) \o s
  <2>1. CASE d.fd = "open"
    BY <1>2, <2>1 DEF After
  <2>2. CASE d.fd = "closed"
    BY <2>2 DEF After
  <2> QED
    BY <1>3, <2>1, <2>2
<1>7. c.fd = "closed" => e.kernel = c.kernel
  BY <1>3 DEF After
<1> QED
  BY <1>1, <1>4, <1>5, <1>6, <1>7 DEF After

\* What is written to a connection that is closed at once is lost.
LEMMA AfterClosed ==
  ASSUME NEW c, NEW s \in Seq(Written), NEW d, Sound(c), After(c, <<>>, d), d.fd = "closed"
  PROVE  After(c, s, d)
<1>1. Unreceived(c) \in Seq(Written) /\ Unreceived(c) \o <<>> = Unreceived(c)
  BY UnreceivedType, ConcatEmptySeq
<1>2. d.kernel \in Seq(Written)
  BY UnreceivedType DEF After
<1>3. c.fd = "open" => \E r \in Seq(Written) : d.kernel \o r = Unreceived(c) \o s
  <2> SUFFICES ASSUME c.fd = "open" PROVE \E r \in Seq(Written) : d.kernel \o r = Unreceived(c) \o s
    OBVIOUS
  <2>1. PICK r \in Seq(Written) : d.kernel \o r = Unreceived(c)
    BY <1>1 DEF After
  <2>2. (d.kernel \o r) \o s = d.kernel \o (r \o s) /\ r \o s \in Seq(Written)
    BY <1>2, ConcatWritten, Zenon
  <2> QED
    BY <2>1, <2>2
<1> QED
  BY <1>3 DEF After

\* unix.Write of what is not empty.
LEMMA WriteResultsRange ==
  ASSUME NEW c, Sound(c), NEW s \in Seq(Written), s # <<>>, NEW n \in WriteResults(c, s)
  PROVE  \/ n = Failed
         \/ c.fd = "closed" /\ n \in 0..Len(s)
         \/ /\ c.fd = "open" /\ ~reset
            /\ n \in 0..Len(s) /\ Len(c.kernel) + n <= SendBuffer
<1>1. Len(s) \in Nat \ {0} /\ Len(c.kernel) \in Nat /\ SendBuffer \in Nat
  BY EmptySeq, LenProperties, ConnectionAssumption DEF Sound, Conns
<1>2. c.fd \in {"open", "closed"}
  BY DEF Sound, Conns
<1>3. Len(c.kernel) <= SendBuffer
  BY DEF Sound
<1>4. CASE c.fd = "closed" \/ reset
  <2>1. n = Failed \/ (c.fd = "closed" /\ (n = 0 \/ n \in 1..Len(s)))
    BY <1>4 DEF WriteResults, Again
  <2> QED
    BY <1>1, <2>1
<1>5. CASE ~(reset \/ c.fd = "closed") /\ SendBuffer - Len(c.kernel) = 0
  <2>1. n = 0
    BY <1>5 DEF WriteResults, Again
  <2> QED
    BY <1>1, <1>2, <1>3, <1>5, <2>1
<1>6. CASE ~(reset \/ c.fd = "closed") /\ SendBuffer - Len(c.kernel) # 0
  <2>1. n \in 1..(IF Len(s) < SendBuffer - Len(c.kernel) THEN Len(s) ELSE SendBuffer - Len(c.kernel))
    BY <1>6 DEF WriteResults
  <2> QED
    BY <1>1, <1>2, <1>3, <1>6, <2>1
<1> QED
  BY <1>4, <1>5, <1>6

\* OnClosed and releaseTCP, on a connection whose socket is closed.
LEMMA ClosedAfter ==
  ASSUME NEW c, Sound(c), c.fd = "closed", NEW o \in Closed(c)
  PROVE  After(c, <<>>, o.conn) /\ o.conn.fd = "closed" /\ o.ret \in Returns
<1>1. o \in {[conn |-> c, ret |-> "panic"], [conn |-> releaseTCP(c), ret |-> "nil"],
            [conn |-> c, ret |-> "shutdown"]}
  BY DEF Closed, Outcome
<1>2. <<>> \in Seq(Input) /\ <<>> \in Seq(Written)
  BY EmptySeq
<1>3. /\ releaseTCP(c) \in Conns /\ releaseTCP(c).kernel = c.kernel
      /\ releaseTCP(c).fd = "closed" /\ releaseTCP(c).closes = c.closes
      /\ releaseTCP(c).reused = c.reused
      /\ releaseTCP(c).released /\ ~releaseTCP(c).opened
  BY <1>2 DEF Sound, Conns, releaseTCP
<1>4. Sound(releaseTCP(c))
  BY <1>3 DEF Sound
<1>5. After(c, <<>>, releaseTCP(c))
  BY <1>3, <1>4 DEF After
<1>6. After(c, <<>>, c)
  BY AfterNothing
<1> QED
  BY <1>1, <1>3, <1>5, <1>6 DEF Returns

\* closeFd leaves a closed connection and gives it no byte, whatever the number
\* has become.
LEMMA CloseFdAfter ==
  ASSUME NEW c, Sound(c), NEW o \in closeFd(c)
  PROVE  After(c, <<>>, o.conn) /\ o.conn.fd = "closed" /\ o.ret \in Returns
<1>1. CASE o = [conn |-> c, ret |-> "nil"] /\ c.fd = "closed"
  BY <1>1, AfterNothing DEF Returns
<1>2. ASSUME NEW d, Sound(d), d.fd = "closed", After(c, <<>>, d), o \in Closed(d)
      PROVE  After(c, <<>>, o.conn) /\ o.conn.fd = "closed" /\ o.ret \in Returns
  <2>1. After(d, <<>>, o.conn) /\ o.conn.fd = "closed" /\ o.ret \in Returns
    BY <1>2, ClosedAfter
  <2> QED
    BY <1>2, <2>1, EmptySeq, AfterBoth
<1>3. CASE c.fd = "open"
  <2> DEFINE d == [c EXCEPT !.fd = "closed", !.writing = FALSE, !.closes = @ + 1]
  <2>1. o \in Closed(d)
    BY <1>3 DEF closeFd
  <2>2. /\ c \in Conns /\ c.closes = 0 /\ ~c.released
        /\ Len(c.kernel) <= SendBuffer
    BY <1>3 DEF Sound, Conns
  <2>3. /\ d \in Conns /\ d.kernel = c.kernel /\ d.fd = "closed" /\ d.closes = 1
        /\ d.released = c.released /\ d.inbound = c.inbound /\ d.buffer = c.buffer
    <3>1. d = [c EXCEPT !.fd = "closed", !.writing = FALSE, !.closes = 1]
      <4>1. c.closes + 1 = 1
        BY <2>2
      <4> QED
        BY <4>1, Zenon
    <3> HIDE DEF d
    <3> QED
      BY <2>2, <3>1 DEF Conns
  <2> HIDE DEF d
  <2>4. \E r \in Seq(Written) : c.kernel \o r = Unreceived(c) \o <<>>
    BY <1>3, AfterNothing DEF After
  <2>5. Sound(d)
    BY <2>2, <2>3 DEF Sound
  <2>6. After(c, <<>>, d)
    BY <1>3, <2>2, <2>3, <2>4, <2>5 DEF After
  <2> QED
    BY <1>2, <2>1, <2>3, <2>5, <2>6
<1>4. CASE c.fd = "closed" /\ o # [conn |-> c, ret |-> "nil"]
  <2> DEFINE k == c.closes + 1
             d == [c EXCEPT !.closes = k, !.reused = TRUE]
  <2>1. o \in Closed(d)
    BY <1>4 DEF closeFd, Outcome
  <2>2. /\ c \in Conns /\ k \in Nat /\ k > 0 /\ Len(c.kernel) <= SendBuffer
        /\ c.released => ~c.opened
    BY DEF Sound, Conns
  <2> HIDE DEF k
  <2>3. /\ d \in Conns /\ d.kernel = c.kernel /\ d.fd = "closed" /\ d.closes = k
        /\ d.reused /\ d.opened = c.opened
        /\ d.released = c.released /\ d.inbound = c.inbound /\ d.buffer = c.buffer
    BY <1>4, <2>2 DEF Conns
  <2> HIDE DEF d
  <2>4. Sound(d)
    BY <2>2, <2>3 DEF Sound
  <2>5. After(c, <<>>, d)
    BY <1>4, <2>3, <2>4 DEF After
  <2> QED
    BY <1>2, <2>1, <2>3, <2>4, <2>5
<1> QED
  BY <1>1, <1>3, <1>4 DEF Sound, Conns

\* What is written to the number of a closed connection goes to another peer:
\* only outboundBuffer changes, and the registration for writing.
Lost(c, d) ==
  /\ d \in Conns
  /\ d.fd = "closed" /\ d.kernel = c.kernel /\ d.released = c.released
  /\ d.opened = c.opened /\ d.closes = c.closes /\ d.reused = c.reused
  /\ d.inbound = c.inbound /\ d.buffer = c.buffer

LEMMA LostAfter ==
  ASSUME NEW c, Sound(c), c.fd = "closed", NEW d, Lost(c, d), NEW s
  PROVE  Sound(d) /\ After(c, s, d)
<1>1. Sound(d)
  BY DEF Sound, Lost
<1> QED
  BY <1>1 DEF Lost, After

LEMMA LostOnce ==
  ASSUME NEW c, NEW d, Lost(c, d), NEW q \in Seq(Written), NEW s, NEW n
  PROVE  Lost(c, [Sending(d, s, n) EXCEPT !.outbound = q])
<1>1. Sending(d, s, n) = d
  BY DEF Sending, Lost
<1>2. [d EXCEPT !.outbound = q] \in Conns
  BY DEF Lost, Conns
<1>3. Lost(c, [d EXCEPT !.outbound = q])
  BY <1>2 DEF Lost, Conns
<1> QED
  BY <1>1, <1>3

LEMMA LostEvents ==
  ASSUME NEW c, NEW d, Lost(c, d)
  PROVE  Lost(c, Drained(d)) /\ Lost(c, Registered(d))
<1>1. ASSUME NEW b \in BOOLEAN PROVE Lost(c, [d EXCEPT !.writing = b])
  <2>1. [d EXCEPT !.writing = b] \in Conns
    BY DEF Lost, Conns
  <2> QED
    BY <2>1 DEF Lost, Conns
<1> QED
  BY <1>1 DEF Drained, Registered

\* Some of outboundBuffer has gone to the kernel.
Flushed(c, d) ==
  /\ d \in Conns
  /\ Len(d.kernel) <= SendBuffer
  /\ d.fd = "open" /\ ~d.released /\ d.closes = 0 /\ d.writing
  /\ d.inbound = c.inbound /\ d.buffer = c.buffer
  /\ Unreceived(d) = Unreceived(c)

LEMMA FlushOnce ==
  ASSUME NEW c, NEW d, Flushed(c, d), NEW n \in 0..Len(d.outbound),
         Len(d.kernel) + n <= SendBuffer, NEW s, SubSeq(s, 1, n) = SubSeq(d.outbound, 1, n)
  PROVE  /\ Flushed(c, [Sending(d, s, n) EXCEPT !.outbound = Drop(@, n)])
         /\ [Sending(d, s, n) EXCEPT !.outbound = Drop(@, n)].outbound = Drop(d.outbound, n)
<1> DEFINE p == SubSeq(d.outbound, 1, n)
           q == Drop(d.outbound, n)
           e == [d EXCEPT !.kernel = d.kernel \o p]
           f == [e EXCEPT !.outbound = q]
<1>1. d \in Conns /\ d.kernel \in Seq(Written) /\ d.outbound \in Seq(Written)
  BY DEF Flushed, Conns
<1>2. p \in Seq(Written) /\ Len(p) = n /\ q \in Seq(Written) /\ p \o q = d.outbound
  BY <1>1, Split
<1>3. [Sending(d, s, n) EXCEPT !.outbound = Drop(@, n)] = f
  <2>1. Sending(d, s, n) = e
    BY DEF Sending, Flushed
  <2>2. e.outbound = d.outbound
    BY <1>1, <1>2, ConcatWritten DEF Conns
  <2> HIDE DEF e
  <2> QED
    BY <2>1, <2>2
<1> HIDE DEF p, q
<1>4. d.kernel \o p \in Seq(Written) /\ (d.kernel \o p) \o q = d.kernel \o (p \o q)
  BY <1>1, <1>2, ConcatWritten
<1>5. Len(d.kernel \o p) = Len(d.kernel) + n
  BY <1>1, <1>2, ConcatProperties
<1>6. /\ e \in Conns /\ e.kernel = d.kernel \o p /\ e.fd = d.fd /\ e.released = d.released
      /\ e.closes = d.closes /\ e.writing = d.writing /\ e.inbound = d.inbound
      /\ e.buffer = d.buffer
  BY <1>1, <1>4 DEF Conns
<1> HIDE DEF e
<1>7. /\ f \in Conns /\ f.kernel = e.kernel /\ f.outbound = q /\ f.fd = e.fd
      /\ f.released = e.released /\ f.closes = e.closes /\ f.writing = e.writing
      /\ f.inbound = e.inbound /\ f.buffer = e.buffer
  BY <1>2, <1>6 DEF Conns
<1> HIDE DEF f
<1>8. Unreceived(f) = Unreceived(d)
  BY <1>2, <1>4, <1>6, <1>7 DEF Unreceived
<1>9. Len(f.kernel) <= SendBuffer
  BY <1>5, <1>6, <1>7
<1>10. Flushed(c, f)
  BY <1>6, <1>7, <1>8, <1>9 DEF Flushed
<1> QED
  BY <1>3, <1>7, <1>10 DEF q

\* The write event goes with the last byte.
LEMMA DrainedAfter ==
  ASSUME NEW c, Sound(c), c.fd = "open", NEW d, Flushed(c, d)
  PROVE  After(c, <<>>, Drained(d))
<1>1. /\ Drained(d) \in Conns /\ Drained(d).kernel = d.kernel /\ Drained(d).outbound = d.outbound
      /\ Drained(d).fd = "open" /\ ~Drained(d).released /\ Drained(d).closes = 0
      /\ Drained(d).writing <=> d.outbound # <<>>
      /\ Drained(d).inbound = c.inbound /\ Drained(d).buffer = c.buffer
  <2>1. CASE d.outbound = <<>>
    BY <2>1 DEF Drained, Flushed, Conns
  <2>2. CASE d.outbound # <<>>
    BY <2>2 DEF Drained, Flushed
  <2> QED
    BY <2>1, <2>2
<1>2. Sound(Drained(d))
  BY <1>1 DEF Sound, Flushed
<1>3. ~c.released
  BY DEF Sound
<1>4. Unreceived(c) \o <<>> = Unreceived(c)
  BY UnreceivedType, ConcatEmptySeq
<1>5. Unreceived(Drained(d)) = Unreceived(c)
  BY <1>1 DEF Unreceived, Flushed
<1>6. d.outbound \in Seq(Written) /\ Drained(d).kernel \o d.outbound = Unreceived(c)
  BY <1>1, <1>5 DEF Unreceived, Flushed, Conns
<1> QED
  BY <1>1, <1>2, <1>3, <1>4, <1>5, <1>6 DEF After

\* The outcomes of loopWrite when unix.Write of the tail returns m.
TailWrites(d, tail, m) ==
  IF m = Failed THEN closeFd(d)
  ELSE IF m = Again THEN {Outcome(d, "nil")}
  ELSE LET e == [Sending(d, tail, m) EXCEPT !.outbound = Drop(@, m)]
       IN  {Outcome(Drained(e), "nil")}

\* The outcomes of loopWrite when unix.Write of the head returns n.
WritesOf(c, head, tail, n) ==
  IF n = Failed THEN closeFd(c)
  ELSE IF n = Again THEN {Outcome(c, "nil")}
  ELSE LET d == [Sending(c, head, n) EXCEPT !.outbound = Drop(@, n)]
       IN  IF ~(TailFollows(n, head) /\ tail # <<>>)
           THEN {Outcome(Drained(d), "nil")}
           ELSE UNION {TailWrites(d, tail, m) : m \in WriteResults(d, tail)}

LEMMA LoopWriteAfter ==
  ASSUME NEW c, Sound(c), c.outbound # <<>>, NEW o \in loopWrite(c)
  PROVE  After(c, <<>>, o.conn) /\ o.ret \in Returns
<1>0. loopWrite(c) =
        UNION {UNION {WritesOf(c, SubSeq(c.outbound, 1, k), Drop(c.outbound, k), n) :
                        n \in WriteResults(c, SubSeq(c.outbound, 1, k))} :
                 k \in 1..Len(c.outbound)}
  BY DEF loopWrite, WritesOf, TailWrites
<1>8. PICK k \in 1..Len(c.outbound) :
        \E n \in WriteResults(c, SubSeq(c.outbound, 1, k)) :
          o \in WritesOf(c, SubSeq(c.outbound, 1, k), Drop(c.outbound, k), n)
  BY <1>0
<1> DEFINE head == SubSeq(c.outbound, 1, k)
           tail == Drop(c.outbound, k)
<1>1. PICK n \in WriteResults(c, head) : o \in WritesOf(c, head, tail, n)
  BY <1>8
<1> DEFINE d == [Sending(c, head, n) EXCEPT !.outbound = Drop(@, n)]
<1>2. c.outbound \in Seq(Written) /\ Len(c.outbound) \in Nat
  BY UnreceivedType, LenProperties
<1>3. /\ head \in Seq(Written) /\ Len(head) = k /\ tail \in Seq(Written)
      /\ head # <<>>
  <2>1. k \in 0..Len(c.outbound)
    OBVIOUS
  <2>2. head \in Seq(Written) /\ Len(head) = k /\ tail \in Seq(Written)
    BY <1>2, <2>1, Split
  <2> QED
    BY <2>2, EmptyIffLen
<1>4. \/ n = Failed
      \/ c.fd = "closed" /\ n \in 0..k
      \/ c.fd = "open" /\ ~reset /\ n \in 0..k /\ Len(c.kernel) + n <= SendBuffer
  BY <1>3, WriteResultsRange
<1>5. CASE n = Failed
  <2>1. o \in closeFd(c)
    BY <1>1, <1>5 DEF WritesOf
  <2> QED
    BY <2>1, CloseFdAfter
<1>6. CASE n = Again
  <2>1. o = [conn |-> c, ret |-> "nil"]
    BY <1>1, <1>6 DEF WritesOf, Failed, Again, Outcome
  <2> QED
    BY <2>1, AfterNothing DEF Returns
<1>9. CASE n # Failed /\ n # Again /\ c.fd = "closed"
  <2>1. n \in 0..Len(c.outbound)
    BY <1>2, <1>4, <1>9
  <2>2. Lost(c, c)
    BY <1>9 DEF Lost, Sound
  <2>3. Sending(c, head, n) = c
    BY <1>9 DEF Sending
  <2>4. d.outbound \in Seq(Written) /\ Lost(c, d)
    <3>1. Drop(c.outbound, n) \in Seq(Written)
      BY <1>2, <2>1, Split
    <3>2. d = [Sending(c, head, n) EXCEPT !.outbound = Drop(c.outbound, n)]
      BY <2>3
    <3>3. Lost(c, d)
      BY <2>2, <3>1, <3>2, LostOnce
    <3> HIDE DEF d
    <3> QED
      BY <3>3 DEF Lost, Conns
  <2> HIDE DEF d
  <2>5. CASE ~(TailFollows(n, head) /\ tail # <<>>)
    <3>1. o = [conn |-> Drained(d), ret |-> "nil"]
      BY <1>1, <1>9, <2>5 DEF WritesOf, Outcome, d
    <3> QED
      BY <1>9, <2>4, <3>1, LostEvents, LostAfter DEF Returns
  <2>6. CASE TailFollows(n, head) /\ tail # <<>>
    <3>1. PICK m \in WriteResults(d, tail) : o \in TailWrites(d, tail, m)
      BY <1>1, <1>9, <2>6 DEF WritesOf, d
    <3>2. Sound(d) /\ After(c, <<>>, d)
      BY <1>9, <2>4, LostAfter
    <3>3. CASE m = Failed
      <4>1. After(d, <<>>, o.conn) /\ o.ret \in Returns
        BY <3>1, <3>2, <3>3, CloseFdAfter DEF TailWrites
      <4> QED
        BY <3>2, <4>1, EmptySeq, AfterBoth
    <3>4. CASE m # Failed /\ m = Again
      BY <3>1, <3>2, <3>4 DEF TailWrites, Outcome, Returns
    <3>5. CASE m # Failed /\ m # Again
      <4> DEFINE q == Drop(d.outbound, m)
                 e == [Sending(d, tail, m) EXCEPT !.outbound = Drop(@, m)]
      <4>1. o = [conn |-> Drained(e), ret |-> "nil"]
        BY <3>1, <3>5 DEF TailWrites, Outcome
      <4>2. q \in Seq(Written) /\ e = [Sending(d, tail, m) EXCEPT !.outbound = q]
        <5>1. Sending(d, tail, m) = d
          BY <2>4 DEF Sending, Lost
        <5>2. m \in 0..Len(d.outbound)
          <6>1. d.outbound = tail
            BY <1>3, <2>3, <2>6 DEF TailFollows, d
          <6>2. m \in 0..Len(tail)
            BY <1>3, <2>6, <3>1, <3>2, <3>5, WriteResultsRange
          <6> QED
            BY <6>1, <6>2
        <5>3. q \in Seq(Written)
          BY <2>4, <5>2, Split
        <5> QED
          BY <5>1, <5>3
      <4> HIDE DEF q
      <4>3. Lost(c, e)
        BY <2>4, <4>2, LostOnce
      <4> HIDE DEF e
      <4> QED
        BY <1>9, <4>1, <4>3, LostEvents, LostAfter DEF Returns
    <3> QED
      BY <3>3, <3>4, <3>5
  <2> QED
    BY <2>5, <2>6
<1>7. CASE n # Failed /\ n # Again /\ c.fd # "closed"
  <2>1. c.fd = "open" /\ ~reset /\ n \in 1..k /\ Len(c.kernel) + n <= SendBuffer
    BY <1>4, <1>7 DEF Again
  <2>2. Flushed(c, c)
    BY <2>1 DEF Flushed, Sound, Conns
  <2>3. SubSeq(head, 1, n) = SubSeq(c.outbound, 1, n) /\ n \in 0..Len(c.outbound)
    BY <1>2, <2>1, PrefixOfPrefix
  <2>4. Flushed(c, d) /\ d.outbound = Drop(c.outbound, n)
    BY <2>1, <2>2, <2>3, FlushOnce
  <2> HIDE DEF d
  <2>5. CASE ~(TailFollows(n, head) /\ tail # <<>>)
    <3>1. o = [conn |-> Drained(d), ret |-> "nil"]
      BY <1>1, <1>7, <2>5 DEF WritesOf, Outcome, d
    <3> QED
      BY <2>1, <2>4, <3>1, DrainedAfter DEF Returns
  <2>6. CASE TailFollows(n, head) /\ tail # <<>>
    <3>1. n = k /\ d.outbound = tail /\ tail # <<>>
      BY <1>3, <2>4, <2>6 DEF TailFollows
    <3>2. PICK m \in WriteResults(d, tail) : o \in TailWrites(d, tail, m)
      BY <1>1, <1>7, <2>6 DEF WritesOf, d
    <3>3. Sound(d)
      BY <2>4, <3>1 DEF Sound, Flushed
    <3>4. m # Failed
      BY <2>1, <2>4 DEF WriteResults, Flushed, Failed, Again
    <3>5. m \in 0..Len(d.outbound) /\ Len(d.kernel) + m <= SendBuffer
      BY <1>3, <2>4, <3>1, <3>3, <3>4, WriteResultsRange DEF Flushed
    <3>6. CASE m = Again
      <4>1. o = [conn |-> d, ret |-> "nil"] /\ Drained(d) = d
        BY <3>1, <3>2, <3>4, <3>6 DEF TailWrites, Outcome, Drained
      <4> QED
        BY <2>1, <2>4, <4>1, DrainedAfter DEF Returns
    <3>7. CASE m # Again
      <4> DEFINE f == [Sending(d, tail, m) EXCEPT !.outbound = Drop(@, m)]
      <4>1. o = [conn |-> Drained(f), ret |-> "nil"]
        BY <3>2, <3>4, <3>7 DEF TailWrites, Outcome
      <4>2. Flushed(c, f)
        BY <2>4, <3>1, <3>5, FlushOnce
      <4> HIDE DEF f
      <4> QED
        BY <2>1, <4>1, <4>2, DrainedAfter DEF Returns
    <3> QED
      BY <3>6, <3>7
  <2> QED
    BY <2>5, <2>6
<1> QED
  BY <1>5, <1>6, <1>7, <1>9

LEMMA LoopCloseConnAfter ==
  ASSUME NEW c, Sound(c), NEW o \in loopCloseConn(c)
  PROVE  After(c, <<>>, o.conn) /\ o.ret \in Returns
<1>1. CASE c.released
  <2>1. o = [conn |-> c, ret |-> "panic"]
    BY <1>1 DEF loopCloseConn, Outcome
  <2> QED
    BY <2>1, AfterNothing DEF Returns
<1>2. CASE ~c.released /\ c.outbound = <<>>
  <2>1. o \in closeFd(c)
    BY <1>2 DEF loopCloseConn
  <2> QED
    BY <2>1, CloseFdAfter
<1>3. CASE ~c.released /\ c.outbound # <<>>
  <2>1. PICK p \in loopWrite(c) : o \in closeFd(p.conn)
    BY <1>3 DEF loopCloseConn
  <2>2. After(c, <<>>, p.conn)
    BY <1>3, LoopWriteAfter
  <2>3. Sound(p.conn)
    BY <2>2 DEF After
  <2>4. After(p.conn, <<>>, o.conn) /\ o.ret \in Returns
    BY <2>1, <2>3, CloseFdAfter
  <2>5. <<>> \in Seq(Written)
    BY EmptySeq
  <2> QED
    BY <2>2, <2>4, <2>5, AfterBoth
<1> QED
  BY <1>1, <1>2, <1>3

\* What write and open have done with s, of which the kernel took n bytes.
LEMMA SentAfter ==
  ASSUME NEW c, Sound(c), c.fd = "open", c.outbound = <<>>,
         NEW s \in Seq(Written), NEW n \in 0..Len(s), Len(c.kernel) + n <= SendBuffer
  PROVE  LET d == [Sending(c, s, n) EXCEPT !.outbound = Drop(s, n)]
         IN  /\ d.outbound = Drop(s, n)
             /\ After(c, s, IF d.outbound = <<>> THEN d ELSE Registered(d))
             /\ (IF d.outbound = <<>> THEN d ELSE Registered(d)).fd = "open"
<1> DEFINE p == SubSeq(s, 1, n)
           q == Drop(s, n)
           e == [c EXCEPT !.kernel = c.kernel \o p]
           d == [e EXCEPT !.outbound = q]
           f == IF q = <<>> THEN d ELSE Registered(d)
<1>1. c \in Conns /\ c.kernel \in Seq(Written) /\ ~c.released /\ c.closes = 0 /\ c.writing = FALSE
  BY DEF Sound, Conns
<1>2. p \in Seq(Written) /\ Len(p) = n /\ q \in Seq(Written) /\ p \o q = s
  BY Split
<1>3. [Sending(c, s, n) EXCEPT !.outbound = Drop(s, n)] = d
  BY DEF Sending
<1> HIDE DEF p, q
<1>4. /\ c.kernel \o p \in Seq(Written) /\ (c.kernel \o p) \o q = c.kernel \o s
      /\ Len(c.kernel \o p) = Len(c.kernel) + n
  BY <1>1, SplitMoved DEF p, q
<1>6. /\ e \in Conns /\ e.kernel = c.kernel \o p /\ e.fd = c.fd /\ e.released = c.released
      /\ e.closes = c.closes /\ e.writing = c.writing /\ e.inbound = c.inbound
      /\ e.buffer = c.buffer
  BY <1>1, <1>4 DEF Conns
<1> HIDE DEF e
<1>7. /\ d \in Conns /\ d.kernel = e.kernel /\ d.outbound = q /\ d.fd = e.fd
      /\ d.released = e.released /\ d.closes = e.closes /\ d.writing = e.writing
      /\ d.inbound = e.inbound /\ d.buffer = e.buffer
  BY <1>2, <1>6 DEF Conns
<1> HIDE DEF d
<1>8. /\ f \in Conns /\ f.kernel = d.kernel /\ f.outbound = q /\ f.fd = d.fd
      /\ f.released = d.released /\ f.closes = d.closes /\ f.inbound = d.inbound
      /\ f.buffer = d.buffer
      /\ f.writing <=> q # <<>>
  BY <1>1, <1>6, <1>7 DEF Registered, Conns
<1> HIDE DEF f
<1>9. Sound(f)
  BY <1>1, <1>4, <1>6, <1>7, <1>8 DEF Sound
<1>10. Unreceived(c) = c.kernel
  BY <1>1, ConcatEmptySeq DEF Unreceived
<1>11. Unreceived(f) = Unreceived(c) \o s /\ f.kernel \o q = Unreceived(c) \o s
  BY <1>4, <1>6, <1>7, <1>8, <1>10 DEF Unreceived
<1>12. After(c, s, f)
  BY <1>1, <1>2, <1>6, <1>7, <1>8, <1>9, <1>11 DEF After
<1>13. f.fd = "open"
  BY <1>6, <1>7, <1>8
<1> QED
  BY <1>3, <1>7, <1>12, <1>13 DEF f, q

LEMMA WriteAfter ==
  ASSUME NEW c, Sound(c), NEW s \in Seq(Written), s # <<>>, NEW o \in write(c, s)
  PROVE  After(c, s, o.conn) /\ o.ret \in Returns
<1>1. CASE c.released
  <2>1. o = [conn |-> c, ret |-> "panic"] /\ c.fd = "closed"
    BY <1>1 DEF write, Outcome, Sound
  <2>2. After(c, <<>>, c)
    BY AfterNothing
  <2> QED
    BY <2>1, <2>2, AfterClosed DEF Returns
<1>2. CASE ~c.released /\ c.outbound # <<>>
  <2> DEFINE d == [c EXCEPT !.outbound = c.outbound \o s]
  <2>1. o = [conn |-> d, ret |-> "nil"]
    BY <1>2 DEF write, Outcome
  <2>2. /\ c \in Conns /\ c.kernel \in Seq(Written) /\ c.outbound \in Seq(Written)
        /\ c.fd \in {"open", "closed"}
    BY DEF Sound, Conns
  <2>3. /\ c.outbound \o s \in Seq(Written) /\ c.outbound \o s # <<>>
        /\ c.kernel \o (c.outbound \o s) = Unreceived(c) \o s
    <3>1. c.outbound \o s \in Seq(Written) /\ c.kernel \o (c.outbound \o s) = Unreceived(c) \o s
      BY <2>2, ConcatWritten DEF Unreceived
    <3>2. c.outbound \o s # <<>>
      BY <1>2, <2>2, ConcatEqualIffEmpty
    <3> QED
      BY <3>1, <3>2
  <2>4. /\ d \in Conns /\ d.kernel = c.kernel /\ d.outbound = c.outbound \o s /\ d.fd = c.fd
        /\ d.released = c.released /\ d.opened = c.opened /\ d.closes = c.closes
        /\ d.reused = c.reused /\ d.writing = c.writing /\ d.inbound = c.inbound /\ d.buffer = c.buffer
    BY <2>2, <2>3 DEF Conns
  <2> HIDE DEF d
  <2>5. Sound(d)
    BY <1>2, <2>3, <2>4 DEF Sound
  <2>6. Unreceived(d) = Unreceived(c) \o s /\ d.kernel \o d.outbound = Unreceived(c) \o s
    BY <2>3, <2>4 DEF Unreceived
  <2>7. After(c, s, d)
    BY <2>2, <2>3, <2>4, <2>5, <2>6 DEF After
  <2> QED
    BY <2>1, <2>7 DEF Returns
<1>3. CASE ~c.released /\ c.outbound = <<>>
  <2> DEFINE D(n) == [Sending(c, s, n) EXCEPT !.outbound = Drop(s, n)]
  <2>1. PICK n \in WriteResults(c, s) :
          o \in IF n = Failed THEN {Outcome(p.conn, "nil") : p \in closeFd(c)}
                ELSE {Outcome(IF n < Len(s) THEN Registered(D(n)) ELSE D(n), "nil")}
    BY <1>3 DEF write
  <2>2. CASE n = Failed
    <3>1. PICK p \in closeFd(c) : o = [conn |-> p.conn, ret |-> "nil"]
      BY <2>1, <2>2 DEF Outcome
    <3>2. After(c, <<>>, p.conn) /\ p.conn.fd = "closed"
      BY CloseFdAfter
    <3> QED
      BY <3>1, <3>2, AfterClosed DEF Returns
  <2>4. CASE n # Failed /\ c.fd = "closed"
    <3>1. o.conn = (IF n < Len(s) THEN Registered(D(n)) ELSE D(n)) /\ o.ret = "nil"
      BY <2>1, <2>4 DEF Outcome
    <3>2. Lost(c, c)
      BY <2>4 DEF Lost, Sound
    <3>3. Drop(s, n) \in Seq(Written)
      BY <2>4, WriteResultsRange, Split
    <3>4. Lost(c, D(n))
      BY <3>2, <3>3, LostOnce
    <3> HIDE DEF D
    <3>5. Lost(c, o.conn)
      BY <3>1, <3>4, LostEvents
    <3> QED
      BY <2>4, <3>1, <3>5, LostAfter DEF Returns
  <2>3. CASE n # Failed /\ c.fd # "closed"
    <3>1. c.fd = "open" /\ n \in 0..Len(s) /\ Len(c.kernel) + n <= SendBuffer
      BY <2>3, WriteResultsRange
    <3>2. D(n).outbound = Drop(s, n) /\ After(c, s, IF D(n).outbound = <<>> THEN D(n) ELSE Registered(D(n)))
      BY <1>3, <3>1, SentAfter
    <3>3. D(n).outbound = <<>> <=> ~(n < Len(s))
      <4>1. Drop(s, n) \in Seq(Written) /\ Len(Drop(s, n)) = Len(s) - n /\ Len(s) \in Nat
        BY <3>1, Split, LenProperties
      <4>2. Drop(s, n) = <<>> <=> Len(Drop(s, n)) = 0
        BY <4>1, EmptyIffLen
      <4> HIDE DEF D
      <4> QED
        BY <3>1, <3>2, <4>1, <4>2
    <3>4. o = [conn |-> IF n < Len(s) THEN Registered(D(n)) ELSE D(n), ret |-> "nil"]
      BY <2>1, <2>3 DEF Outcome
    <3> HIDE DEF D
    <3> QED
      BY <3>2, <3>3, <3>4 DEF Returns
  <2> QED
    BY <2>2, <2>3, <2>4
<1> QED
  BY <1>1, <1>2, <1>3

LEMMA OpenAfter ==
  ASSUME NEW c, Sound(c), c.fd = "open", c.outbound = <<>>,
         NEW s \in Seq(Written), s # <<>>, NEW d \in open(c, s)
  PROVE  After(c, s, d) /\ d.fd = "open"
<1> DEFINE D(n) == IF n = Failed THEN [c EXCEPT !.outbound = s]
                   ELSE [Sending(c, s, n) EXCEPT !.outbound = Drop(s, n)]
<1>1. PICK n \in WriteResults(c, s) :
        d = IF D(n).outbound = <<>> THEN D(n) ELSE Registered(D(n))
  BY DEF open
<1>2. CASE n = Failed
  <2> DEFINE e == [c EXCEPT !.outbound = s]
  <2>1. /\ c \in Conns /\ ~c.released /\ c.closes = 0 /\ c.kernel \in Seq(Written)
        /\ Len(c.kernel) <= SendBuffer
    BY DEF Sound, Conns
  <2>2. /\ e \in Conns /\ e.kernel = c.kernel /\ e.outbound = s /\ e.fd = "open"
        /\ ~e.released /\ e.closes = 0 /\ e.inbound = c.inbound /\ e.buffer = c.buffer
    BY <2>1 DEF Conns
  <2>3. d = Registered(e)
    BY <1>1, <1>2, <2>2
  <2> HIDE DEF e
  <2>4. /\ d \in Conns /\ d.kernel = e.kernel /\ d.outbound = s /\ d.fd = "open"
        /\ ~d.released /\ d.closes = 0 /\ d.inbound = c.inbound /\ d.buffer = c.buffer
        /\ d.writing
    BY <2>2, <2>3 DEF Registered, Conns
  <2>5. Sound(d)
    BY <2>1, <2>2, <2>4 DEF Sound
  <2>6. Unreceived(c) = c.kernel
    BY <2>1, ConcatEmptySeq DEF Unreceived
  <2>7. Unreceived(d) = Unreceived(c) \o s /\ d.kernel \o s = Unreceived(c) \o s
    BY <2>2, <2>4, <2>6 DEF Unreceived
  <2> QED
    BY <2>1, <2>4, <2>5, <2>7 DEF After
<1>3. CASE n # Failed
  <2>1. n \in 0..Len(s) /\ Len(c.kernel) + n <= SendBuffer
    BY <1>3, WriteResultsRange
  <2> DEFINE e == [Sending(c, s, n) EXCEPT !.outbound = Drop(s, n)]
  <2>2. D(n) = e
    BY <1>3
  <2>3. /\ After(c, s, IF e.outbound = <<>> THEN e ELSE Registered(e))
        /\ (IF e.outbound = <<>> THEN e ELSE Registered(e)).fd = "open"
    BY <2>1, SentAfter
  <2> HIDE DEF D, e
  <2> QED
    BY <1>1, <2>2, <2>3
<1> QED
  BY <1>2, <1>3

LEMMA HandleActionAfter ==
  ASSUME NEW c, Sound(c), NEW action \in Actions, NEW o \in handleAction(c, action)
  PROVE  After(c, <<>>, o.conn) /\ o.ret \in Returns
<1>1. action \in {"None", "Close", "Shutdown"}
  BY ConnectionAssumption
<1>2. CASE action = "Close"
  <2>1. o \in loopCloseConn(c)
    BY <1>2 DEF handleAction
  <2> QED
    BY <2>1, LoopCloseConnAfter
<1>3. CASE action # "Close"
  <2>1. o.conn = c /\ o.ret \in Returns
    BY <1>1, <1>3 DEF handleAction, Outcome, Returns
  <2> QED
    BY <2>1, AfterNothing
<1> QED
  BY <1>2, <1>3

\* OnOpened, React or a job writes numbers that follow those of before.
LEMMA ReplyNumbers ==
  ASSUME issued \in 0..MaxIssued, NEW s \in Replies
  PROVE  /\ s \in Seq(Written)
         /\ issued + Len(s) \in 0..MaxIssued
         /\ Numbers(1, issued) \o s = Numbers(1, issued + Len(s))
<1>1. MaxIssued \in Nat /\ MaxReply \in Nat
  BY ConnectionAssumption
<1>2. PICK k \in 0..(IF MaxIssued - issued < MaxReply THEN MaxIssued - issued ELSE MaxReply) :
        s = Numbers(issued + 1, issued + k)
  BY DEF Replies
<1>3. k \in Nat /\ issued + k <= MaxIssued /\ issued \in Nat
  BY <1>1, <1>2
<1>4. s \in Seq(1..MaxIssued) /\ Len(s) = k
  BY <1>1, <1>2, <1>3, NumbersSeq
<1>5. Numbers(1, issued) \o s = Numbers(1, issued + k)
  BY <1>1, <1>2, <1>3, NumbersConcat
<1> QED
  BY <1>3, <1>4, <1>5 DEF Written

LEMMA WroteAfter ==
  ASSUME NEW c, Sound(c), NEW s \in Seq(Written), NEW w \in Wrote(c, s)
  PROVE  After(c, s, w.conn) /\ w.ret \in Returns
<1>1. CASE s = <<>>
  <2>1. w = [conn |-> c, ret |-> "nil"]
    BY <1>1 DEF Wrote, Outcome
  <2> QED
    BY <1>1, <2>1, AfterNothing DEF Returns
<1>2. CASE s # <<>>
  BY <1>2, WriteAfter DEF Wrote
<1> QED
  BY <1>1, <1>2

\* A reply, and what the action that comes with it asks for.
LEMMA ReactAfter ==
  ASSUME NEW c, Sound(c), NEW s \in Seq(Written), NEW action \in Actions,
         NEW w \in Wrote(c, s),
         NEW o \in IF w.ret = "panic" THEN {w} ELSE handleAction(w.conn, action)
  PROVE  After(c, s, o.conn) /\ o.ret \in Returns
<1>1. After(c, s, w.conn) /\ w.ret \in Returns
  BY WroteAfter
<1>2. CASE w.ret = "panic"
  BY <1>1, <1>2
<1>3. CASE w.ret # "panic"
  <2>1. Sound(w.conn) /\ o \in handleAction(w.conn, action)
    BY <1>1, <1>3 DEF After
  <2>2. After(w.conn, <<>>, o.conn) /\ o.ret \in Returns
    BY <2>1, HandleActionAfter
  <2> QED
    BY <1>1, <2>2, AfterBoth
<1> QED
  BY <1>2, <1>3

-----------------------------------------------------------------------------
(* The inductive invariant.                                                *)

\* The types of what is not in the connection.
Rest ==
  /\ pc \in Places
  /\ batch \in Seq({"read", "write", "sock"})
  /\ jobs \in Seq(Calls)
  /\ called \subseteq Calls
  /\ sent \in 0..MaxSent
  /\ sock \in Seq(Input)
  /\ eof \in BOOLEAN /\ reset \in BOOLEAN
  /\ got \in Seq(Written)
  /\ consumed \in Seq(Input)
  /\ issued \in 0..MaxIssued

\* Nothing is written before loopOpen.
Fresh == pc = "accepted" => conn.fd = "open" /\ conn.outbound = <<>>

\* OutputInOrder, with what the peer will never receive in the place of
\* outboundBuffer when the socket is closed.
Output ==
  /\ \E r \in Seq(Written) : (got \o conn.kernel) \o r = Numbers(1, issued)
  /\ conn.fd = "open" => (got \o conn.kernel) \o conn.outbound = Numbers(1, issued)

IInv == Sound(conn) /\ Rest /\ Fresh /\ Output

LEMMA TypeParts == Sound(conn) /\ Rest => TypeOK
BY DEF Sound, Conns, Rest, TypeOK, Input, Written

LEMMA InvImplies == IInv => TypeOK /\ WriteRegistered /\ ClosedOnce /\ OutputInOrder
<1> SUFFICES ASSUME IInv PROVE TypeOK /\ WriteRegistered /\ ClosedOnce /\ OutputInOrder
  OBVIOUS
<1>1. TypeOK
  BY TypeParts DEF IInv
<1>2. WriteRegistered /\ ClosedOnce
  BY DEF IInv, Sound, WriteRegistered, ClosedOnce
<1>3. got \o conn.kernel \in Seq(Written)
  BY ConcatWritten DEF IInv, Rest, Sound, Conns
<1>4. PICK r \in Seq(Written) : (got \o conn.kernel) \o r = Numbers(1, issued)
  BY DEF IInv, Output
<1>5. IsPrefix(got \o conn.kernel, (got \o conn.kernel) \o r)
  BY <1>3, PrefixOfConcat
<1>6. OutputInOrder
  BY <1>4, <1>5 DEF IInv, Output, OutputInOrder
<1> QED
  BY <1>1, <1>2, <1>6

\* A step that turns the connection, as c, into what it is afterwards.
Progress(c) ==
  \E s \in Seq(Written) :
    /\ issued' \in 0..MaxIssued
    /\ Numbers(1, issued) \o s = Numbers(1, issued')
    /\ After(c, s, conn')

SameOutput(c) ==
  Sound(c) /\ c.fd = conn.fd /\ c.kernel = conn.kernel /\ c.outbound = conn.outbound

\* Concatenation, for the steps that need only its associativity.
Cat(s, t) == s \o t

LEMMA CatFacts ==
  \A s, t, u \in Seq(Written) : Cat(s, t) \in Seq(Written) /\ Cat(Cat(s, t), u) = Cat(s, Cat(t, u))
BY ConcatWritten DEF Cat

LEMMA OutputKept ==
  ASSUME Rest, Sound(conn), Output, NEW c, SameOutput(c), Progress(c), got' = got
  PROVE  Sound(conn') /\ Output'
<1>1. PICK s \in Seq(Written) :
        Cat(Numbers(1, issued), s) = Numbers(1, issued') /\ After(c, s, conn')
  BY Zenon DEF Progress, Cat
<1>2. Sound(conn')
  BY <1>1 DEF After
<1>3. /\ got \in Seq(Written) /\ conn.kernel \in Seq(Written) /\ conn.outbound \in Seq(Written)
      /\ conn'.kernel \in Seq(Written) /\ conn'.outbound \in Seq(Written)
      /\ conn.fd \in {"open", "closed"}
  BY <1>2 DEF Rest, Sound, Conns
<1>4. /\ \E r \in Seq(Written) : Cat(Cat(got, conn.kernel), r) = Numbers(1, issued)
      /\ conn.fd = "open" => Cat(Cat(got, conn.kernel), conn.outbound) = Numbers(1, issued)
  BY DEF Output, Cat
<1>5. /\ conn'.fd = "open" =>
           Cat(conn'.kernel, conn'.outbound) = Cat(Cat(conn.kernel, conn.outbound), s)
      /\ conn.fd = "open" =>
           \E r \in Seq(Written) : Cat(conn'.kernel, r) = Cat(Cat(conn.kernel, conn.outbound), s)
      /\ conn.fd = "closed" => conn'.kernel = conn.kernel /\ conn'.fd # "open"
  BY <1>1 DEF After, SameOutput, Unreceived, Cat
<1> DEFINE g == got
           k == conn.kernel
           q == conn.outbound
           l == conn'.kernel
           x == conn'.outbound
           m == Numbers(1, issued)
           n == Numbers(1, issued')
           open1 == conn.fd = "open"
           open2 == conn'.fd = "open"
<1>6. /\ g \in Seq(Written) /\ k \in Seq(Written) /\ q \in Seq(Written)
      /\ l \in Seq(Written) /\ x \in Seq(Written) /\ s \in Seq(Written)
  BY <1>3
<1>7. /\ \E r \in Seq(Written) : Cat(Cat(g, k), r) = m
      /\ open1 => Cat(Cat(g, k), q) = m
      /\ Cat(m, s) = n
      /\ open2 => Cat(l, x) = Cat(Cat(k, q), s)
      /\ open1 => \E r \in Seq(Written) : Cat(l, r) = Cat(Cat(k, q), s)
      /\ ~open1 => l = k /\ ~open2
  BY <1>1, <1>3, <1>4, <1>5
<1> HIDE DEF g, k, q, l, x, m, n, open1, open2
<1>8. /\ \E r \in Seq(Written) : Cat(Cat(g, l), r) = n
      /\ open2 => Cat(Cat(g, l), x) = n
  <2>1. CASE open1
    <3>1. PICK r \in Seq(Written) : Cat(l, r) = Cat(Cat(k, q), s)
      BY <1>7, <2>1
    <3>2. Cat(g, Cat(Cat(k, q), s)) = n
      <4>1. Cat(k, q) \in Seq(Written) /\ Cat(Cat(g, k), q) = Cat(g, Cat(k, q))
        BY <1>6, CatFacts
      <4>2. Cat(Cat(g, Cat(k, q)), s) = Cat(g, Cat(Cat(k, q), s))
        BY <1>6, <4>1, CatFacts
      <4> QED
        BY <1>7, <2>1, <4>1, <4>2
    <3>3. Cat(Cat(g, l), r) = Cat(g, Cat(l, r)) /\ Cat(Cat(g, l), x) = Cat(g, Cat(l, x))
      BY <1>6, CatFacts
    <3> QED
      BY <1>7, <3>1, <3>2, <3>3
  <2>2. CASE ~open1
    <3>1. PICK r \in Seq(Written) : Cat(Cat(g, k), r) = m
      BY <1>7
    <3>2. Cat(g, k) \in Seq(Written) /\ Cat(r, s) \in Seq(Written)
      BY <1>6, CatFacts
    <3>3. Cat(Cat(Cat(g, k), r), s) = Cat(Cat(g, k), Cat(r, s))
      BY <1>6, <3>2, CatFacts
    <3> QED
      BY <1>7, <2>2, <3>1, <3>2, <3>3
  <2> QED
    BY <2>1, <2>2
<1>9. /\ \E r \in Seq(Written) : Cat(Cat(got, conn'.kernel), r) = Numbers(1, issued')
      /\ conn'.fd = "open" => Cat(Cat(got, conn'.kernel), conn'.outbound) = Numbers(1, issued')
  BY <1>8 DEF g, k, q, l, x, m, n, open1, open2
<1> QED
  BY <1>2, <1>9 DEF Output, Cat
-----------------------------------------------------------------------------
(* The steps.                                                              *)

\* A step that may change the connection c, in which nothing has been written
\* yet, as the calls of the loop do.
Moves(c) == SameOutput(c) /\ Progress(c) /\ got' = got

\* Such a step that has nothing to do with what has been received.
Quiet ==
  /\ Moves(conn)
  /\ pc # "frames" /\ pc' # "frames"
  /\ UNCHANGED <<consumed, sock, sent>>

LEMMA ReturnPlace ==
  ASSUME NEW o, o.ret \in Returns, NEW place \in Places, Return(o, place)
  PROVE  conn' = o.conn /\ pc' \in {place, "exit", "panicked"} /\ pc' \in Places
BY DEF Return, Returns, Places

LEMMA StillProgress ==
  ASSUME Rest, NEW c, After(c, <<>>, conn'), issued' = issued
  PROVE  Progress(c)
<1>1. issued \in Nat /\ issued <= MaxIssued /\ MaxIssued \in Nat
  BY ConnectionAssumption DEF Rest
<1>2. Numbers(1, issued) \in Seq(Written)
  BY <1>1, FirstNumbers DEF Written
<1>3. Numbers(1, issued) \o <<>> = Numbers(1, issued) /\ <<>> \in Seq(Written)
  BY <1>2, ConcatEmptySeq, EmptySeq
<1> QED
  BY <1>3 DEF Progress, Rest

LEMMA StillMoves ==
  ASSUME Rest, Sound(conn), UNCHANGED <<conn, issued, got>>
  PROVE  Moves(conn)
<1>1. After(conn, <<>>, conn')
  BY AfterNothing
<1> QED
  BY <1>1, StillProgress DEF Moves, SameOutput

LEMMA ReplyProgress ==
  ASSUME Rest, NEW c, NEW s \in Replies, After(c, s, conn'), issued' = issued + Len(s)
  PROVE  Progress(c)
BY ReplyNumbers DEF Progress, Rest

LEMMA LoopOpenStep ==
  ASSUME Rest, Sound(conn), Fresh, loopOpen
  PROVE  Quiet /\ Rest' /\ Fresh'
<1>1. PICK s \in Replies, action \in Actions :
        /\ \E d \in IF s = <<>> THEN {conn} ELSE open(conn, s) :
             \E o \in handleAction([d EXCEPT !.opened = TRUE], action) : Return(o, "kevent")
        /\ issued' = issued + Len(s)
  BY DEF loopOpen
<1>2. PICK d \in IF s = <<>> THEN {conn} ELSE open(conn, s) :
        \E o \in handleAction([d EXCEPT !.opened = TRUE], action) : Return(o, "kevent")
  BY <1>1
<1> DEFINE e == [d EXCEPT !.opened = TRUE]
<1>3. PICK o \in handleAction(e, action) : Return(o, "kevent")
  BY <1>2
<1>4. s \in Seq(Written) /\ issued' \in 0..MaxIssued
  BY <1>1, ReplyNumbers DEF Rest
<1>5. conn.fd = "open" /\ conn.outbound = <<>>
  BY DEF loopOpen, Fresh
<1>6. After(conn, s, d) /\ d.fd = "open"
  <2>1. CASE s = <<>>
    BY <1>5, <2>1, AfterNothing
  <2>2. CASE s # <<>>
    BY <1>4, <1>5, <2>2, OpenAfter
  <2> QED
    BY <2>1, <2>2
<1>7. d \in Conns /\ Sound(d)
  BY <1>6 DEF After, Sound
<1>8. /\ e \in Conns /\ e.fd = "open" /\ e.released = d.released /\ e.closes = d.closes
      /\ e.reused = d.reused /\ e.kernel = d.kernel /\ e.outbound = d.outbound /\ e.writing = d.writing
      /\ e.inbound = d.inbound /\ e.buffer = d.buffer
  BY <1>6, <1>7 DEF Conns
<1> HIDE DEF e
<1>9. Sound(e)
  BY <1>6, <1>7, <1>8 DEF Sound
<1>10. After(conn, s, e)
  BY <1>5, <1>6, <1>8, <1>9 DEF After, Unreceived
<1>11. After(e, <<>>, o.conn) /\ o.ret \in Returns
  BY <1>9, HandleActionAfter
<1>12. After(conn, s, o.conn)
  BY <1>4, <1>10, <1>11, AfterBoth
<1>13. conn' = o.conn /\ pc' \in Places \ {"accepted", "frames"}
  BY <1>3, <1>11, ReturnPlace DEF Places
<1>14. Progress(conn)
  BY <1>1, <1>12, <1>13, ReplyProgress
<1> QED
  BY <1>4, <1>13, <1>14 DEF Quiet, Moves, SameOutput, Rest, Fresh, loopOpen, peerVars

\* The kernel's events are one read and one write at most.
LEMMA KeventStep ==
  ASSUME Rest, Sound(conn), Fresh, Kevent
  PROVE  Quiet /\ Rest' /\ Fresh'
<1> DEFINE R == IF conn.fd = "open" THEN Ready ELSE {}
<1>1. IsFiniteSet(R) /\ \A e \in R : e[2] \in {"read", "write", "sock"}
  <2>1. IsFiniteSet({<<"read", IF eof \/ reset THEN "sock" ELSE "read">>})
        /\ IsFiniteSet({<<"write", IF reset THEN "sock" ELSE "write">>})
        /\ IsFiniteSet({})
    BY FS_Singleton, FS_EmptySet
  <2>2. IsFiniteSet(Ready)
    <3>1. CASE sock # <<>> \/ eof \/ reset
      <4>1. CASE conn.writing /\ (Len(conn.kernel) < SendBuffer \/ reset)
        BY <2>1, <3>1, <4>1, FS_Union DEF Ready
      <4>2. CASE ~(conn.writing /\ (Len(conn.kernel) < SendBuffer \/ reset))
        BY <2>1, <3>1, <4>2, FS_Union DEF Ready
      <4> QED
        BY <4>1, <4>2
    <3>2. CASE ~(sock # <<>> \/ eof \/ reset)
      <4>1. CASE conn.writing /\ (Len(conn.kernel) < SendBuffer \/ reset)
        BY <2>1, <3>2, <4>1, FS_Union DEF Ready
      <4>2. CASE ~(conn.writing /\ (Len(conn.kernel) < SendBuffer \/ reset))
        BY <2>1, <3>2, <4>2, FS_Union DEF Ready
      <4> QED
        BY <4>1, <4>2
    <3> QED
      BY <3>1, <3>2
  <2>3. \A e \in Ready : e[2] \in {"read", "write", "sock"}
    BY DEF Ready
  <2> QED
    BY <2>1, <2>2, <2>3
<1> HIDE DEF R
<1>2. PICK events \in SetToSeqs(R) : batch' = [i \in DOMAIN events |-> events[i][2]]
  BY DEF Kevent, R
<1>3. Cardinality(R) \in Nat /\ events \in [1..Cardinality(R) -> R]
  BY <1>1, <1>2, FS_CardinalityType DEF SetToSeqs
<1>4. batch' \in [1..Cardinality(R) -> {"read", "write", "sock"}]
  BY <1>1, <1>2, <1>3
<1>5. batch' \in Seq({"read", "write", "sock"})
  BY <1>3, <1>4, FunctionIsSeq
<1>6. Moves(conn)
  BY StillMoves DEF Kevent, peerVars
<1> QED
  BY <1>5, <1>6 DEF Quiet, Kevent, Rest, Fresh, Places, peerVars

\* The first line end that is there is in the bytes that are there.
LEMMA FrameRange ==
  ASSUME NEW buf \in Seq(Input)
  PROVE  FrameLength(buf) \in 0..Len(buf)
<1> DEFINE ends == {i \in 1..Len(buf) : buf[i] \in LineEnds}
<1>1. Len(buf) \in Nat
  BY LenProperties
<1>2. CASE Codec = "BuiltIn"
  BY <1>1, <1>2 DEF FrameLength
<1>3. CASE Codec # "BuiltIn" /\ ends = {}
  BY <1>1, <1>3 DEF FrameLength
<1>4. CASE Codec # "BuiltIn" /\ ends # {}
  <2>1. FrameLength(buf) = CHOOSE i \in ends : \A j \in ends : i <= j
    BY <1>4 DEF FrameLength
  <2>2. ends \subseteq 1..Len(buf) /\ ends \subseteq Nat
    BY <1>1
  <2> HIDE DEF ends
  <2>3. PICK i \in ends : \A j \in ends : ~(j < i)
    <3> DEFINE R == OpToRel(<, Nat)
    <3>1. IsWellFoundedOn(R, Nat)
      BY NatLessThanWellFounded
    <3>2. \A j, i \in Nat : j < i => <<j, i>> \in R
      BY DEF OpToRel
    <3> HIDE DEF R
    <3>3. \E i \in ends : \A j \in ends : ~(<<j, i>> \in R)
      BY <1>4, <2>2, <3>1, WFMin
    <3> QED
      BY <2>2, <3>2, <3>3
  <2>4. \A j \in ends : i <= j
    BY <2>2, <2>3
  <2>5. FrameLength(buf) \in 1..Len(buf)
    BY <2>1, <2>2, <2>4
  <2> DEFINE n == FrameLength(buf)
             l == Len(buf)
  <2>6. n \in 1..l /\ l \in Nat
    BY <1>1, <2>5
  <2> HIDE DEF n, l
  <2>7. n \in 0..l
    BY <2>6
  <2> QED
    BY <2>7 DEF n, l
<1> QED
  BY <1>2, <1>3, <1>4

LEMMA BytesSplit ==
  ASSUME NEW s \in Seq(Input), NEW n \in 0..Len(s)
  PROVE  /\ SubSeq(s, 1, n) \in Seq(Input) /\ Drop(s, n) \in Seq(Input)
         /\ SubSeq(s, 1, n) \o Drop(s, n) = s
BY Split

\* Another content of the buffers of what is read, and the same output.
LEMMA InputChanged ==
  ASSUME Sound(conn), NEW i \in Seq(Input), NEW b \in Seq(Input)
  PROVE  /\ SameOutput([conn EXCEPT !.inbound = i])
         /\ SameOutput([conn EXCEPT !.buffer = b])
         /\ SameOutput([conn EXCEPT !.buffer = b, !.inbound = i])
<1>1. conn \in Conns
  BY DEF Sound
<1>2. ASSUME NEW c, c \in Conns, c.fd = conn.fd, c.opened = conn.opened,
             c.released = conn.released, c.closes = conn.closes, c.outbound = conn.outbound,
             c.reused = conn.reused, c.writing = conn.writing, c.kernel = conn.kernel
      PROVE  SameOutput(c)
  BY <1>2 DEF Sound, SameOutput
<1>3. SameOutput([conn EXCEPT !.inbound = i])
  <2> DEFINE c == [conn EXCEPT !.inbound = i]
  <2>1. /\ c \in Conns /\ c.fd = conn.fd /\ c.opened = conn.opened
        /\ c.released = conn.released /\ c.closes = conn.closes /\ c.outbound = conn.outbound
        /\ c.reused = conn.reused
        /\ c.writing = conn.writing /\ c.kernel = conn.kernel
    BY <1>1 DEF Conns
  <2> HIDE DEF c
  <2>2. SameOutput(c)
    BY <1>2, <2>1
  <2> QED
    BY <2>2 DEF c
<1>4. SameOutput([conn EXCEPT !.buffer = b])
  <2> DEFINE c == [conn EXCEPT !.buffer = b]
  <2>1. /\ c \in Conns /\ c.fd = conn.fd /\ c.opened = conn.opened
        /\ c.released = conn.released /\ c.closes = conn.closes /\ c.outbound = conn.outbound
        /\ c.reused = conn.reused
        /\ c.writing = conn.writing /\ c.kernel = conn.kernel
    BY <1>1 DEF Conns
  <2> HIDE DEF c
  <2>2. SameOutput(c)
    BY <1>2, <2>1
  <2> QED
    BY <2>2 DEF c
<1>5. SameOutput([conn EXCEPT !.buffer = b, !.inbound = i])
  <2> DEFINE c == [conn EXCEPT !.buffer = b, !.inbound = i]
  <2>1. /\ c \in Conns /\ c.fd = conn.fd /\ c.opened = conn.opened
        /\ c.released = conn.released /\ c.closes = conn.closes /\ c.outbound = conn.outbound
        /\ c.reused = conn.reused
        /\ c.writing = conn.writing /\ c.kernel = conn.kernel
    BY <1>1 DEF Conns
  <2> HIDE DEF c
  <2>2. SameOutput(c)
    BY <1>2, <2>1
  <2> QED
    BY <2>2 DEF c
<1> QED
  BY <1>3, <1>4, <1>5

\* Decode takes its frame from what has been read.
LEMMA DecodedSame ==
  ASSUME Sound(conn), NEW n \in 0..Len(ReadAll(conn))
  PROVE  SameOutput(Decoded(conn, n))
<1>1. /\ conn.inbound \in Seq(Input) /\ conn.buffer \in Seq(Input)
      /\ Len(conn.inbound) \in Nat /\ Len(conn.buffer) \in Nat
  BY LenProperties DEF Sound, Conns
<1>2. Len(ReadAll(conn)) = Len(conn.inbound) + Len(conn.buffer)
  BY <1>1, ConcatProperties DEF ReadAll
<1>3. CASE Codec = "BuiltIn"
  <2>1. Decoded(conn, n) = [conn EXCEPT !.buffer = <<>>, !.inbound = <<>>]
    BY <1>3 DEF Decoded, ResetBuffer
  <2>2. <<>> \in Seq(Input)
    BY EmptySeq
  <2> QED
    BY <2>1, <2>2, InputChanged
<1>4. CASE Codec # "BuiltIn"
  <2>1. Decoded(conn, n) = ShiftN(conn, n)
    BY <1>4 DEF Decoded
  <2>2. CASE Len(conn.inbound) = 0
    <3>1. Decoded(conn, n) = [conn EXCEPT !.buffer = Drop(conn.buffer, n)]
      BY <2>1, <2>2 DEF ShiftN
    <3>2. n \in 0..Len(conn.buffer)
      BY <1>1, <1>2, <2>2
    <3>3. Drop(conn.buffer, n) \in Seq(Input)
      BY <1>1, <3>2, BytesSplit
    <3> QED
      BY <3>1, <3>3, InputChanged, <1>1
  <2>3. CASE Len(conn.inbound) # 0 /\ Len(conn.inbound) > n
    <3>1. Decoded(conn, n) = [conn EXCEPT !.inbound = Drop(conn.inbound, n)]
      BY <2>1, <2>3 DEF ShiftN
    <3>2. n \in 0..Len(conn.inbound)
      BY <1>1, <2>3
    <3>3. Drop(conn.inbound, n) \in Seq(Input)
      BY <1>1, <3>2, BytesSplit
    <3> QED
      BY <3>1, <3>3, InputChanged, <1>1
  <2>4. CASE Len(conn.inbound) # 0 /\ ~(Len(conn.inbound) > n)
    <3>1. Decoded(conn, n) = [conn EXCEPT !.buffer = Drop(conn.buffer, n - Len(conn.inbound))]
      BY <2>1, <2>4 DEF ShiftN
    <3>2. n - Len(conn.inbound) \in 0..Len(conn.buffer)
      <4> DEFINE l == Len(conn.inbound)
                 m == Len(conn.buffer)
      <4>1. n \in 0..(l + m) /\ l \in Nat /\ m \in Nat /\ ~(l > n)
        BY <1>1, <1>2, <2>4
      <4> HIDE DEF l, m
      <4>2. n - l \in 0..m
        BY <4>1
      <4> QED
        BY <4>2 DEF l, m
    <3>3. Drop(conn.buffer, n - Len(conn.inbound)) \in Seq(Input)
      BY <1>1, <3>2, BytesSplit
    <3> QED
      BY <3>1, <3>3, InputChanged, <1>1
  <2> QED
    BY <2>2, <2>3, <2>4
<1> QED
  BY <1>3, <1>4

LEMMA EventTaken ==
  ASSUME Rest, NEW e, Event(e)
  PROVE  batch' \in Seq({"read", "write", "sock"}) /\ pc = "events"
BY DEF Rest, Event

LEMMA JobTaken ==
  ASSUME Rest, NEW calls, NextJob(calls)
  PROVE  jobs' \in Seq(Calls) /\ pc = "jobs"
BY DEF Rest, NextJob

LEMMA ReadEventStep ==
  ASSUME Rest, Sound(conn), ReadEvent
  PROVE  (\E c : Moves(c)) /\ Rest' /\ Fresh'
<1>1. /\ batch' \in Seq({"read", "write", "sock"}) /\ pc = "events"
      /\ UNCHANGED <<jobs, called, sent, eof, reset, got, consumed, issued>>
  BY EventTaken DEF ReadEvent
<1>2. CASE conn.fd = "open" /\ conn.outbound = <<>> /\ ~reset /\ sock # <<>> /\ pc' = "frames"
           /\ \E n \in {IF Len(sock) < Packet THEN Len(sock) ELSE Packet} :
                /\ conn' = [conn EXCEPT !.buffer = SubSeq(sock, 1, n)]
                /\ sock' = Drop(sock, n)
  <2> DEFINE n == IF Len(sock) < Packet THEN Len(sock) ELSE Packet
  <2>1. n \in 0..Len(sock)
    <3>1. sock \in Seq(Input) /\ Len(sock) \in Nat /\ Packet \in Nat
      BY LenProperties, ConnectionAssumption DEF Rest
    <3> QED
      BY <3>1
  <2>2. conn' = [conn EXCEPT !.buffer = SubSeq(sock, 1, n)] /\ sock' = Drop(sock, n)
    BY <1>2
  <2> HIDE DEF n
  <2>3. SubSeq(sock, 1, n) \in Seq(Input) /\ Drop(sock, n) \in Seq(Input)
    BY <2>1, BytesSplit DEF Rest
  <2>4. SameOutput(conn')
    BY <2>2, <2>3, InputChanged
  <2>5. After(conn', <<>>, conn')
    BY <2>4, AfterNothing DEF SameOutput
  <2>6. Moves(conn')
    BY <1>1, <2>4, <2>5, StillProgress DEF Moves
  <2>7. Rest'
    BY <1>1, <1>2, <2>2, <2>3 DEF Rest, Places
  <2>8. Fresh'
    BY <1>2 DEF Fresh
  <2> QED
    BY <2>6, <2>7, <2>8
<1>3. CASE sock' = sock /\ \E o \in closeFd(conn) : Return(o, "events")
  <2>1. PICK o \in closeFd(conn) : Return(o, "events")
    BY <1>3
  <2>2. After(conn, <<>>, o.conn) /\ o.ret \in Returns
    BY CloseFdAfter
  <2>3. conn' = o.conn /\ pc' \in Places /\ pc' # "accepted"
    BY <2>1, <2>2, ReturnPlace DEF Places
  <2>4. Moves(conn)
    BY <1>1, <2>2, <2>3, StillProgress DEF Moves, SameOutput
  <2> QED
    BY <1>1, <1>3, <2>3, <2>4 DEF Rest, Fresh
<1>4. CASE UNCHANGED <<conn, pc, sock>>
  <2>1. Moves(conn)
    BY <1>1, <1>4, StillMoves
  <2> QED
    BY <1>1, <1>4, <2>1 DEF Rest, Fresh
<1> QED
  BY <1>2, <1>3, <1>4 DEF ReadEvent

\* A call of the loop that writes nothing.
LEMMA QuietStep ==
  ASSUME Rest, Sound(conn), NEW o, After(conn, <<>>, o.conn), o.ret \in Returns,
         NEW place \in Places \ {"accepted", "frames"}, Return(o, place), UNCHANGED <<issued, got>>
  PROVE  Moves(conn) /\ pc' \in Places \ {"accepted", "frames"}
<1>1. conn' = o.conn /\ pc' \in Places \ {"accepted", "frames"}
  BY ReturnPlace DEF Places
<1> QED
  BY <1>1, StillProgress DEF Moves, SameOutput

LEMMA WriteEventStep ==
  ASSUME Rest, Sound(conn), WriteEvent
  PROVE  Quiet /\ Rest' /\ Fresh'
<1>1. /\ batch' \in Seq({"read", "write", "sock"}) /\ pc = "events"
      /\ UNCHANGED <<jobs, called, sent, sock, eof, reset, got, consumed, issued>>
  BY EventTaken DEF WriteEvent, peerVars
<1>2. Moves(conn) /\ pc' \in Places \ {"accepted", "frames"}
  <2>1. CASE conn.fd = "open" /\ conn.outbound # <<>>
    <3>1. PICK o \in loopWrite(conn) : Return(o, "events")
      BY <2>1 DEF WriteEvent
    <3>2. After(conn, <<>>, o.conn) /\ o.ret \in Returns
      BY <2>1, LoopWriteAfter
    <3> QED
      BY <1>1, <3>1, <3>2, QuietStep DEF Places
  <2>2. CASE ~(conn.fd = "open" /\ conn.outbound # <<>>)
    <3>1. UNCHANGED <<conn, pc>>
      BY <2>2 DEF WriteEvent
    <3> QED
      BY <1>1, <3>1, StillMoves DEF Places
  <2> QED
    BY <2>1, <2>2
<1> QED
  BY <1>1, <1>2 DEF Quiet, Rest, Fresh

LEMMA SockEventStep ==
  ASSUME Rest, Sound(conn), SockEvent
  PROVE  Quiet /\ Rest' /\ Fresh'
<1>1. /\ batch' \in Seq({"read", "write", "sock"}) /\ pc = "events"
      /\ UNCHANGED <<jobs, called, sent, sock, eof, reset, got, consumed, issued>>
  BY EventTaken DEF SockEvent, peerVars
<1>2. Moves(conn) /\ pc' \in Places \ {"accepted", "frames"}
  <2>1. CASE conn.fd = "open"
    <3>1. PICK o \in loopCloseConn(conn) : Return(o, "events")
      BY <2>1 DEF SockEvent
    <3>2. After(conn, <<>>, o.conn) /\ o.ret \in Returns
      BY LoopCloseConnAfter
    <3> QED
      BY <1>1, <3>1, <3>2, QuietStep DEF Places
  <2>2. CASE conn.fd # "open"
    <3>1. UNCHANGED <<conn, pc>>
      BY <2>2 DEF SockEvent
    <3> QED
      BY <1>1, <3>1, StillMoves DEF Places
  <2> QED
    BY <2>1, <2>2
<1> QED
  BY <1>1, <1>2 DEF Quiet, Rest, Fresh

LEMMA CloseJobStep ==
  ASSUME Rest, Sound(conn), CloseJob
  PROVE  Quiet /\ Rest' /\ Fresh'
<1>1. /\ jobs' \in Seq(Calls) /\ pc = "jobs"
      /\ UNCHANGED <<batch, called, sent, sock, eof, reset, got, consumed, issued>>
  BY JobTaken DEF CloseJob, peerVars
<1>2. Moves(conn) /\ pc' \in Places \ {"accepted", "frames"}
  <2>1. PICK o \in loopCloseConn(conn) : Return(o, "jobs")
    BY DEF CloseJob
  <2>2. After(conn, <<>>, o.conn) /\ o.ret \in Returns
    BY LoopCloseConnAfter
  <2> QED
    BY <1>1, <2>1, <2>2, QuietStep DEF Places
<1> QED
  BY <1>1, <1>2 DEF Quiet, Rest, Fresh

LEMMA CloseAllConnsStep ==
  ASSUME Rest, Sound(conn), closeAllConns
  PROVE  Quiet /\ Rest' /\ Fresh'
<1>1. /\ pc = "exit" /\ pc' \in {"returned", "panicked"}
      /\ UNCHANGED <<batch, jobs, called, sent, sock, eof, reset, got, consumed, issued>>
  BY DEF closeAllConns, peerVars
<1>2. Moves(conn)
  <2>1. CASE conn.fd = "open"
    <3>1. PICK o \in loopCloseConn(conn) : conn' = o.conn
      BY <2>1 DEF closeAllConns
    <3>2. After(conn, <<>>, o.conn)
      BY LoopCloseConnAfter
    <3> QED
      BY <1>1, <3>1, <3>2, StillProgress DEF Moves, SameOutput
  <2>2. CASE conn.fd # "open"
    <3>1. conn' = conn
      BY <2>2 DEF closeAllConns, Outcome
    <3> QED
      BY <1>1, <3>1, StillMoves
  <2> QED
    BY <2>1, <2>2
<1> QED
  BY <1>1, <1>2 DEF Quiet, Rest, Fresh, Places

\* A call of the loop that writes the numbers s.
LEMMA ReplyStep ==
  ASSUME Rest, NEW c, SameOutput(c), NEW s \in Replies, NEW o, After(c, s, o.conn),
         o.ret \in Returns, NEW place \in Places \ {"accepted"}, Return(o, place),
         issued' = issued + Len(s), got' = got
  PROVE  /\ Moves(c) /\ issued' \in 0..MaxIssued /\ conn' = o.conn
         /\ pc' \in Places \ {"accepted"} /\ pc' \in {place, "exit", "panicked"}
<1>1. conn' = o.conn /\ pc' \in Places \ {"accepted"} /\ pc' \in {place, "exit", "panicked"}
  BY ReturnPlace DEF Places
<1>2. issued' \in 0..MaxIssued
  BY ReplyNumbers DEF Rest
<1> QED
  BY <1>1, <1>2, ReplyProgress DEF Moves

LEMMA WriteJobStep ==
  ASSUME Rest, Sound(conn), WriteJob
  PROVE  Quiet /\ Rest' /\ Fresh'
<1>1. /\ jobs' \in Seq(Calls) /\ pc = "jobs"
      /\ UNCHANGED <<batch, called, sent, sock, eof, reset, got, consumed>>
  BY JobTaken DEF WriteJob, peerVars
<1>2. PICK s \in Replies :
        IF conn.opened
          THEN /\ \E o \in Wrote(conn, s) : Return(o, "jobs")
               /\ issued' = issued + Len(s)
          ELSE UNCHANGED <<conn, pc, issued>>
  BY DEF WriteJob
<1>3. Moves(conn) /\ issued' \in 0..MaxIssued /\ pc' \in Places \ {"accepted", "frames"}
  <2>1. CASE conn.opened
    <3>1. PICK o \in Wrote(conn, s) : Return(o, "jobs")
      BY <1>2, <2>1
    <3>2. s \in Seq(Written)
      BY ReplyNumbers DEF Rest
    <3>3. After(conn, s, o.conn) /\ o.ret \in Returns
      BY <3>2, WroteAfter
    <3>4. SameOutput(conn)
      BY DEF SameOutput
    <3> QED
      BY <1>1, <1>2, <2>1, <3>1, <3>3, <3>4, ReplyStep DEF Places
  <2>2. CASE ~conn.opened
    BY <1>1, <1>2, <2>2, StillMoves DEF Places, Rest
  <2> QED
    BY <2>1, <2>2
<1> QED
  BY <1>1, <1>3 DEF Quiet, Rest, Fresh

LEMMA WakeJobStep ==
  ASSUME Rest, Sound(conn), WakeJob
  PROVE  Quiet /\ Rest' /\ Fresh'
<1>1. /\ jobs' \in Seq(Calls) /\ pc = "jobs"
      /\ UNCHANGED <<batch, called, sent, sock, eof, reset, got, consumed>>
  BY JobTaken DEF WakeJob, peerVars
<1>2. PICK s \in Replies, action \in Actions :
        /\ \E w \in Wrote(conn, s) :
             \E o \in IF w.ret = "panic" THEN {w} ELSE handleAction(w.conn, action) :
               Return(o, "jobs")
        /\ issued' = issued + Len(s)
  BY DEF WakeJob
<1>3. PICK w \in Wrote(conn, s) :
        \E o \in IF w.ret = "panic" THEN {w} ELSE handleAction(w.conn, action) :
          Return(o, "jobs")
  BY <1>2
<1>4. PICK o \in IF w.ret = "panic" THEN {w} ELSE handleAction(w.conn, action) :
        Return(o, "jobs")
  BY <1>3
<1>5. s \in Seq(Written)
  BY ReplyNumbers DEF Rest
<1>6. After(conn, s, o.conn) /\ o.ret \in Returns
  BY <1>5, ReactAfter
<1>7. SameOutput(conn)
  BY DEF SameOutput
<1>8. Moves(conn) /\ issued' \in 0..MaxIssued /\ pc' \in Places \ {"accepted", "frames"}
  BY <1>1, <1>2, <1>4, <1>6, <1>7, ReplyStep DEF Places
<1> QED
  BY <1>1, <1>8 DEF Quiet, Rest, Fresh

\* The frame of n bytes, and what React does with it.
LEMMA FrameOutcome ==
  ASSUME Rest, Sound(conn), Frame, FrameLength(ReadAll(conn)) # 0
  PROVE  LET n == FrameLength(ReadAll(conn))
         IN  /\ n \in 0..Len(ReadAll(conn)) /\ ReadAll(conn) \in Seq(Input)
             /\ Moves(Decoded(conn, n)) /\ issued' \in 0..MaxIssued
             /\ pc' \in Places \ {"accepted"} /\ (pc' = "frames" => conn'.opened)
             /\ consumed' = consumed \o SubSeq(ReadAll(conn), 1, n)
             /\ UNCHANGED <<batch, jobs, called, sent, sock, eof, reset, got>>
<1> DEFINE buf == ReadAll(conn)
           n == FrameLength(buf)
           d == Decoded(conn, n)
<1>1. UNCHANGED <<batch, jobs, called, sent, sock, eof, reset, got>>
  BY DEF Frame, peerVars
<1>2. buf \in Seq(Input)
  BY ConcatProperties DEF Sound, Conns, ReadAll
<1>3. n \in 0..Len(buf)
  BY <1>2, FrameRange
<1>4. /\ \E s \in Replies, action \in Actions :
           /\ \E w \in Wrote(d, s) :
                \E o \in IF w.ret = "panic" THEN {w} ELSE handleAction(w.conn, action) :
                  Return(o, IF action = "None" /\ o.conn.opened THEN "frames" ELSE "events")
           /\ issued' = issued + Len(s)
      /\ consumed' = consumed \o SubSeq(buf, 1, n)
  BY DEF Frame
<1>5. SameOutput(d) /\ Sound(d)
  BY <1>3, DecodedSame DEF SameOutput
<1> HIDE DEF d
<1>6. PICK s \in Replies, action \in Actions :
        /\ \E w \in Wrote(d, s) :
             \E o \in IF w.ret = "panic" THEN {w} ELSE handleAction(w.conn, action) :
               Return(o, IF action = "None" /\ o.conn.opened THEN "frames" ELSE "events")
        /\ issued' = issued + Len(s)
  BY <1>4
<1>7. PICK w \in Wrote(d, s) :
        \E o \in IF w.ret = "panic" THEN {w} ELSE handleAction(w.conn, action) :
          Return(o, IF action = "None" /\ o.conn.opened THEN "frames" ELSE "events")
  BY <1>6
<1>8. PICK o \in IF w.ret = "panic" THEN {w} ELSE handleAction(w.conn, action) :
        Return(o, IF action = "None" /\ o.conn.opened THEN "frames" ELSE "events")
  BY <1>7
<1>9. s \in Seq(Written)
  BY ReplyNumbers DEF Rest
<1>10. After(d, s, o.conn) /\ o.ret \in Returns
  BY <1>5, <1>9, ReactAfter
<1>11. PICK place \in Places \ {"accepted"} :
         Return(o, place) /\ (place = "frames" => o.conn.opened)
  BY <1>8 DEF Places
<1>12. /\ Moves(d) /\ issued' \in 0..MaxIssued /\ conn' = o.conn
       /\ pc' \in Places \ {"accepted"} /\ pc' \in {place, "exit", "panicked"}
  BY <1>1, <1>5, <1>6, <1>10, <1>11, ReplyStep
<1>13. pc' = "frames" => conn'.opened
  BY <1>11, <1>12
<1> QED
  BY <1>1, <1>2, <1>3, <1>4, <1>12, <1>13 DEF d

LEMMA FrameStep ==
  ASSUME Rest, Sound(conn), Frame
  PROVE  (\E c : Moves(c)) /\ Rest' /\ Fresh'
<1> DEFINE buf == ReadAll(conn)
           n == FrameLength(buf)
<1>1. UNCHANGED <<batch, jobs, called, sent, sock, eof, reset, got>>
  BY DEF Frame, peerVars
<1>2. buf \in Seq(Input)
  BY ConcatProperties DEF Sound, Conns, ReadAll
<1>3. CASE n = 0
  <2>1. /\ conn' = [conn EXCEPT !.inbound = buf]
        /\ pc' = "events" /\ UNCHANGED <<consumed, issued>>
    BY <1>3 DEF Frame, ReadAll
  <2>2. SameOutput(conn')
    BY <1>2, <2>1, InputChanged
  <2>3. After(conn', <<>>, conn')
    BY <2>2, AfterNothing DEF SameOutput
  <2>4. Moves(conn')
    BY <1>1, <2>1, <2>2, <2>3, StillProgress DEF Moves
  <2> QED
    BY <1>1, <2>1, <2>4 DEF Rest, Fresh, Places
<1>4. CASE n # 0
  <2>1. /\ n \in 0..Len(buf)
        /\ Moves(Decoded(conn, n)) /\ issued' \in 0..MaxIssued
        /\ pc' \in Places \ {"accepted"}
        /\ consumed' = consumed \o SubSeq(buf, 1, n)
    BY <1>4, FrameOutcome
  <2>2. SubSeq(buf, 1, n) \in Seq(Input)
    BY <1>2, <2>1, BytesSplit
  <2>3. consumed' \in Seq(Input)
    BY <2>1, <2>2, ConcatProperties DEF Rest
  <2> QED
    BY <1>1, <2>1, <2>3 DEF Rest, Fresh
<1> QED
  BY <1>3, <1>4

LEMMA OtherLoopStep ==
  ASSUME Rest, Sound(conn), EventsDone \/ JobsDone
  PROVE  Quiet /\ Rest' /\ Fresh'
<1>1. UNCHANGED <<conn, issued, got>> /\ pc' \in Places \ {"accepted", "frames"}
  BY DEF EventsDone, JobsDone, peerVars, Places
<1> QED
  BY <1>1, StillMoves DEF EventsDone, JobsDone, peerVars, Quiet, Rest, Fresh

LEMMA CallStep ==
  ASSUME Rest, Sound(conn), Fresh, NEW j \in Calls, Call(j)
  PROVE  Moves(conn) /\ Rest' /\ Fresh'
<1>1. UNCHANGED <<conn, issued, got>>
  BY DEF Call, peerVars
<1>2. jobs' \in Seq(Calls) /\ called' \subseteq Calls
  BY DEF Call, Rest
<1> QED
  BY <1>1, <1>2, StillMoves DEF Call, peerVars, Rest, Fresh

LEMMA SendStep ==
  ASSUME Rest, Sound(conn), Fresh, Send
  PROVE  Moves(conn) /\ Rest' /\ Fresh'
<1>1. UNCHANGED <<conn, issued, got>>
  BY DEF Send
<1>2. sent' \in 0..MaxSent /\ sent + 1 \in Input
  BY ConnectionAssumption DEF Send, Rest, Input
<1>3. sock' \in Seq(Input)
  BY <1>2 DEF Send, Rest
<1> QED
  BY <1>1, <1>2, <1>3, StillMoves DEF Send, Rest, Fresh

LEMMA FinishAbortStep ==
  ASSUME Rest, Sound(conn), Fresh, Finish \/ Abort
  PROVE  Moves(conn) /\ Rest' /\ Fresh'
<1>1. UNCHANGED <<conn, issued, got>>
  BY DEF Finish, Abort
<1> QED
  BY <1>1, StillMoves DEF Finish, Abort, Rest, Fresh

LEMMA ReceiveStep ==
  ASSUME Rest, Sound(conn), Fresh, Output, Receive
  PROVE  Sound(conn') /\ Rest' /\ Fresh' /\ Output'
<1>1. /\ conn.kernel # <<>> /\ conn.kernel \in Seq(Written) /\ got \in Seq(Written)
      /\ got' = Append(got, Head(conn.kernel))
      /\ conn \in Conns
      /\ conn' = [conn EXCEPT !.kernel = Tail(conn.kernel)]
      /\ UNCHANGED <<pc, batch, jobs, called, sent, sock, eof, reset, consumed, issued>>
  BY DEF Receive, Sound, Conns, Rest
<1>2. /\ Head(conn.kernel) \in Written /\ Tail(conn.kernel) \in Seq(Written)
      /\ Len(Tail(conn.kernel)) = Len(conn.kernel) - 1 /\ Len(conn.kernel) \in Nat
  BY <1>1, LenProperties, HeadTailProperties
<1>3. got' \in Seq(Written) /\ got' \o Tail(conn.kernel) = got \o conn.kernel
  BY <1>1, <1>2, HeadMoved, AppendProperties
<1>4. /\ conn' \in Conns /\ conn'.kernel = Tail(conn.kernel) /\ conn'.fd = conn.fd
      /\ conn'.released = conn.released /\ conn'.opened = conn.opened
      /\ conn'.closes = conn.closes /\ conn'.reused = conn.reused
      /\ conn'.writing = conn.writing
      /\ conn'.outbound = conn.outbound /\ conn'.inbound = conn.inbound
      /\ conn'.buffer = conn.buffer
  BY <1>1, <1>2 DEF Conns
<1>5. Len(conn'.kernel) <= SendBuffer
  <2>1. Len(conn.kernel) <= SendBuffer /\ SendBuffer \in Nat
    BY ConnectionAssumption DEF Sound
  <2> QED
    BY <1>2, <1>4, <2>1
<1>6. Sound(conn')
  BY <1>4, <1>5 DEF Sound
<1>7. Rest' /\ Fresh'
  BY <1>1, <1>3, <1>4 DEF Rest, Fresh
<1>8. Output'
  BY <1>1, <1>3, <1>4, Zenon DEF Output
<1> QED
  BY <1>6, <1>7, <1>8

LEMMA InitInv == Init => IInv
<1> SUFFICES ASSUME Init PROVE IInv
  OBVIOUS
<1>1. /\ <<>> \in Seq(Input) /\ <<>> \in Seq(Written) /\ <<>> \in Seq(Calls)
      /\ <<>> \in Seq({"read", "write", "sock"})
  BY EmptySeq
<1>2. MaxSent \in Nat /\ MaxIssued \in Nat /\ SendBuffer \in Nat
  BY ConnectionAssumption
<1>3. conn \in Conns /\ conn.kernel = <<>> /\ conn.outbound = <<>> /\ conn.fd = "open"
      /\ conn.released = FALSE /\ conn.writing = FALSE /\ conn.closes = 0
  BY <1>1 DEF Init, newTCPConn, Conns
<1>4. Sound(conn)
  <2>1. Len(conn.kernel) = 0
    BY <1>3
  <2> QED
    BY <1>2, <1>3, <2>1 DEF Sound
<1>5. Rest
  <2>1. pc \in Places /\ eof \in BOOLEAN /\ reset \in BOOLEAN /\ called \subseteq Calls
    BY DEF Init, Places
  <2>2. /\ batch \in Seq({"read", "write", "sock"}) /\ jobs \in Seq(Calls)
        /\ sock \in Seq(Input) /\ got \in Seq(Written) /\ consumed \in Seq(Input)
    BY <1>1, Zenon DEF Init
  <2>3. sent \in 0..MaxSent /\ issued \in 0..MaxIssued
    BY <1>2 DEF Init
  <2> QED
    BY <2>1, <2>2, <2>3 DEF Rest
<1>6. Numbers(1, 0) = <<>>
  <2>1. Numbers(1, 0) \in Seq(1..0) /\ Len(Numbers(1, 0)) = 0
    BY FirstNumbers
  <2> QED
    BY <2>1, EmptyIffLen
<1>7. <<>> \o <<>> = <<>>
  BY <1>1, ConcatEmptySeq
<1>8. Output
  BY <1>1, <1>3, <1>6, <1>7 DEF Output, Init
<1> QED
  BY <1>3, <1>4, <1>5, <1>8 DEF IInv, Fresh

LEMMA StepInv == IInv /\ [Next]_vars => IInv'
<1> SUFFICES ASSUME IInv, [Next]_vars PROVE IInv'
  OBVIOUS
<1>1. Sound(conn) /\ Rest /\ Fresh /\ Output
  BY DEF IInv
<1>2. ASSUME \E c : Moves(c), Rest', Fresh'
      PROVE  IInv'
  <2>1. PICK c : Moves(c)
    BY <1>2
  <2>2. Sound(conn') /\ Output'
    BY <1>1, <2>1, OutputKept DEF Moves
  <2> QED
    BY <1>2, <2>2 DEF IInv
<1>3. CASE loopOpen
  BY <1>1, <1>2, <1>3, LoopOpenStep DEF Quiet
<1>4. CASE Kevent
  BY <1>1, <1>2, <1>4, KeventStep DEF Quiet
<1>5. CASE ReadEvent
  BY <1>1, <1>2, <1>5, ReadEventStep
<1>6. CASE Frame
  BY <1>1, <1>2, <1>6, FrameStep
<1>7. CASE WriteEvent
  BY <1>1, <1>2, <1>7, WriteEventStep DEF Quiet
<1>8. CASE SockEvent
  BY <1>1, <1>2, <1>8, SockEventStep DEF Quiet
<1>9. CASE EventsDone \/ JobsDone
  BY <1>1, <1>2, <1>9, OtherLoopStep DEF Quiet
<1>10. CASE WriteJob
  BY <1>1, <1>2, <1>10, WriteJobStep DEF Quiet
<1>11. CASE WakeJob
  BY <1>1, <1>2, <1>11, WakeJobStep DEF Quiet
<1>12. CASE CloseJob
  BY <1>1, <1>2, <1>12, CloseJobStep DEF Quiet
<1>13. CASE closeAllConns
  BY <1>1, <1>2, <1>13, CloseAllConnsStep DEF Quiet
<1>14. CASE \E j \in Calls : Call(j)
  BY <1>1, <1>2, <1>14, CallStep
<1>15. CASE Send
  BY <1>1, <1>2, <1>15, SendStep
<1>16. CASE Receive
  BY <1>1, <1>16, ReceiveStep DEF IInv
<1>17. CASE Finish \/ Abort
  BY <1>1, <1>2, <1>17, FinishAbortStep
<1>18. CASE UNCHANGED vars
  BY <1>18 DEF vars, peerVars, IInv, Sound, Rest, Fresh, Output
<1> QED
  BY <1>3, <1>4, <1>5, <1>6, <1>7, <1>8, <1>9, <1>10, <1>11, <1>12, <1>13, <1>14, <1>15,
     <1>16, <1>17, <1>18 DEF Next, Loop, Peer

LEMMA Invariance == Spec => []IInv
<1> QED
  BY InitInv, StepInv, PTL DEF Spec

\* The buffers, the kernel's queue and the socket hold what they may, and a
\* connection that releaseTCP has released is neither open nor opened
\* (connection_unix.go:24-74).
THEOREM TypeCorrect == Spec => []TypeOK
BY Invariance, InvImplies, PTL

\* What the peer receives is what OnOpened, React and AsyncWrite wrote, in that
\* order and with no gap, however the kernel cuts the writes and wherever
\* outboundBuffer splits (connection_unix.go:76-111, eventloop_unix.go:62-92).
THEOREM OutputOrdered == Spec => []OutputInOrder
BY Invariance, InvImplies, PTL

\* The write event is registered exactly while outboundBuffer has data, whoever
\* filled it: open, write or an earlier loopWrite (connection_unix.go:101, 109,
\* eventloop_unix.go:88, 177).
THEOREM WriteEventRegistered == Spec => []WriteRegistered
BY Invariance, InvImplies, PTL

\* On all the paths that close a connection, OnClosed is called when its socket
\* is closed, and again only if a later close met the next owner of its number,
\* the outer close of a flush that failed included (eventloop_unix.go:35-50).
THEOREM ClosesOnce == Spec => []ClosedOnce
BY Invariance, InvImplies, PTL

-----------------------------------------------------------------------------
(* What is received.                                                       *)

\* The bytes that have been read for a frame that has not been cut yet.
Uncut == conn.inbound \o (IF pc = "frames" THEN conn.buffer ELSE <<>>)

\* InputInOrder, with what the server will never read in the place of the
\* socket's bytes when the socket is closed.
InputInv ==
  /\ \E r \in Seq(Input) : Cat(consumed, r) = Numbers(1, sent)
  /\ conn.fd = "open" => Cat(Cat(consumed, Uncut), sock) = Numbers(1, sent)
  /\ pc = "frames" => \E r \in Seq(Input) : Cat(Cat(consumed, Uncut), r) = Numbers(1, sent)

LEMMA CatInput ==
  \A s, t, u \in Seq(Input) : Cat(s, t) \in Seq(Input) /\ Cat(Cat(s, t), u) = Cat(s, Cat(t, u))
<1> TAKE s, t, u \in Seq(Input)
<1>1. s \o t \in Seq(Input)
  BY ConcatProperties
<1>2. (s \o t) \o u = s \o (t \o u)
  BY ConcatAssociative
<1> QED
  BY <1>1, <1>2 DEF Cat

LEMMA CatEmpty ==
  /\ <<>> \in Seq(Input) /\ Cat(<<>>, <<>>) = <<>>
  /\ \A s \in Seq(Input) : Cat(s, <<>>) = s
<1>1. <<>> \in Seq(Input)
  BY EmptySeq
<1>2. \A s \in Seq(Input) : Cat(s, <<>>) = s
  BY ConcatEmptySeq DEF Cat
<1> QED
  BY <1>1, <1>2, Zenon

LEMMA InputTypes ==
  ASSUME Rest, Sound(conn)
  PROVE  /\ consumed \in Seq(Input) /\ sock \in Seq(Input) /\ sent \in 0..MaxSent
         /\ conn.inbound \in Seq(Input) /\ conn.buffer \in Seq(Input)
         /\ Uncut \in Seq(Input) /\ Numbers(1, sent) \in Seq(Input)
<1>1. /\ consumed \in Seq(Input) /\ sock \in Seq(Input) /\ sent \in 0..MaxSent
      /\ conn.inbound \in Seq(Input) /\ conn.buffer \in Seq(Input)
  BY DEF Rest, Sound, Conns
<1>2. Uncut \in Seq(Input)
  <2>1. /\ Uncut = Cat(conn.inbound, IF pc = "frames" THEN conn.buffer ELSE <<>>)
        /\ (IF pc = "frames" THEN conn.buffer ELSE <<>>) \in Seq(Input)
    BY <1>1, CatEmpty DEF Uncut, Cat
  <2> QED
    BY <1>1, <2>1, CatInput
<1>3. Numbers(1, sent) \in Seq(Input)
  <2>1. sent \in Nat /\ MaxSent \in Nat /\ sent <= MaxSent
    BY <1>1, ConnectionAssumption
  <2> QED
    BY <2>1, FirstNumbers DEF Input
<1> QED
  BY <1>1, <1>2, <1>3

LEMMA InputImplies ==
  ASSUME IInv, InputInv
  PROVE  InputInOrder
<1>1. /\ consumed \in Seq(Input) /\ conn.inbound \in Seq(Input) /\ conn.buffer \in Seq(Input)
      /\ Uncut \in Seq(Input)
  BY InputTypes DEF IInv
<1>2. PICK r \in Seq(Input) : consumed \o r = Numbers(1, sent)
  BY DEF InputInv, Cat
<1>3. IsPrefix(consumed, Numbers(1, sent))
  BY <1>1, <1>2, PrefixOfConcat
<1>4. (consumed \o conn.inbound) \o (IF pc = "frames" THEN conn.buffer ELSE <<>>)
        = Cat(consumed, Uncut)
  <2> DEFINE b == IF pc = "frames" THEN conn.buffer ELSE <<>>
  <2>1. b \in Seq(Input)
    BY <1>1, CatEmpty
  <2>2. Uncut = Cat(conn.inbound, b)
    BY DEF Uncut, Cat
  <2> HIDE DEF b
  <2>3. Cat(Cat(consumed, conn.inbound), b) = Cat(consumed, Cat(conn.inbound, b))
    BY <1>1, <2>1, CatInput
  <2>4. (consumed \o conn.inbound) \o b = Cat(consumed, Uncut)
    BY <2>2, <2>3, Zenon DEF Cat
  <2> QED
    BY <2>4 DEF b
<1>5. conn.fd = "open" =>
        ((consumed \o conn.inbound) \o (IF pc = "frames" THEN conn.buffer ELSE <<>>)) \o sock
          = Numbers(1, sent)
  BY <1>4, Zenon DEF InputInv, Cat
<1> QED
  BY <1>3, <1>5 DEF InputInOrder, GivenInOrder

LEMMA InputInit == Init => InputInv
<1> SUFFICES ASSUME Init PROVE InputInv
  OBVIOUS
<1>1. Rest /\ Sound(conn)
  BY InitInv DEF IInv
<1>2. consumed = <<>> /\ sock = <<>> /\ sent = 0 /\ pc = "accepted" /\ conn.inbound = <<>>
  BY DEF Init, newTCPConn
<1>3. Numbers(1, 0) = <<>>
  <2>1. Numbers(1, 0) \in Seq(1..0) /\ Len(Numbers(1, 0)) = 0
    BY FirstNumbers
  <2> QED
    BY <2>1, EmptyIffLen
<1>4. <<>> \in Seq(Input) /\ Cat(<<>>, <<>>) = <<>>
  BY CatEmpty
<1>5. Uncut = Cat(<<>>, <<>>)
  BY <1>2 DEF Uncut, Cat
<1> QED
  BY <1>2, <1>3, <1>4, <1>5 DEF InputInv

\* A step that does not read and gives nothing to React.
LEMMA InputKept ==
  ASSUME Rest, Sound(conn), Sound(conn'), InputInv, UNCHANGED <<consumed, sock, sent>>,
         \/ Quiet
         \/ UNCHANGED pc /\ conn'.fd = conn.fd /\ conn'.inbound = conn.inbound
            /\ conn'.buffer = conn.buffer
  PROVE  InputInv'
<1>1. CASE UNCHANGED pc /\ conn'.fd = conn.fd /\ conn'.inbound = conn.inbound
           /\ conn'.buffer = conn.buffer
  <2>1. Uncut' = Uncut
    BY <1>1 DEF Uncut
  <2> QED
    BY <1>1, <2>1 DEF InputInv
<1>2. CASE Quiet
  <2>1. PICK s \in Seq(Written) : After(conn, s, conn')
    BY <1>2 DEF Quiet, Moves, Progress
  <2>2. pc # "frames" /\ pc' # "frames"
    BY <1>2 DEF Quiet
  <2>3. conn'.fd = "open" => conn.fd = "open" /\ conn'.inbound = conn.inbound
    BY <2>1 DEF After, Sound
  <2>4. conn'.fd = "open" => Uncut' = Uncut
    BY <2>2, <2>3, Zenon DEF Uncut
  <2> QED
    BY <2>2, <2>3, <2>4 DEF InputInv
<1> QED
  BY <1>1, <1>2

LEMMA InputReadEvent ==
  ASSUME Rest, Sound(conn), InputInv, ReadEvent, Rest', Sound(conn')
  PROVE  InputInv'
<1>1. pc = "events" /\ UNCHANGED <<sent, consumed>>
  BY DEF ReadEvent, Event
<1>2. CASE conn.fd = "open" /\ pc' = "frames"
           /\ \E n \in {IF Len(sock) < Packet THEN Len(sock) ELSE Packet} :
                /\ conn' = [conn EXCEPT !.buffer = SubSeq(sock, 1, n)]
                /\ sock' = Drop(sock, n)
  <2> DEFINE n == IF Len(sock) < Packet THEN Len(sock) ELSE Packet
             p == SubSeq(sock, 1, n)
             q == Drop(sock, n)
  <2>1. n \in 0..Len(sock)
    <3>1. sock \in Seq(Input) /\ Len(sock) \in Nat /\ Packet \in Nat
      BY LenProperties, ConnectionAssumption DEF Rest
    <3> QED
      BY <3>1
  <2>2. conn' = [conn EXCEPT !.buffer = p] /\ sock' = q
    BY <1>2
  <2> HIDE DEF n
  <2>3. /\ p \in Seq(Input) /\ q \in Seq(Input) /\ Cat(p, q) = sock
    BY <2>1, BytesSplit DEF Rest, Cat
  <2> HIDE DEF p, q
  <2>4. conn'.inbound = conn.inbound /\ conn'.buffer = p
    BY <2>2 DEF Sound, Conns
  <2>5. /\ consumed \in Seq(Input) /\ sock \in Seq(Input) /\ conn.inbound \in Seq(Input)
    BY InputTypes
  <2>6. Uncut = conn.inbound
    <3>1. Uncut = Cat(conn.inbound, <<>>)
      BY <1>1 DEF Uncut, Cat
    <3> QED
      BY <2>5, <3>1, CatEmpty
  <2>7. Uncut' = Cat(conn.inbound, p)
    BY <1>2, <2>4 DEF Uncut, Cat
  <2>8. Cat(Cat(consumed, Uncut'), q) = Numbers(1, sent)
    <3> DEFINE c == consumed
               i == conn.inbound
               k == sock
               m == Numbers(1, sent)
    <3>1. Cat(Cat(c, i), k) = m /\ Cat(p, q) = k /\ c \in Seq(Input) /\ i \in Seq(Input)
      BY <1>2, <2>3, <2>5, <2>6 DEF InputInv
    <3> HIDE DEF c, i, k, m
    <3>2. Cat(Cat(c, i), Cat(p, q)) = m
      BY <3>1
    <3>3. Cat(c, i) \in Seq(Input) /\ Cat(Cat(c, i), p) = Cat(c, Cat(i, p))
      BY <2>3, <3>1, CatInput
    <3>4. Cat(Cat(Cat(c, i), p), q) = Cat(Cat(c, i), Cat(p, q))
      BY <2>3, <3>3, CatInput
    <3>5. Cat(Cat(c, Cat(i, p)), q) = m
      BY <3>2, <3>3, <3>4
    <3> QED
      BY <2>7, <3>5 DEF c, i, m
  <2>9. \E r \in Seq(Input) : Cat(consumed, r) = Numbers(1, sent)
    BY DEF InputInv
  <2> QED
    BY <1>1, <2>2, <2>3, <2>8, <2>9 DEF InputInv
<1>3. CASE sock' = sock /\ \E o \in closeFd(conn) : Return(o, "events")
  <2>1. PICK o \in closeFd(conn) : Return(o, "events")
    BY <1>3
  <2>2. o.conn.fd = "closed" /\ o.ret \in Returns
    BY CloseFdAfter
  <2>3. conn'.fd = "closed" /\ pc' # "frames"
    BY <2>1, <2>2, ReturnPlace DEF Places
  <2> QED
    BY <1>1, <2>3 DEF InputInv
<1>4. CASE UNCHANGED <<conn, pc, sock>>
  BY <1>1, <1>4, InputKept
<1> QED
  BY <1>2, <1>3, <1>4 DEF ReadEvent

\* The built-in codec takes all that has been read.
LEMMA InputFrame ==
  ASSUME Codec = "BuiltIn", Rest, Sound(conn), InputInv, Frame, Rest', Sound(conn')
  PROVE  InputInv'
<1> DEFINE buf == ReadAll(conn)
           n == FrameLength(buf)
<1>1. pc = "frames" /\ UNCHANGED <<sent, sock>>
  BY DEF Frame, peerVars
<1>2. /\ consumed \in Seq(Input) /\ sock \in Seq(Input)
      /\ conn.inbound \in Seq(Input) /\ conn.buffer \in Seq(Input) /\ Uncut \in Seq(Input)
  BY InputTypes
<1>3. buf = Uncut /\ n = Len(buf)
  BY <1>1 DEF ReadAll, Uncut, FrameLength
<1>4. CASE n = 0
  <2>1. conn' = [conn EXCEPT !.inbound = buf] /\ pc' = "events" /\ UNCHANGED consumed
    BY <1>4 DEF Frame, ReadAll
  <2>2. conn'.inbound = Uncut /\ conn'.fd = conn.fd
    BY <1>3, <2>1 DEF Sound, Conns
  <2>3. Uncut' = Cat(Uncut, <<>>)
    BY <2>1, <2>2 DEF Uncut, Cat
  <2>4. Uncut' = Uncut
    BY <1>2, <2>3, CatEmpty
  <2> QED
    BY <1>1, <2>1, <2>2, <2>4 DEF InputInv
<1>5. CASE n # 0
  <2>1. /\ Moves(Decoded(conn, n)) /\ (pc' = "frames" => conn'.opened)
        /\ consumed' = consumed \o SubSeq(buf, 1, n)
    BY <1>5, FrameOutcome
  <2>2. consumed' = Cat(consumed, Uncut)
    <3>1. SubSeq(Uncut, 1, Len(Uncut)) = Uncut
      BY <1>2, SubSeqFull
    <3> QED
      BY <1>3, <2>1, <3>1 DEF Cat
  <2> DEFINE d == Decoded(conn, n)
  <2>3. d.inbound = <<>> /\ d.buffer = <<>> /\ d.fd = conn.fd
    BY DEF Decoded, ResetBuffer, Sound, Conns
  <2> HIDE DEF d
  <2>4. PICK s \in Seq(Written) : After(d, s, conn')
    BY <2>1 DEF Moves, Progress, d
  <2>5. ~conn'.released => conn'.inbound = <<>> /\ conn'.buffer = <<>>
    BY <2>3, <2>4 DEF After
  <2>6. conn'.fd = "open" => conn.fd = "open" /\ ~conn'.released
    BY <2>3, <2>4 DEF After, Sound
  <2>7. pc' = "frames" => ~conn'.released
    BY <2>1 DEF Sound
  <2>8. ~conn'.released => Uncut' = <<>>
    <3> SUFFICES ASSUME ~conn'.released PROVE Uncut' = <<>>
      OBVIOUS
    <3>1. Uncut' = Cat(<<>>, <<>>)
      BY <2>5 DEF Uncut, Cat
    <3> QED
      BY <3>1, CatEmpty
  <2>9. ~conn'.released => Cat(consumed', Uncut') = consumed'
    <3>1. Cat(consumed, Uncut) \in Seq(Input)
      BY <1>2, CatInput
    <3> QED
      BY <2>2, <2>8, <3>1, CatEmpty
  <2>10. \E r \in Seq(Input) : Cat(consumed', r) = Numbers(1, sent)
    BY <1>1, <2>2 DEF InputInv
  <2>11. conn'.fd = "open" => Cat(Cat(consumed', Uncut'), sock) = Numbers(1, sent)
    BY <1>1, <2>2, <2>6, <2>9 DEF InputInv
  <2>12. pc' = "frames" => \E r \in Seq(Input) : Cat(Cat(consumed', Uncut'), r) = Numbers(1, sent)
    BY <2>7, <2>9, <2>10
  <2> QED
    BY <1>1, <2>10, <2>11, <2>12 DEF InputInv
<1> QED
  BY <1>4, <1>5

LEMMA NextNumber ==
  ASSUME sent \in 0..MaxSent, sent < MaxSent
  PROVE  sent + 1 \in Input /\ Numbers(1, sent + 1) = Append(Numbers(1, sent), sent + 1)
<1>1. sent \in Nat /\ MaxSent \in Nat /\ sent + 1 <= MaxSent /\ sent <= MaxSent
  BY ConnectionAssumption
<1> DEFINE s == Numbers(1, sent)
           t == Numbers(1, sent + 1)
           x == sent + 1
<1>2. s \in Seq(Input) /\ Len(s) = sent /\ \A i \in 1..sent : s[i] = i
  BY <1>1, FirstNumbers DEF Input
<1>3. t \in Seq(Input) /\ Len(t) = sent + 1 /\ \A i \in 1..(sent + 1) : t[i] = i
  BY <1>1, FirstNumbers DEF Input
<1>4. x \in Input
  BY <1>1 DEF Input
<1> HIDE DEF s, t
<1>5. /\ Append(s, x) \in Seq(Input) /\ Len(Append(s, x)) = sent + 1
      /\ \A i \in 1..sent : Append(s, x)[i] = s[i]
      /\ Append(s, x)[sent + 1] = x
  BY <1>2, <1>4, AppendProperties
<1>6. \A i \in 1..(sent + 1) : Append(s, x)[i] = t[i]
  <2> TAKE i \in 1..(sent + 1)
  <2>1. CASE i \in 1..sent
    BY <1>2, <1>3, <1>5, <2>1
  <2>2. CASE i = sent + 1
    <3>1. t[sent + 1] = sent + 1
      BY <1>3, <2>2
    <3>2. Append(s, x)[sent + 1] = sent + 1
      BY <1>5
    <3> QED
      BY <2>2, <3>1, <3>2, Zenon
  <2>3. i \in 1..sent \/ i = sent + 1
    BY <1>1
  <2> QED
    BY <2>1, <2>2, <2>3, Zenon
<1>7. Append(s, x) = t
  BY <1>3, <1>5, <1>6, SeqEqual
<1> QED
  BY <1>4, <1>7 DEF s, t

LEMMA CatAppend ==
  \A s, t \in Seq(Input) : \A x \in Input : Cat(s, Append(t, x)) = Append(Cat(s, t), x)
                                            /\ Append(t, x) \in Seq(Input)
<1> TAKE s, t \in Seq(Input)
<1> TAKE x \in Input
<1> QED
  BY AppendMoved, AppendProperties DEF Cat

LEMMA InputSend ==
  ASSUME Rest, Sound(conn), InputInv, Send
  PROVE  InputInv'
<1>1. /\ UNCHANGED <<conn, pc, consumed>> /\ sent' = sent + 1 /\ sent < MaxSent
      /\ conn.fd = "open" => sock' = Append(sock, sent + 1)
  BY DEF Send
<1>2. /\ consumed \in Seq(Input) /\ sock \in Seq(Input) /\ Uncut \in Seq(Input)
      /\ sent \in 0..MaxSent /\ Cat(consumed, Uncut) \in Seq(Input)
  BY InputTypes, CatInput
<1>3. sent + 1 \in Input /\ Numbers(1, sent') = Append(Numbers(1, sent), sent + 1)
  BY <1>1, <1>2, NextNumber
<1>4. Uncut' = Uncut
  BY <1>1 DEF Uncut
<1> DEFINE x == sent + 1
           m == Numbers(1, sent)
           n == Numbers(1, sent')
           y == Cat(consumed, Uncut)
<1>5. x \in Input /\ n = Append(m, x) /\ y \in Seq(Input)
  BY <1>2, <1>3
<1>6. /\ \E r \in Seq(Input) : Cat(consumed, r) = m
      /\ conn.fd = "open" => Cat(y, sock) = m
      /\ pc = "frames" => \E r \in Seq(Input) : Cat(y, r) = m
  BY DEF InputInv
<1>7. conn.fd = "open" => sock' = Append(sock, x)
  BY <1>1
<1> HIDE DEF x, m, n, y
<1>8. /\ \E r \in Seq(Input) : Cat(consumed, r) = n
      /\ conn.fd = "open" => Cat(y, sock') = n
      /\ pc = "frames" => \E r \in Seq(Input) : Cat(y, r) = n
  <2>0. ASSUME NEW s \in Seq(Input), NEW r \in Seq(Input), Cat(s, r) = m
        PROVE  Cat(s, Append(r, x)) = n /\ Append(r, x) \in Seq(Input)
    <3>1. Cat(s, Append(r, x)) = Append(Cat(s, r), x) /\ Append(r, x) \in Seq(Input)
      BY <1>5, CatAppend, Zenon
    <3> QED
      BY <1>5, <2>0, <3>1, Zenon
  <2>1. \E r \in Seq(Input) : Cat(consumed, r) = n
    BY <1>2, <1>6, <2>0, Zenon
  <2>2. conn.fd = "open" => Cat(y, sock') = n
    <3> SUFFICES ASSUME conn.fd = "open" PROVE Cat(y, sock') = n
      OBVIOUS
    <3>1. Cat(y, sock) = m /\ sock' = Append(sock, x)
      BY <1>6, <1>7
    <3>2. Cat(y, Append(sock, x)) = n
      BY <1>2, <1>5, <2>0, <3>1, Zenon
    <3> QED
      BY <3>1, <3>2, Zenon
  <2>3. pc = "frames" => \E r \in Seq(Input) : Cat(y, r) = n
    BY <1>5, <1>6, <2>0, Zenon
  <2> QED
    BY <2>1, <2>2, <2>3
<1> QED
  BY <1>1, <1>4, <1>8 DEF InputInv, n, y

LEMMA InputStep ==
  ASSUME Codec = "BuiltIn"
  PROVE  IInv /\ InputInv /\ [Next]_vars => InputInv'
<1> SUFFICES ASSUME IInv, InputInv, [Next]_vars PROVE InputInv'
  OBVIOUS
<1>1. Sound(conn) /\ Rest /\ Fresh /\ Output
  BY DEF IInv
<1>2. Sound(conn') /\ Rest'
  BY StepInv DEF IInv
<1>3. ASSUME Quiet PROVE InputInv'
  BY <1>1, <1>2, <1>3, InputKept DEF Quiet
<1>4. CASE loopOpen
  BY <1>1, <1>3, <1>4, LoopOpenStep
<1>5. CASE Kevent
  BY <1>1, <1>3, <1>5, KeventStep
<1>6. CASE ReadEvent
  BY <1>1, <1>2, <1>6, InputReadEvent
<1>7. CASE Frame
  BY <1>1, <1>2, <1>7, InputFrame
<1>8. CASE WriteEvent
  BY <1>1, <1>3, <1>8, WriteEventStep
<1>9. CASE SockEvent
  BY <1>1, <1>3, <1>9, SockEventStep
<1>10. CASE EventsDone \/ JobsDone
  BY <1>1, <1>3, <1>10, OtherLoopStep
<1>11. CASE WriteJob
  BY <1>1, <1>3, <1>11, WriteJobStep
<1>12. CASE WakeJob
  BY <1>1, <1>3, <1>12, WakeJobStep
<1>13. CASE CloseJob
  BY <1>1, <1>3, <1>13, CloseJobStep
<1>14. CASE closeAllConns
  BY <1>1, <1>3, <1>14, CloseAllConnsStep
<1>15. CASE Send
  BY <1>1, <1>15, InputSend
<1>16. CASE Receive
  <2>1. /\ UNCHANGED <<pc, consumed, sock, sent>> /\ conn'.fd = conn.fd
        /\ conn'.inbound = conn.inbound /\ conn'.buffer = conn.buffer
    BY <1>1, <1>16 DEF Receive, Sound, Conns
  <2> QED
    BY <1>1, <1>2, <2>1, InputKept
<1>17. CASE (\E j \in Calls : Call(j)) \/ Finish \/ Abort \/ UNCHANGED vars
  <2>1. UNCHANGED <<conn, pc, consumed, sock, sent>>
    BY <1>17 DEF Call, Finish, Abort, vars, peerVars
  <2> QED
    BY <1>1, <1>2, <2>1, InputKept
<1> QED
  BY <1>4, <1>5, <1>6, <1>7, <1>8, <1>9, <1>10, <1>11, <1>12, <1>13, <1>14, <1>15, <1>16, <1>17
     DEF Next, Loop, Peer

\* With the built-in codec React is given the peer's bytes in order, each once,
\* and while the socket is open those that it was not given are in the buffers
\* of the connection or of the socket (eventloop_unix.go:184-215,
\* codec.go:55-78). A codec that calls ShiftN breaks this (run connection_line).
THEOREM InputOrdered ==
  ASSUME Codec = "BuiltIn"
  PROVE  Spec => []InputInOrder
<1>1. Init => IInv /\ InputInv
  BY InitInv, InputInit
<1>2. IInv /\ InputInv /\ [Next]_vars => IInv' /\ InputInv'
  BY StepInv, InputStep
<1>3. IInv /\ InputInv => InputInOrder
  BY InputImplies
<1> QED
  BY <1>1, <1>2, <1>3, PTL DEF Spec


=============================================================================
