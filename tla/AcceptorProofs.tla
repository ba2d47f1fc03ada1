--------------------------- MODULE AcceptorProofs ----------------------------
(***************************************************************************)
(* For every number of loops, descriptors and connections: the types of    *)
(* Acceptor; that the least-connections set never strays further from the  *)
(* least loaded loop than the connections that came and went since its     *)
(* heap was built; that an event finds its connection or none; and that    *)
(* every open socket is in one place and counted by one loop.              *)
(***************************************************************************)
EXTENDS Acceptor, WellFoundedInduction, SequenceTheorems, FiniteSetTheorems, TLAPS

-----------------------------------------------------------------------------
(* The heap and the sets of event loops.                                   *)

\* The root of a heap has the fewest connections: a smallest place with fewer
\* would have a parent with fewer.
LEMMA RootIsMinimal ==
  ASSUME NEW conns \in [Loops -> Int], NEW h \in heapInit(conns), NEW l \in Loops
  PROVE  conns[h[1]] <= conns[l]
<1> DEFINE T == {i \in Loops : conns[h[i]] < conns[h[1]]}
<1>1. h \in [Loops -> Loops] /\ \E i \in Loops : h[i] = l
  BY DEF heapInit, Loops, Bijection, Injection, Surjection
<1>2. 1 \in Loops
  BY NumEventLoopAssumption DEF Loops
<1>3. SUFFICES ASSUME T # {} PROVE FALSE
  <2>1. \A i \in Loops : conns[h[i]] \in Int
    BY <1>1
  <2> QED
    BY <1>1, <1>2, <1>3, <2>1
<1>4. T \subseteq Nat
  BY NumEventLoopAssumption DEF Loops
<1>5. PICK i \in T : \A j \in T : ~(j < i)
  <2> DEFINE R == OpToRel(<, Nat)
  <2>1. IsWellFoundedOn(R, Nat)
    BY NatLessThanWellFounded
  <2>2. \A j, i \in Nat : j < i => <<j, i>> \in R
    BY DEF OpToRel
  <2> HIDE DEF R, T
  <2>3. \E i \in T : \A j \in T : ~(<<j, i>> \in R)
    BY <1>3, <1>4, <2>1, WFMin
  <2> QED
    BY <1>4, <2>2, <2>3
<1>6. \A j \in T : i <= j
  <2> HIDE DEF T
  <2> QED
    BY <1>4, <1>5
<1>7. i \in Loops /\ i # 1 /\ conns[h[i]] \in Int /\ conns[h[1]] \in Int
  BY <1>1, <1>2
<1>8. i \in 2..NumEventLoop /\ i \div 2 \in Loops /\ i \div 2 < i
  BY <1>7, NumEventLoopAssumption DEF Loops
<1>9. ~(conns[h[i]] < conns[h[i \div 2]])
  BY <1>8 DEF heapInit, Less
<1>10. i \div 2 \notin T
  BY <1>4, <1>6, <1>8
<1>11. conns[h[i \div 2]] \in Int /\ ~(conns[h[i \div 2]] < conns[h[1]])
  BY <1>1, <1>8, <1>10
<1>12. conns[h[i]] < conns[h[1]]
  OBVIOUS
<1> HIDE DEF T
<1> QED
  BY <1>7, <1>9, <1>11, <1>12

\* Registering gives a well-formed set.
LEMMA RegisterType ==
  ASSUME NEW kind \in Balancers
  PROVE  register(kind) \in Sets /\ register(kind).kind = kind
<1>1. [i \in 1..NumEventLoop |-> i] \in Bijection(1..NumEventLoop, Loops)
  BY DEF Bijection, Injection, Surjection, IsInjective, Loops
<1> QED
  BY <1>1, NumEventLoopAssumption DEF register, Sets, Loops

\* calibrate keeps a set well formed, and changes nothing but the threshold,
\* which the least-connections set counts up.
LEMMA CalibrateType ==
  ASSUME NEW s \in Sets
  PROVE  /\ calibrate(s) \in Sets
         /\ calibrate(s).kind = s.kind
         /\ calibrate(s).cachedRoot = s.cachedRoot
         /\ s.kind = "LeastConnections" => calibrate(s).threshold = s.threshold + 1
BY DEF calibrate, Sets

\* next keeps a set well formed and answers with one of the loops.
LEMMA NextType ==
  ASSUME NEW s \in Sets, NEW hash \in Nat, NEW conns \in [Loops -> Int],
         NEW n \in next(s, hash, conns)
  PROVE  n.set \in Sets /\ n.set.kind = s.kind /\ n.loop \in Loops
<1> USE NumEventLoopAssumption
<1>1. s.order \in [Loops -> Loops] /\ s.kind \in Balancers
  BY DEF Sets, Bijection, Injection, Loops
<1>2. CASE s.kind = "RoundRobin"
  <2>1. n \in nextRoundRobin(s)
    BY <1>2, Zenon DEF next
  <2> DEFINE i == s.nextLoopIndex + 1
             j == IF i >= NumEventLoop THEN 0 ELSE i
  <2>2. i \in Loops /\ j \in 0..(NumEventLoop - 1)
    BY DEF Sets, Loops
  <2>3. n = [set |-> [s EXCEPT !.nextLoopIndex = j], loop |-> s.order[i]]
    BY <2>1 DEF nextRoundRobin, Chosen
  <2> HIDE DEF i, j
  <2>4. [s EXCEPT !.nextLoopIndex = j] \in Sets
    BY <2>2 DEF Sets
  <2>5. s.order[i] \in Loops
    BY <1>1, <2>2 DEF Loops
  <2>6. [s EXCEPT !.nextLoopIndex = j].kind = s.kind
    BY DEF Sets
  <2> QED
    BY <2>3, <2>4, <2>5, <2>6
<1>3. CASE s.kind = "LeastConnections"
  <2>1. n \in nextLeastConnections(s, conns)
    BY <1>3, Zenon DEF next
  <2>2. ASSUME NEW h \in heapInit(conns)
        PROVE  Rebuilt(s, h) \in Sets /\ Rebuilt(s, h).kind = s.kind /\ h[1] \in Loops
    <3>1. h \in Bijection(1..NumEventLoop, Loops) /\ h[1] \in Loops
      BY DEF heapInit, Bijection, Injection, Loops
    <3> QED
      BY <3>1 DEF Rebuilt, Sets
  <2> QED
    BY <1>3, <2>1, <2>2 DEF nextLeastConnections, Chosen, Sets
<1>4. CASE s.kind = "SourceAddrHash"
  <2>1. n \in nextSourceAddrHash(s, hash)
    BY <1>4, Zenon DEF next
  <2>2. (hash % NumEventLoop) + 1 \in Loops
    BY DEF Loops
  <2> QED
    BY <1>1, <1>4, <2>1, <2>2 DEF nextSourceAddrHash, Chosen
<1> QED
  BY <1>1, <1>2, <1>3, <1>4 DEF Balancers

\* next of the least-connections set, as long as the cached root is near the
\* least loaded loop: it still is, and the loop chosen is near too.
LEMMA NextIsNear ==
  ASSUME NEW s \in Sets, s.kind = "LeastConnections", NEW hash \in Nat,
         NEW conns \in [Loops -> Int], NEW n \in next(s, hash, conns), NEW l \in Loops,
         conns[s.cachedRoot] <= conns[l] + s.threshold
  PROVE  /\ conns[n.set.cachedRoot] <= conns[l] + n.set.threshold
         /\ conns[n.loop] < conns[l] + NumEventLoop
<1> USE NumEventLoopAssumption
<1>1. n \in nextLeastConnections(s, conns)
  BY Zenon DEF next
<1>2. s.cachedRoot \in Loops /\ s.threshold \in Nat /\ conns[s.cachedRoot] \in Int /\ conns[l] \in Int
  BY DEF Sets
<1>3. CASE s.threshold >= NumEventLoop
  <2>1. PICK h \in heapInit(conns) : n = Chosen(Rebuilt(s, h), h[1])
    BY <1>1, <1>3 DEF nextLeastConnections
  <2>2. h[1] \in Loops /\ conns[h[1]] \in Int
    BY DEF heapInit, Bijection, Injection, Loops
  <2>3. conns[h[1]] <= conns[l]
    BY RootIsMinimal
  <2>4. n.loop = h[1] /\ n.set.cachedRoot = h[1] /\ n.set.threshold = 0
    BY <2>1 DEF Chosen, Rebuilt, Sets
  <2> QED
    BY <1>2, <2>2, <2>3, <2>4
<1>4. CASE ~(s.threshold >= NumEventLoop)
  <2>1. n.loop = s.cachedRoot /\ n.set = s
    BY <1>1, <1>4 DEF nextLeastConnections, Chosen
  <2> QED
    BY <1>2, <1>4, <2>1
<1> QED
  BY <1>3, <1>4

-----------------------------------------------------------------------------
(* Types.                                                                  *)

\* A closed descriptor, with whatever the loop does next.
LEMMA CloseFdType ==
  ASSUME TypeOK, NEW l \in Loops, NEW c \in Conns, NEW r \in {"None", "Shutdown"},
         CloseFd(l, c, r)
  PROVE  /\ sock' \in [Fds -> Conns \cup {None}]
         /\ connections' \in [Loops -> [Fds -> Conns \cup {None}]]
         /\ connCount' \in [Loops -> Int]
         /\ set' \in Sets /\ set'.kind = set.kind
         /\ closes' \in [Conns -> Nat]
         /\ released' \in [Conns -> BOOLEAN]
         /\ UNCHANGED <<accepted, fd, el>>
<1>1. set' = calibrate(set) /\ set \in Sets
  BY DEF TypeOK, CloseFd, Uncount
<1>2. set' \in Sets /\ set'.kind = set.kind
  BY <1>1, CalibrateType
<1>3. connCount' \in [Loops -> Int]
  BY DEF TypeOK, CloseFd, Uncount
<1>4. connections' \in [Loops -> [Fds -> Conns \cup {None}]]
  BY DEF TypeOK, CloseFd, Forget
<1>5. closes' \in [Conns -> Nat] /\ released' \in [Conns -> BOOLEAN]
  BY DEF TypeOK, CloseFd
<1>6. sock' \in [Fds -> Conns \cup {None}] /\ UNCHANGED <<accepted, fd, el>>
  BY DEF TypeOK, CloseFd
<1> QED
  BY <1>2, <1>3, <1>4, <1>5, <1>6

LEMMA ReturnType ==
  ASSUME TypeOK, NEW l \in Loops, NEW r, Return(l, r)
  PROVE  loop' \in [Loops -> {"polling", "exit", "ended"}]
BY DEF TypeOK, Return

\* A close of loopCloseConn, with or without a flush that fails.
LEMMA CloseType ==
  ASSUME TypeOK, NEW l \in Loops, NEW c \in Conns, Close(l, c)
  PROVE  /\ sock' \in [Fds -> Conns \cup {None}]
         /\ connections' \in [Loops -> [Fds -> Conns \cup {None}]]
         /\ connCount' \in [Loops -> Int]
         /\ set' \in Sets /\ set'.kind = set.kind
         /\ closes' \in [Conns -> Nat]
         /\ released' \in [Conns -> BOOLEAN]
         /\ UNCHANGED <<accepted, fd, el>>
         /\ loop' \in [Loops -> {"polling", "exit", "ended"}]
         /\ closing' \in [Loops -> Conns \cup {None}]
<1>1. PICK r \in {"None", "Shutdown"} :
        /\ CloseFd(l, c, r)
        /\ Return(l, r) \/ UNCHANGED loop
        /\ closing' = closing \/ closing' = [closing EXCEPT ![l] = c]
  BY DEF Close, loopCloseConn, FlushFails
<1>2. loop' \in [Loops -> {"polling", "exit", "ended"}]
  BY <1>1, ReturnType DEF TypeOK
<1>3. closing' \in [Loops -> Conns \cup {None}]
  BY <1>1 DEF TypeOK
<1> QED
  BY <1>1, <1>2, <1>3, CloseFdType

\* What loopRead does next, when its connection has been closed under it.
LEMMA AfterReplyType ==
  ASSUME TypeOK, NEW l \in Loops, NEW c \in Conns, NEW gone, AfterReply(l, c, gone)
  PROVE  /\ \E r : Return(l, r)
         /\ loop' \in [Loops -> {"polling", "exit", "ended"}]
         /\ closing' \in [Loops -> Conns \cup {None}]
         /\ reading' \in [Loops -> Conns \cup {None}]
         /\ fate' \in {"alive", "panicked"}
         /\ \A k \in Loops \ {l} : closing'[k] = closing[k] /\ reading'[k] = reading[k]
         /\ closing'[l] \in {closing[l], c}
         /\ reading'[l] \in {None, c}
<1>1. PICK action \in {"None", "Close", "Shutdown"}, more \in BOOLEAN :
        /\ Return(l, action)
        /\ reading' = [reading EXCEPT ![l] = IF action = "None" /\ more /\ ~gone THEN c ELSE None]
        /\ closing' = [closing EXCEPT ![l] = IF action = "Close" /\ ~gone THEN c ELSE @]
        /\ fate' = IF action = "Close" /\ gone THEN "panicked" ELSE fate
  BY DEF AfterReply
<1>2. loop' \in [Loops -> {"polling", "exit", "ended"}]
  BY <1>1, ReturnType
<1>3. fate' \in {"alive", "panicked"}
  BY <1>1 DEF TypeOK
<1>4. \E b \in {None, c} : reading' = [reading EXCEPT ![l] = b]
  BY <1>1
<1>5. \E b \in {closing[l], c} : closing' = [closing EXCEPT ![l] = b]
  BY <1>1
<1>6. /\ reading' \in [Loops -> Conns \cup {None}]
      /\ reading'[l] \in {None, c} /\ \A k \in Loops \ {l} : reading'[k] = reading[k]
  BY <1>4 DEF TypeOK
<1>7. /\ closing' \in [Loops -> Conns \cup {None}]
      /\ closing'[l] \in {closing[l], c} /\ \A k \in Loops \ {l} : closing'[k] = closing[k]
  BY <1>5 DEF TypeOK
<1> QED
  BY <1>1, <1>2, <1>3, <1>6, <1>7

LEMMA ReplyType ==
  ASSUME TypeOK, NEW l \in Loops, NEW c \in Conns, ReplyFails(l, c)
  PROVE  /\ sock' \in [Fds -> Conns \cup {None}]
         /\ connections' \in [Loops -> [Fds -> Conns \cup {None}]]
         /\ connCount' \in [Loops -> Int]
         /\ set' \in Sets /\ set'.kind = set.kind
         /\ closes' \in [Conns -> Nat]
         /\ released' \in [Conns -> BOOLEAN]
         /\ UNCHANGED <<accepted, fd, el>>
         /\ loop' \in [Loops -> {"polling", "exit", "ended"}]
         /\ closing' \in [Loops -> Conns \cup {None}]
         /\ reading' \in [Loops -> Conns \cup {None}]
         /\ fate' \in {"alive", "panicked"}
<1>1. PICK r \in {"None", "Shutdown"} : CloseFd(l, c, r) /\ AfterReply(l, c, r = "None")
  BY DEF ReplyFails
<1> QED
  BY <1>1, CloseFdType, AfterReplyType

LEMMA RegisterAddType ==
  ASSUME TypeOK, NEW l \in Loops, NEW c \in Conns, NEW f \in Fds \cup {0}, AddRead(l, c, f)
  PROVE  /\ connections' \in [Loops -> [Fds -> Conns \cup {None}]]
         /\ connCount' \in [Loops -> Int]
         /\ set' \in Sets /\ set'.kind = set.kind
         /\ opening' \in [Loops -> Conns \cup {None}]
         /\ hand' \in [Loops \cup {Main} -> Conns \cup {None}]
         /\ loop' \in [Loops -> {"polling", "exit", "ended"}]
<1>1. CASE Register(l, c, f) /\ opening' = [opening EXCEPT ![l] = c] /\ UNCHANGED <<hand, loop>>
  <2>1. set' = calibrate(set) /\ set \in Sets
    BY <1>1 DEF TypeOK, Register
  <2>2. set' \in Sets /\ set'.kind = set.kind
    BY <2>1, CalibrateType
  <2>3. connCount' \in [Loops -> Int]
    BY <1>1 DEF TypeOK, Register
  <2>5. connections' \in [Loops -> [Fds -> Conns \cup {None}]]
    <3>1. connections' = [connections EXCEPT ![l][f] = c]
      BY <1>1 DEF Register
    <3>2. [connections[l] EXCEPT ![f] = c] \in [Fds -> Conns \cup {None}]
      BY DEF TypeOK
    <3> QED
      BY <3>1, <3>2 DEF TypeOK
  <2>4. opening' \in [Loops -> Conns \cup {None}] /\ UNCHANGED <<hand, loop>>
    BY <1>1 DEF TypeOK
  <2> QED
    BY <2>2, <2>3, <2>4, <2>5 DEF TypeOK
<1>2. CASE /\ hand' = [hand EXCEPT ![l] = c]
           /\ Return(l, "Shutdown")
           /\ UNCHANGED <<setVars, connections, opening>>
  BY <1>2, ReturnType DEF TypeOK, setVars
<1> QED
  BY <1>1, <1>2 DEF AddRead

LEMMA SeqTail ==
  ASSUME NEW S, NEW q \in Seq(S), q # <<>>
  PROVE  Head(q) \in S /\ Tail(q) \in Seq(S)
BY HeadTailProperties

LEMMA NextEventType ==
  ASSUME TypeOK, NEW l \in Loops, NextEvent(l)
  PROVE  batch' \in [Loops -> Seq(Events)] /\ Head(batch[l]) \in Events
<1>1. batch[l] \in Seq(Events) /\ batch[l] # <<>>
  BY DEF TypeOK, NextEvent
<1>2. Head(batch[l]) \in Events /\ Tail(batch[l]) \in Seq(Events)
  BY <1>1, SeqTail
<1> QED
  BY <1>2 DEF TypeOK, NextEvent

LEMMA NextJobType ==
  ASSUME TypeOK, NEW l \in Loops, NextJob(l)
  PROVE  taken' \in [Loops -> Seq(Conns \cup {Stop})] /\ Head(taken[l]) \in Conns \cup {Stop}
<1>1. taken[l] \in Seq(Conns \cup {Stop}) /\ taken[l] # <<>>
  BY DEF TypeOK, NextJob
<1>2. Head(taken[l]) \in Conns \cup {Stop} /\ Tail(taken[l]) \in Seq(Conns \cup {Stop})
  BY <1>1, SeqTail
<1> QED
  BY <1>2 DEF TypeOK, NextJob

LEMMA TypeInit == Init => TypeOK
<1> SUFFICES ASSUME Init PROVE TypeOK
  OBVIOUS
<1>1. opts.balancer \in Balancers
  BY AcceptorAssumption DEF Init, Options
<1>2. set \in Sets /\ set.kind = opts.balancer
  BY <1>1, RegisterType DEF Init
<1>3. accepted \in 0..MaxConns
  BY AcceptorAssumption DEF Init
<1>4. /\ connCount \in [Loops -> Int]
      /\ closes \in [Conns -> Nat]
      /\ released \in [Conns -> BOOLEAN]
      /\ opts \in OptionSet
  BY DEF Init
<1>5. /\ sock \in [Fds -> Conns \cup {None}]
      /\ fd \in [Conns -> Fds \cup {0}]
      /\ el \in [Conns -> Loops \cup {0}]
      /\ hand \in [Loops \cup {Main} -> Conns \cup {None}]
      /\ connections \in [Loops -> [Fds -> Conns \cup {None}]]
  BY DEF Init
<1>6. /\ batch \in [Loops -> Seq(Events)]
      /\ jobs \in [Loops -> Seq(Conns \cup {Stop})]
      /\ taken \in [Loops -> Seq(Conns \cup {Stop})]
  BY DEF Init
<1>7. /\ opening \in [Loops -> Conns \cup {None}]
      /\ closing \in [Loops -> Conns \cup {None}]
      /\ reading \in [Loops -> Conns \cup {None}]
      /\ loop \in [Loops -> {"polling", "exit", "ended"}]
      /\ main \in {"polling", "ended"}
      /\ stopped \in BOOLEAN
      /\ fate \in {"alive", "panicked"}
  BY DEF Init
<1> QED
  BY <1>2, <1>3, <1>4, <1>5, <1>6, <1>7 DEF TypeOK

LEMMA TypeInductive == TypeOK /\ [Next]_vars => TypeOK'
<1> SUFFICES ASSUME TypeOK, [Next]_vars PROVE TypeOK'
  OBVIOUS
<1> USE DEF connVars, setVars, mainVars, loopVars
<1>1. CASE MainAccept
  <2>1. PICK c \in Conns, f \in Fds :
          Accept(c, f) /\ hand' = [hand EXCEPT ![Main] = c]
    BY <1>1 DEF MainAccept
  <2>2. /\ accepted' \in 0..MaxConns
        /\ sock' \in [Fds -> Conns \cup {None}]
        /\ fd' \in [Conns -> Fds \cup {0}]
        /\ UNCHANGED <<closes, released>>
    BY <2>1 DEF TypeOK, Accept, Conns
  <2>3. hand' \in [Loops \cup {Main} -> Conns \cup {None}]
    BY <2>1 DEF TypeOK
  <2> QED
    BY <1>1, <2>2, <2>3 DEF TypeOK, MainAccept
<1>2. CASE acceptNewConnection
  <2> DEFINE c == hand[Main]
  <2>1. PICK n \in next(set, fd[c], connCount) :
          /\ set' = n.set
          /\ el' = [el EXCEPT ![c] = n.loop]
          /\ jobs' = [jobs EXCEPT ![n.loop] = Append(@, c)]
    BY <1>2 DEF acceptNewConnection
  <2>2. c \in Conns
    BY <1>2 DEF acceptNewConnection, TypeOK
  <2>3. fd[c] \in Nat
    BY <2>2, AcceptorAssumption DEF TypeOK, Fds
  <2>4. set \in Sets /\ connCount \in [Loops -> Int]
    BY DEF TypeOK
  <2>5. n.set \in Sets /\ n.set.kind = set.kind /\ n.loop \in Loops
    BY <2>3, <2>4, NextType
  <2>6. jobs' \in [Loops -> Seq(Conns \cup {Stop})]
    BY <2>1, <2>2, <2>5, AppendProperties DEF TypeOK
  <2>7. el' \in [Conns -> Loops \cup {0}]
    BY <2>1, <2>5 DEF TypeOK
  <2>8. hand' \in [Loops \cup {Main} -> Conns \cup {None}]
    BY <1>2 DEF TypeOK, acceptNewConnection
  <2> QED
    BY <1>2, <2>1, <2>5, <2>6, <2>7, <2>8 DEF TypeOK, acceptNewConnection
<1>3. CASE MainEnds
  BY <1>3 DEF TypeOK, MainEnds
<1>4. CASE stop
  <2>1. jobs' \in [Loops -> Seq(Conns \cup {Stop})]
    BY <1>4, AppendProperties DEF TypeOK, stop
  <2> QED
    BY <1>4, <2>1 DEF TypeOK, stop
<1>5. ASSUME NEW l \in Loops, Kevent(l) PROVE TypeOK'
  <2>1. PICK n \in 1..MaxBatch : \E fds \in [1..n -> Watched(l)] :
          batch' = [batch EXCEPT ![l] = [i \in 1..n |-> Event(fds[i])]]
    BY <1>5 DEF Kevent
  <2>2. PICK fds \in [1..n -> Watched(l)] :
          batch' = [batch EXCEPT ![l] = [i \in 1..n |-> Event(fds[i])]]
    BY <2>1
  <2>3. \A f \in Watched(l) : Event(f) \in Events
    BY DEF Watched, Registered, Event, Events, TypeOK, Fds, ListenFd
  <2>4. [i \in 1..n |-> Event(fds[i])] \in Seq(Events)
    BY <2>2, <2>3, AcceptorAssumption
  <2>5. batch' \in [Loops -> Seq(Events)]
    BY <2>2, <2>4 DEF TypeOK
  <2> QED
    BY <1>5, <2>5 DEF TypeOK, Kevent
<1>6. ASSUME NEW l \in Loops, HandleEvent(l) PROVE TypeOK'
  <2> DEFINE f == Head(batch[l]).fd
             c == connections[l][f]
  <2>1. batch' \in [Loops -> Seq(Events)] /\ Head(batch[l]) \in Events /\ f # ListenFd
    BY <1>6, NextEventType DEF HandleEvent
  <2>2. c \in Conns \cup {None}
    BY <2>1 DEF TypeOK, Events
  <2>3. CASE UNCHANGED <<setVars, connVars, loop, connections, closing, reading, fate>>
    BY <1>6, <2>1, <2>3 DEF TypeOK, HandleEvent
  <2>4. CASE c # None /\ Close(l, c) /\ UNCHANGED <<reading, fate>>
    BY <1>6, <2>1, <2>2, <2>4, CloseType DEF TypeOK, HandleEvent
  <2>5. CASE Return(l, "Shutdown") /\ UNCHANGED <<setVars, connVars, connections, closing, reading, fate>>
    BY <1>6, <2>1, <2>5, ReturnType DEF TypeOK, HandleEvent
  <2>6. CASE c # None /\ ReplyFails(l, c)
    BY <1>6, <2>1, <2>2, <2>6, ReplyType DEF TypeOK, HandleEvent
  <2> QED
    BY <1>6, <2>1, <2>3, <2>4, <2>5, <2>6 DEF HandleEvent
<1>7. ASSUME NEW l \in Loops, loopAccept(l) PROVE TypeOK'
  <2>1. batch' \in [Loops -> Seq(Events)]
    BY <1>7, NextEventType DEF loopAccept
  <2>2. CASE UNCHANGED <<setVars, connVars, hand, loop, connections, opening>>
    BY <1>7, <2>1, <2>2 DEF TypeOK, loopAccept
  <2>3. ASSUME NEW c \in Conns, NEW f \in Fds, Accept(c, f), AddRead(l, c, f),
               el' = [el EXCEPT ![c] = l]
        PROVE  TypeOK'
    <3>1. /\ accepted' \in 0..MaxConns
          /\ sock' \in [Fds -> Conns \cup {None}]
          /\ fd' \in [Conns -> Fds \cup {0}]
          /\ UNCHANGED <<closes, released>>
      BY <2>3 DEF TypeOK, Accept, Conns
    <3>2. el' \in [Conns -> Loops \cup {0}]
      BY <2>3 DEF TypeOK
    <3>3. /\ connections' \in [Loops -> [Fds -> Conns \cup {None}]]
          /\ connCount' \in [Loops -> Int]
          /\ set' \in Sets /\ set'.kind = set.kind
          /\ opening' \in [Loops -> Conns \cup {None}]
          /\ hand' \in [Loops \cup {Main} -> Conns \cup {None}]
          /\ loop' \in [Loops -> {"polling", "exit", "ended"}]
      BY <2>3, RegisterAddType
    <3> QED
      BY <1>7, <2>1, <3>1, <3>2, <3>3 DEF TypeOK, loopAccept
  <2>4. CASE Return(l, "Shutdown") /\ UNCHANGED <<setVars, connVars, hand, connections, opening>>
    BY <1>7, <2>1, <2>4, ReturnType DEF TypeOK, loopAccept
  <2> QED
    BY <1>7, <2>2, <2>3, <2>4 DEF loopAccept
<1>8. ASSUME NEW l \in Loops, ForEach(l) PROVE TypeOK'
  BY <1>8 DEF TypeOK, ForEach
<1>9. ASSUME NEW l \in Loops, OpenJob(l) PROVE TypeOK'
  <2> DEFINE c == Head(taken[l])
  <2>1. taken' \in [Loops -> Seq(Conns \cup {Stop})] /\ c \in Conns
    BY <1>9, NextJobType DEF OpenJob
  <2>2. fd[c] \in Fds \cup {0} /\ AddRead(l, c, fd[c])
    BY <1>9, <2>1 DEF OpenJob, TypeOK
  <2>3. /\ connections' \in [Loops -> [Fds -> Conns \cup {None}]]
        /\ connCount' \in [Loops -> Int]
        /\ set' \in Sets /\ set'.kind = set.kind
        /\ opening' \in [Loops -> Conns \cup {None}]
        /\ hand' \in [Loops \cup {Main} -> Conns \cup {None}]
        /\ loop' \in [Loops -> {"polling", "exit", "ended"}]
    BY <2>1, <2>2, RegisterAddType
  <2> QED
    BY <1>9, <2>1, <2>3 DEF TypeOK, OpenJob
<1>10. ASSUME NEW l \in Loops, loopOpen(l) PROVE TypeOK'
  <2> DEFINE c == opening[l]
  <2>1. c \in Conns /\ opening' \in [Loops -> Conns \cup {None}]
    BY <1>10 DEF TypeOK, loopOpen
  <2>2. CASE Close(l, c)
    BY <1>10, <2>1, <2>2, CloseType DEF TypeOK, loopOpen
  <2>3. ASSUME NEW r, Return(l, r), UNCHANGED <<setVars, connVars, connections, closing>>
        PROVE  TypeOK'
    BY <1>10, <2>1, <2>3, ReturnType DEF TypeOK, loopOpen
  <2> QED
    BY <1>10, <2>2, <2>3 DEF loopOpen
<1>11. ASSUME NEW l \in Loops, StopJob(l) PROVE TypeOK'
  <2>1. taken' \in [Loops -> Seq(Conns \cup {Stop})]
    BY <1>11, NextJobType DEF StopJob
  <2>2. loop' \in [Loops -> {"polling", "exit", "ended"}]
    BY <1>11, ReturnType DEF StopJob
  <2> QED
    BY <1>11, <2>1, <2>2 DEF TypeOK, StopJob
<1>12. ASSUME NEW l \in Loops, OuterClose(l) PROVE TypeOK'
  <2> DEFINE c == closing[l]
  <2>1. c \in Conns /\ closing' \in [Loops -> Conns \cup {None}]
    BY <1>12 DEF TypeOK, OuterClose
  <2>2. CASE UNCHANGED <<setVars, connVars, loop, connections, fate>>
    BY <1>12, <2>1, <2>2 DEF TypeOK, OuterClose
  <2>3. ASSUME NEW r \in {"None", "Shutdown"}, CloseFd(l, c, r), Return(l, r),
               fate' = IF r = "None" /\ released[c] THEN "panicked" ELSE fate
        PROVE  TypeOK'
    <3>1. loop' \in [Loops -> {"polling", "exit", "ended"}]
      BY <2>3, ReturnType
    <3>2. fate' \in {"alive", "panicked"}
      BY <2>3 DEF TypeOK
    <3>3. /\ sock' \in [Fds -> Conns \cup {None}]
          /\ connections' \in [Loops -> [Fds -> Conns \cup {None}]]
          /\ connCount' \in [Loops -> Int]
          /\ set' \in Sets /\ set'.kind = set.kind
          /\ closes' \in [Conns -> Nat]
          /\ released' \in [Conns -> BOOLEAN]
          /\ UNCHANGED <<accepted, fd, el>>
      BY <2>1, <2>3, CloseFdType
    <3> QED
      BY <1>12, <2>1, <3>1, <3>2, <3>3 DEF TypeOK, OuterClose
  <2> QED
    BY <1>12, <2>2, <2>3 DEF OuterClose
<1>13. ASSUME NEW l \in Loops, closeAllConns(l) PROVE TypeOK'
  <2>1. PICK c \in Conns : Close(l, c)
    BY <1>13 DEF closeAllConns, Entries
  <2> QED
    BY <1>13, <2>1, CloseType DEF TypeOK, closeAllConns
<1>14. ASSUME NEW l \in Loops, EndLoop(l) PROVE TypeOK'
  BY <1>14 DEF TypeOK, EndLoop
<1>15. ASSUME NEW l \in Loops, NextFrame(l) PROVE TypeOK'
  <2> DEFINE c == reading[l]
  <2>1. c \in Conns
    BY <1>15 DEF TypeOK, NextFrame
  <2>2. CASE AfterReply(l, c, FALSE) /\ UNCHANGED <<setVars, connVars, connections>>
    BY <1>15, <2>1, <2>2, AfterReplyType DEF TypeOK, NextFrame
  <2>3. CASE ReplyFails(l, c)
    BY <1>15, <2>1, <2>3, ReplyType DEF TypeOK, NextFrame
  <2> QED
    BY <1>15, <2>2, <2>3 DEF NextFrame
<1>16. CASE UNCHANGED vars
  BY <1>16 DEF TypeOK, vars
<1> QED
  BY <1>1, <1>2, <1>3, <1>4, <1>5, <1>6, <1>7, <1>8, <1>9, <1>10, <1>11, <1>12,
     <1>13, <1>14, <1>15, <1>16 DEF Next

\* The state of the acceptor, the loops and the balancer always has its type.
THEOREM TypeCorrect == Spec => []TypeOK
<1> QED
  BY TypeInit, TypeInductive, PTL DEF Spec

-----------------------------------------------------------------------------
(* The least-connections set.                                              *)

\* Each connection that came or went since the heap was built has moved the
\* cached root and any other loop apart by one at most.
RootNear ==
  opts.balancer = "LeastConnections" =>
    \A l \in Loops : connCount[set.cachedRoot] <= connCount[l] + set.threshold

Calibrates(k, d) ==
  /\ set' = calibrate(set)
  /\ connCount' = [connCount EXCEPT ![k] = @ + d]

LEMMA CloseCalibrates ==
  ASSUME NEW l \in Loops, NEW c, Close(l, c) \/ ReplyFails(l, c)
  PROVE  Calibrates(l, -1)
BY DEF Close, loopCloseConn, FlushFails, ReplyFails, CloseFd, Uncount, Calibrates

LEMMA AddCalibrates ==
  ASSUME NEW l \in Loops, NEW c, NEW f, AddRead(l, c, f)
  PROVE  UNCHANGED setVars \/ Calibrates(l, 1)
BY DEF AddRead, Register, Calibrates

\* What a step does to the set: nothing, a calibrate, or the main reactor's next.
LEMMA StepsOfSet ==
  ASSUME [Next]_vars
  PROVE  /\ opts' = opts
         /\ \/ UNCHANGED setVars
            \/ \E k \in Loops, d \in {-1, 1} : Calibrates(k, d)
            \/ acceptNewConnection
<1> USE DEF setVars
<1>1. CASE MainAccept \/ MainEnds \/ stop
  BY <1>1 DEF MainAccept, MainEnds, stop
<1>2. CASE acceptNewConnection
  BY <1>2 DEF acceptNewConnection
<1>3. ASSUME NEW l \in Loops,
             Kevent(l) \/ ForEach(l) \/ StopJob(l) \/ EndLoop(l)
      PROVE  opts' = opts /\ UNCHANGED setVars
  BY <1>3 DEF Kevent, ForEach, StopJob, EndLoop
<1>4. ASSUME NEW l \in Loops, HandleEvent(l)
      PROVE  opts' = opts /\ (UNCHANGED setVars \/ Calibrates(l, -1))
  BY <1>4, CloseCalibrates DEF HandleEvent
<1>5. ASSUME NEW l \in Loops, loopAccept(l)
      PROVE  opts' = opts /\ (UNCHANGED setVars \/ Calibrates(l, 1))
  BY <1>5, AddCalibrates DEF loopAccept
<1>6. ASSUME NEW l \in Loops, OpenJob(l)
      PROVE  opts' = opts /\ (UNCHANGED setVars \/ Calibrates(l, 1))
  BY <1>6, AddCalibrates DEF OpenJob
<1>7. ASSUME NEW l \in Loops, loopOpen(l)
      PROVE  opts' = opts /\ (UNCHANGED setVars \/ Calibrates(l, -1))
  BY <1>7, CloseCalibrates DEF loopOpen
<1>8. ASSUME NEW l \in Loops, OuterClose(l)
      PROVE  opts' = opts /\ (UNCHANGED setVars \/ Calibrates(l, -1))
  BY <1>8 DEF OuterClose, CloseFd, Uncount, Calibrates
<1>9. ASSUME NEW l \in Loops, closeAllConns(l)
      PROVE  opts' = opts /\ Calibrates(l, -1)
  BY <1>9, CloseCalibrates DEF closeAllConns
<1>10. ASSUME NEW l \in Loops, NextFrame(l)
       PROVE  opts' = opts /\ (UNCHANGED setVars \/ Calibrates(l, -1))
  BY <1>10, CloseCalibrates DEF NextFrame
<1>11. CASE UNCHANGED vars
  BY <1>11 DEF vars
<1> QED
  BY <1>1, <1>2, <1>3, <1>4, <1>5, <1>6, <1>7, <1>8, <1>9, <1>10, <1>11 DEF Next

LEMMA RootNearInit == Init => RootNear
<1> SUFFICES ASSUME Init PROVE RootNear
  OBVIOUS
<1>1. set.cachedRoot = 1 /\ set.threshold = 0 /\ 1 \in Loops
  BY NumEventLoopAssumption DEF Init, register, Loops
<1> QED
  BY <1>1 DEF Init, RootNear

\* What the main reactor's next does, for its own step.
LEMMA AcceptIsNear ==
  ASSUME TypeOK, RootNear, acceptNewConnection, opts.balancer = "LeastConnections",
         NEW l \in Loops
  PROVE  /\ connCount' = connCount
         /\ connCount[set'.cachedRoot] <= connCount[l] + set'.threshold
         /\ \E n : /\ el' = [el EXCEPT ![hand[Main]] = n]
                   /\ connCount[n] < connCount[l] + NumEventLoop
<1> DEFINE c == hand[Main]
<1>1. PICK n \in next(set, fd[c], connCount) :
        set' = n.set /\ el' = [el EXCEPT ![c] = n.loop]
  BY DEF acceptNewConnection
<1>2. c \in Conns
  BY DEF acceptNewConnection, TypeOK
<1>3. fd[c] \in Nat
  BY <1>2, AcceptorAssumption DEF TypeOK, Fds
<1>4. set \in Sets /\ connCount \in [Loops -> Int] /\ set.kind = "LeastConnections"
  BY DEF TypeOK
<1>5. connCount[set.cachedRoot] <= connCount[l] + set.threshold
  BY DEF RootNear
<1>6. /\ connCount[n.set.cachedRoot] <= connCount[l] + n.set.threshold
      /\ connCount[n.loop] < connCount[l] + NumEventLoop
  BY <1>3, <1>4, <1>5, NextIsNear
<1>7. connCount' = connCount
  BY DEF acceptNewConnection
<1> QED
  BY <1>1, <1>6, <1>7

LEMMA RootNearInductive == TypeOK /\ RootNear /\ [Next]_vars => RootNear'
<1> SUFFICES ASSUME TypeOK, RootNear, [Next]_vars,
                    opts'.balancer = "LeastConnections", NEW l \in Loops
             PROVE  connCount'[set'.cachedRoot] <= connCount'[l] + set'.threshold
  BY DEF RootNear
<1>1. opts.balancer = "LeastConnections"
  BY StepsOfSet
<1>2. CASE UNCHANGED setVars
  BY <1>1, <1>2 DEF RootNear, setVars
<1>3. ASSUME NEW k \in Loops, NEW d \in {-1, 1}, Calibrates(k, d)
      PROVE  connCount'[set'.cachedRoot] <= connCount'[l] + set'.threshold
  <2>1. /\ set \in Sets /\ set.kind = "LeastConnections"
        /\ connCount \in [Loops -> Int] /\ set.cachedRoot \in Loops /\ set.threshold \in Nat
    BY <1>1 DEF TypeOK, Sets
  <2>2. set'.cachedRoot = set.cachedRoot /\ set'.threshold = set.threshold + 1
    BY <1>3, <2>1, CalibrateType DEF Calibrates
  <2>3. connCount[set.cachedRoot] <= connCount[l] + set.threshold
    BY <1>1 DEF RootNear
  <2>4. \A j \in Loops : connCount'[j] = IF j = k THEN connCount[j] + d ELSE connCount[j]
    BY <1>3, <2>1 DEF Calibrates
  <2> QED
    BY <2>1, <2>2, <2>3, <2>4
<1>4. CASE acceptNewConnection
  BY <1>1, <1>4, AcceptIsNear
<1> QED
  BY <1>2, <1>3, <1>4, StepsOfSet

\* The loop that the least-connections set answers with has fewer connections
\* than any other plus the number of loops.
THEOREM NextIsNearMinimal == Spec => NextNearMinimal
<1> DEFINE A == \A c \in Conns :
        opts.balancer = "LeastConnections" /\ ~opts.reusePort /\ el[c] = 0 /\ el'[c] # 0
          => \A l \in Loops : connCount[el'[c]] < connCount[l] + NumEventLoop
<1>1. TypeOK /\ RootNear /\ [Next]_vars => A
  <2> SUFFICES ASSUME TypeOK, RootNear, [Next]_vars, NEW c \in Conns,
                      opts.balancer = "LeastConnections", ~opts.reusePort,
                      el[c] = 0, el'[c] # 0, NEW l \in Loops
               PROVE  connCount[el'[c]] < connCount[l] + NumEventLoop
    OBVIOUS
  <2>1. acceptNewConnection
    <3>1. CASE MainAccept \/ MainEnds \/ stop
      BY <3>1 DEF MainAccept, MainEnds, stop, connVars
    <3>2. ASSUME NEW k \in Loops,
                 Kevent(k) \/ ForEach(k) \/ OpenJob(k) \/ StopJob(k) \/ EndLoop(k)
          PROVE  el' = el
      BY <3>2 DEF Kevent, ForEach, OpenJob, StopJob, EndLoop, connVars
    <3>3. ASSUME NEW k \in Loops, NEW b, Close(k, b) \/ ReplyFails(k, b)
          PROVE  el' = el
      BY <3>3 DEF Close, loopCloseConn, FlushFails, ReplyFails, CloseFd
    <3>4. ASSUME NEW k \in Loops, HandleEvent(k) \/ loopOpen(k) \/ closeAllConns(k)
          PROVE  el' = el
      BY <3>3, <3>4 DEF HandleEvent, loopOpen, closeAllConns, connVars
    <3>5. ASSUME NEW k \in Loops, OuterClose(k) \/ NextFrame(k) PROVE el' = el
      BY <3>3, <3>5 DEF OuterClose, NextFrame, CloseFd, connVars
    <3>6. \A k \in Loops : ~loopAccept(k)
      BY DEF loopAccept
    <3>7. ~UNCHANGED vars
      BY DEF vars, connVars
    <3> QED
      BY <3>1, <3>2, <3>4, <3>5, <3>6, <3>7 DEF Next
  <2>2. PICK n : /\ el' = [el EXCEPT ![hand[Main]] = n]
                 /\ connCount[n] < connCount[l] + NumEventLoop
    BY <2>1, AcceptIsNear
  <2>3. el'[c] = n
    BY <2>2 DEF TypeOK
  <2> QED
    BY <2>2, <2>3
<1>2. Spec => [](TypeOK /\ RootNear)
  BY TypeInit, TypeInductive, RootNearInit, RootNearInductive, PTL DEF Spec
<1>3. [][A]_vars <=> NextNearMinimal
  BY DEF NextNearMinimal
<1> HIDE DEF A
<1> QED
  BY <1>1, <1>2, <1>3, PTL DEF Spec

-----------------------------------------------------------------------------
(* The events of a batch.                                                  *)

\* The jobs are run when the batch they were woken up by is done.
BatchFirst == \A l \in Loops : taken[l] # <<>> => batch[l] = <<>>

\* What EventsForOwner says of one event and the map of its loop.
Current(map, e) == e.fd \in Fds /\ map[e.fd] \in {e.conn, None}

EventsCurrent ==
  ~opts.reusePort => \A l \in Loops : \A i \in DOMAIN batch[l] : Current(connections[l], batch[l][i])

\* A map that has only lost entries.
OnlyForgets(l) == \A f \in Fds : connections'[l][f] \in {connections[l][f], None}

LEMMA TailElements ==
  ASSUME NEW S, NEW q \in Seq(S), q # <<>>, NEW i \in DOMAIN Tail(q)
  PROVE  i + 1 \in DOMAIN q /\ Tail(q)[i] = q[i + 1]
<1>1. Len(q) \in Nat /\ Len(q) > 0 /\ DOMAIN q = 1..Len(q) /\ DOMAIN Tail(q) = 1..(Len(q) - 1)
  OBVIOUS
<1> QED
  BY <1>1

LEMMA CloseForgets ==
  ASSUME TypeOK, NEW k \in Loops, NEW c \in Conns,
         Close(k, c) \/ ReplyFails(k, c) \/ \E r : CloseFd(k, c, r),
         NEW l \in Loops
  PROVE  OnlyForgets(l)
<1>1. connections' = [connections EXCEPT ![k][fd[c]] = None]
  BY DEF Close, loopCloseConn, FlushFails, ReplyFails, CloseFd, Forget
<1> QED
  BY <1>1 DEF OnlyForgets, TypeOK

\* What a step does to the batch and the map of a loop, with a main reactor.
LEMMA StepsOfBatch ==
  ASSUME TypeOK, BatchFirst, [Next]_vars, ~opts.reusePort, NEW l \in Loops
  PROVE  \/ OnlyForgets(l) /\ batch'[l] = batch[l]
         \/ OnlyForgets(l) /\ batch[l] # <<>> /\ batch'[l] = Tail(batch[l])
         \/ batch'[l] = <<>>
         \/ Kevent(l)
<1> USE DEF connVars, mainVars, loopVars
<1>1. UNCHANGED connections => OnlyForgets(l)
  BY DEF OnlyForgets
<1>2. CASE MainAccept \/ acceptNewConnection \/ MainEnds \/ stop
  BY <1>1, <1>2 DEF MainAccept, acceptNewConnection, MainEnds, stop
<1>3. ASSUME NEW k \in Loops, ForEach(k) \/ StopJob(k)
      PROVE  OnlyForgets(l) /\ batch'[l] = batch[l]
  BY <1>1, <1>3 DEF ForEach, StopJob
<1>4. ASSUME NEW k \in Loops, Kevent(k)
      PROVE  (OnlyForgets(l) /\ batch'[l] = batch[l]) \/ Kevent(l)
  <2>1. CASE k = l
    BY <1>4, <2>1
  <2>2. CASE k # l
    <3>1. batch'[l] = batch[l] /\ UNCHANGED connections
      BY <1>4, <2>2 DEF Kevent, TypeOK
    <3> QED
      BY <1>1, <3>1
  <2> QED
    BY <2>1, <2>2
<1>5. ASSUME NEW k \in Loops, HandleEvent(k)
      PROVE  /\ OnlyForgets(l)
             /\ batch'[l] = batch[l] \/ (batch[l] # <<>> /\ batch'[l] = Tail(batch[l]))
  <2>1. batch[k] # <<>> /\ batch' = [batch EXCEPT ![k] = Tail(@)]
    BY <1>5 DEF HandleEvent, NextEvent
  <2>2. batch'[l] = batch[l] \/ (batch[l] # <<>> /\ batch'[l] = Tail(batch[l]))
    BY <2>1 DEF TypeOK
  <2>3. Head(batch[k]) \in Events /\ Head(batch[k]).fd # ListenFd
    BY <1>5, NextEventType DEF HandleEvent
  <2> DEFINE c == connections[k][Head(batch[k]).fd]
  <2>4. c \in Conns \cup {None}
    BY <2>3 DEF TypeOK, Events
  <2>5. UNCHANGED connections \/ (c # None /\ (Close(k, c) \/ ReplyFails(k, c)))
    BY <1>5 DEF HandleEvent
  <2>6. OnlyForgets(l)
    BY <1>1, <2>4, <2>5, CloseForgets
  <2> QED
    BY <2>2, <2>6
<1>6. ASSUME NEW k \in Loops PROVE ~loopAccept(k)
  BY DEF loopAccept
<1>7. ASSUME NEW k \in Loops, OpenJob(k)
      PROVE  batch'[l] = <<>> \/ (OnlyForgets(l) /\ batch'[l] = batch[l])
  <2>1. batch' = batch /\ batch[k] = <<>>
    BY <1>7 DEF OpenJob, NextJob, BatchFirst
  <2>2. CASE k # l
    <3>1. connections'[l] = connections[l]
      BY <1>7, <2>2 DEF OpenJob, AddRead, Register, TypeOK
    <3> QED
      BY <2>1, <3>1 DEF OnlyForgets
  <2> QED
    BY <2>1, <2>2
<1>8. ASSUME NEW k \in Loops, loopOpen(k) PROVE OnlyForgets(l) /\ batch'[l] = batch[l]
  <2>1. opening[k] \in Conns /\ (UNCHANGED connections \/ Close(k, opening[k]))
    BY <1>8 DEF loopOpen, TypeOK
  <2> QED
    BY <1>1, <1>8, <2>1, CloseForgets DEF loopOpen
<1>9. ASSUME NEW k \in Loops, OuterClose(k) PROVE OnlyForgets(l) /\ batch'[l] = batch[l]
  <2>1. closing[k] \in Conns /\ (UNCHANGED connections \/ \E r : CloseFd(k, closing[k], r))
    BY <1>9 DEF OuterClose, TypeOK
  <2> QED
    BY <1>1, <1>9, <2>1, CloseForgets DEF OuterClose
<1>10. ASSUME NEW k \in Loops, closeAllConns(k) PROVE OnlyForgets(l) /\ batch'[l] = batch[l]
  <2>1. PICK c \in Conns : Close(k, c)
    BY <1>10 DEF closeAllConns, Entries
  <2> QED
    BY <1>10, <2>1, CloseForgets DEF closeAllConns
<1>11. ASSUME NEW k \in Loops, EndLoop(k)
       PROVE  batch'[l] = <<>> \/ (OnlyForgets(l) /\ batch'[l] = batch[l])
  BY <1>1, <1>11 DEF EndLoop, TypeOK
<1>12. ASSUME NEW k \in Loops, NextFrame(k) PROVE OnlyForgets(l) /\ batch'[l] = batch[l]
  <2>1. reading[k] \in Conns /\ (UNCHANGED connections \/ ReplyFails(k, reading[k]))
    BY <1>12 DEF NextFrame, TypeOK
  <2> QED
    BY <1>1, <1>12, <2>1, CloseForgets DEF NextFrame
<1>13. CASE UNCHANGED vars
  BY <1>1, <1>13 DEF vars
<1> QED
  BY <1>2, <1>3, <1>4, <1>5, <1>6, <1>7, <1>8, <1>9, <1>10, <1>11, <1>12, <1>13 DEF Next

LEMMA BatchFirstInductive == TypeOK /\ BatchFirst /\ [Next]_vars => BatchFirst'
<1> SUFFICES ASSUME TypeOK, BatchFirst, [Next]_vars, NEW l \in Loops
             PROVE  taken'[l] # <<>> => batch'[l] = <<>>
  BY DEF BatchFirst
<1> USE DEF connVars, mainVars, loopVars
<1>0. taken[l] # <<>> => batch[l] = <<>>
  BY DEF BatchFirst
<1>1. CASE MainAccept \/ acceptNewConnection \/ MainEnds \/ stop
  BY <1>0, <1>1 DEF MainAccept, acceptNewConnection, MainEnds, stop
<1>2. ASSUME NEW k \in Loops, Kevent(k) PROVE taken'[l] # <<>> => batch'[l] = <<>>
  <2>1. taken' = taken /\ (k # l => batch'[l] = batch[l]) /\ taken[k] = <<>>
    BY <1>2 DEF Kevent, TypeOK
  <2> QED
    BY <1>0, <2>1
<1>3. ASSUME NEW k \in Loops, NextEvent(k), taken' = taken
      PROVE  taken'[l] # <<>> => batch'[l] = <<>>
  <2>1. batch[k] # <<>> /\ (k # l => batch'[l] = batch[l])
    BY <1>3 DEF NextEvent, TypeOK
  <2> QED
    BY <1>0, <1>3, <2>1
<1>4. ASSUME NEW k \in Loops, HandleEvent(k) \/ loopAccept(k)
      PROVE  taken'[l] # <<>> => batch'[l] = <<>>
  BY <1>3, <1>4 DEF HandleEvent, loopAccept
<1>5. ASSUME NEW k \in Loops, ForEach(k) PROVE taken'[l] # <<>> => batch'[l] = <<>>
  <2>1. batch' = batch /\ batch[k] = <<>> /\ (k # l => taken'[l] = taken[l])
    BY <1>5 DEF ForEach, WokenUp, TypeOK
  <2> QED
    BY <1>0, <2>1
<1>6. ASSUME NEW k \in Loops, OpenJob(k) \/ StopJob(k)
      PROVE  taken'[l] # <<>> => batch'[l] = <<>>
  <2>1. /\ batch' = batch /\ taken[k] # <<>>
        /\ k # l => taken'[l] = taken[l]
    BY <1>6 DEF OpenJob, StopJob, NextJob, TypeOK
  <2>2. batch[k] = <<>>
    BY <2>1 DEF BatchFirst
  <2> QED
    BY <1>0, <2>1, <2>2
<1>7. ASSUME NEW k \in Loops, loopOpen(k) \/ OuterClose(k) \/ NextFrame(k) \/ closeAllConns(k)
      PROVE  taken'[l] # <<>> => batch'[l] = <<>>
  BY <1>0, <1>7 DEF loopOpen, OuterClose, NextFrame, closeAllConns
<1>8. ASSUME NEW k \in Loops, EndLoop(k) PROVE taken'[l] # <<>> => batch'[l] = <<>>
  BY <1>0, <1>8 DEF EndLoop, TypeOK
<1>9. CASE UNCHANGED vars
  BY <1>0, <1>9 DEF vars
<1> QED
  BY <1>1, <1>2, <1>4, <1>5, <1>6, <1>7, <1>8, <1>9 DEF Next

\* kevent reports what the kqueue has registered.
LEMMA KeventIsCurrent ==
  ASSUME TypeOK, ~opts.reusePort, NEW l \in Loops, Kevent(l), NEW i \in DOMAIN batch'[l]
  PROVE  Current(connections'[l], batch'[l][i])
<1>1. PICK n \in 1..MaxBatch : \E fds \in [1..n -> Watched(l)] :
        batch' = [batch EXCEPT ![l] = [j \in 1..n |-> Event(fds[j])]]
  BY DEF Kevent
<1>2. PICK fds \in [1..n -> Watched(l)] :
        batch' = [batch EXCEPT ![l] = [j \in 1..n |-> Event(fds[j])]]
  BY <1>1
<1>3. batch'[l] = [j \in 1..n |-> Event(fds[j])] /\ UNCHANGED connections
  BY <1>2 DEF Kevent, TypeOK
<1>4. i \in 1..n /\ batch'[l][i] = Event(fds[i]) /\ fds[i] \in Registered(l)
  BY <1>2, <1>3 DEF Watched
<1>5. fds[i] \in Fds /\ fds[i] # ListenFd /\ connections[l][fds[i]] = sock[fds[i]]
  BY <1>4 DEF Registered, Fds, ListenFd
<1> QED
  BY <1>3, <1>4, <1>5 DEF Current, Event

LEMMA EventsCurrentInductive ==
  TypeOK /\ BatchFirst /\ EventsCurrent /\ [Next]_vars => EventsCurrent'
<1> SUFFICES ASSUME TypeOK, BatchFirst, EventsCurrent, [Next]_vars, ~opts'.reusePort,
                    NEW l \in Loops, NEW i \in DOMAIN batch'[l]
             PROVE  Current(connections'[l], batch'[l][i])
  BY DEF EventsCurrent
<1>1. ~opts.reusePort
  BY StepsOfSet
<1>2. \A j \in DOMAIN batch[l] : Current(connections[l], batch[l][j])
  BY <1>1 DEF EventsCurrent
<1>3. ASSUME NEW e, OnlyForgets(l), Current(connections[l], e) PROVE Current(connections'[l], e)
  BY <1>3 DEF OnlyForgets, Current
<1>4. CASE OnlyForgets(l) /\ batch'[l] = batch[l]
  BY <1>2, <1>3, <1>4 DEF Current
<1>5. CASE OnlyForgets(l) /\ batch[l] # <<>> /\ batch'[l] = Tail(batch[l])
  <2>1. batch[l] \in Seq(Events) /\ i \in DOMAIN Tail(batch[l])
    BY <1>5 DEF TypeOK
  <2>2. i + 1 \in DOMAIN batch[l] /\ batch'[l][i] = batch[l][i + 1]
    BY <1>5, <2>1, TailElements
  <2> QED
    BY <1>2, <1>3, <1>5, <2>2 DEF Current
<1>6. CASE batch'[l] = <<>>
  BY <1>6
<1>7. CASE Kevent(l)
  BY <1>1, <1>7, KeventIsCurrent
<1> QED
  BY <1>1, <1>4, <1>5, <1>6, <1>7, StepsOfBatch

\* With a main reactor the connection that an event of a batch is handled for is
\* the one it is of, or none, although a descriptor that was closed in the batch
\* may be accepted again at once: acceptNewConnection registers by a job, which
\* Polling runs behind the batch (acceptor_unix.go:21-29, kqueue.go:136-139).
THEOREM EventsFindOwner == Spec => []EventsForOwner
<1>1. Init => BatchFirst /\ EventsCurrent
  BY DEF Init, BatchFirst, EventsCurrent
<1>2. Spec => [](TypeOK /\ BatchFirst /\ EventsCurrent)
  BY <1>1, TypeInit, TypeInductive, BatchFirstInductive, EventsCurrentInductive, PTL DEF Spec
<1>3. EventsCurrent => EventsForOwner
  BY DEF EventsCurrent, Current, EventsForOwner
<1> QED
  BY <1>2, <1>3, PTL

-----------------------------------------------------------------------------
(* Where the connections are.                                              *)

\* The jobs of a loop, in the order they are run in.
Queue(l) == taken[l] \o jobs[l]

JobsOf(l) == {c \in Conns : \E i \in DOMAIN Queue(l) : Queue(l)[i] = c}

\* No connection is in a queue twice.
Once(q) == \A i, j \in DOMAIN q : q[i] = q[j] /\ q[i] # Stop => i = j

Opened(c) == c <= accepted /\ closes[c] = 0

InHand(c) == \E a \in Loops \cup {Main} : hand[a] = c
InJob(c)  == \E l \in Loops : c \in JobsOf(l)
InMap(c)  == \E l \in Loops : c \in Entries(l)

\* The kernel's descriptors are those of the open connections.
Descriptors ==
  /\ \A c \in Conns : c > accepted => closes[c] = 0
  /\ \A c \in Conns : c <= accepted => fd[c] \in Fds
  /\ \A f \in Fds, c \in Conns : sock[f] = c <=> Opened(c) /\ fd[c] = f

\* An open connection is in exactly one of a hand, a job and a map.
OnePlace ==
  /\ \A a, b \in Loops \cup {Main} : hand[a] = hand[b] /\ hand[a] # None => a = b
  /\ \A l \in Loops : Once(Queue(l))
  /\ \A c \in Conns : Opened(c) <=> InHand(c) \/ InJob(c) \/ InMap(c)
  /\ \A c \in Conns : ~(InHand(c) /\ InJob(c)) /\ ~(InHand(c) /\ InMap(c)) /\ ~(InJob(c) /\ InMap(c))

\* A job and an entry of a map are with the loop of the connection.
Homes ==
  /\ \A l \in Loops, c \in Conns : c \in JobsOf(l) => el[c] = l
  /\ \A l \in Loops, f \in Fds :
       connections[l][f] # None => fd[connections[l][f]] = f /\ el[connections[l][f]] = l

Counted == \A l \in Loops : connCount[l] = Cardinality(Entries(l))

Owned == Descriptors /\ OnePlace /\ Homes /\ Counted

\* What a loop is at: after an error of AddRead it has ended Polling, and the
\* connection of a flush or a reply that failed is closed.
Stage(l) ==
  /\ hand[l] # None => loop[l] # "polling"
  /\ opening[l] # None => loop[l] = "polling" /\ closing[l] = None /\ reading[l] = None
  /\ closing[l] # None => closes[closing[l]] # 0
  /\ reading[l] # None => closes[reading[l]] # 0

Stages == \A l \in Loops : Stage(l)

OpeningHere == \A l \in Loops : opening[l] # None => opening[l] \in Entries(l)

\* The queues.

LEMMA OnceAppend ==
  ASSUME NEW q \in Seq(Conns \cup {Stop}), NEW c \in Conns \cup {Stop}, Once(q),
         c = Stop \/ \A i \in DOMAIN q : q[i] # c
  PROVE  Once(Append(q, c))
<1> DEFINE n == Len(q) + 1
<1>1. /\ DOMAIN q = 1..Len(q) /\ DOMAIN Append(q, c) = 1..n /\ Len(q) \in Nat
      /\ Append(q, c)[n] = c
      /\ \A i \in 1..Len(q) : Append(q, c)[i] = q[i]
  OBVIOUS
<1>2. ASSUME NEW i \in 1..n, NEW j \in 1..n, Append(q, c)[i] = Append(q, c)[j],
             Append(q, c)[i] # Stop
      PROVE  i = j
  <2>1. i \in 1..Len(q) \/ i = n
    BY <1>1
  <2>2. j \in 1..Len(q) \/ j = n
    BY <1>1
  <2> QED
    BY <1>1, <1>2, <2>1, <2>2 DEF Once
<1> QED
  BY <1>1, <1>2 DEF Once

LEMMA OnceTail ==
  ASSUME NEW q \in Seq(Conns \cup {Stop}), q # <<>>, Once(q)
  PROVE  /\ Once(Tail(q))
         /\ \A c \in Conns : (\E i \in DOMAIN Tail(q) : Tail(q)[i] = c)
                               <=> (\E i \in DOMAIN q : q[i] = c) /\ c # Head(q)
<1>1. /\ Len(q) \in Nat /\ Len(q) > 0 /\ DOMAIN q = 1..Len(q)
      /\ DOMAIN Tail(q) = 1..(Len(q) - 1) /\ Head(q) = q[1]
  OBVIOUS
<1>2. \A i \in DOMAIN Tail(q) : i + 1 \in DOMAIN q /\ Tail(q)[i] = q[i + 1]
  BY TailElements
<1>3. Once(Tail(q))
  BY <1>1, <1>2 DEF Once
<1>4. ASSUME NEW c \in Conns, NEW i \in DOMAIN Tail(q), Tail(q)[i] = c
      PROVE  (\E k \in DOMAIN q : q[k] = c) /\ c # Head(q)
  <2>1. i + 1 \in DOMAIN q /\ q[i + 1] = c /\ 1 \in DOMAIN q /\ i + 1 # 1 /\ c # Stop
    BY <1>1, <1>2, <1>4 DEF Conns, Stop
  <2> QED
    BY <1>1, <2>1 DEF Once
<1>5. ASSUME NEW c \in Conns, NEW i \in DOMAIN q, q[i] = c, c # Head(q)
      PROVE  \E k \in DOMAIN Tail(q) : Tail(q)[k] = c
  <2>1. i # 1 /\ i - 1 \in DOMAIN Tail(q)
    BY <1>1, <1>5
  <2>2. Tail(q)[i - 1] = q[(i - 1) + 1]
    BY <1>2, <2>1
  <2> QED
    BY <1>1, <1>5, <2>1, <2>2
<1> QED
  BY <1>3, <1>4, <1>5

LEMMA QueueType ==
  ASSUME TypeOK, NEW l \in Loops
  PROVE  Queue(l) \in Seq(Conns \cup {Stop})
BY ConcatProperties DEF TypeOK, Queue

LEMMA ConcatHeadTail ==
  ASSUME NEW S, NEW s \in Seq(S), NEW t \in Seq(S), s # <<>>
  PROVE  /\ s \o t # <<>>
         /\ Head(s \o t) = Head(s)
         /\ Tail(s \o t) = Tail(s) \o t
OBVIOUS

LEMMA ConcatAppend ==
  ASSUME NEW S, NEW s \in Seq(S), NEW t \in Seq(S), NEW x \in S
  PROVE  s \o Append(t, x) = Append(s \o t, x)
OBVIOUS

LEMMA QueueAdd ==
  ASSUME TypeOK, NEW l \in Loops, NEW c \in Conns \cup {Stop},
         jobs'[l] = Append(jobs[l], c), taken'[l] = taken[l]
  PROVE  Queue(l)' = Append(Queue(l), c)
<1> DEFINE S == Conns \cup {Stop}
<1>1. jobs[l] \in Seq(S) /\ taken[l] \in Seq(S) /\ c \in S
  BY DEF TypeOK
<1>2. taken[l] \o Append(jobs[l], c) = Append(taken[l] \o jobs[l], c)
  <2> HIDE DEF S
  <2>1. \A s, t \in Seq(S), x \in S : s \o Append(t, x) = Append(s \o t, x)
    BY ConcatAppend
  <2> QED
    BY <1>1, <2>1
<1> QED
  BY <1>2 DEF Queue

LEMMA QueueTake ==
  ASSUME TypeOK, NEW l \in Loops, NextJob(l), jobs' = jobs
  PROVE  /\ Queue(l) # <<>>
         /\ Queue(l)' = Tail(Queue(l))
         /\ Head(Queue(l)) = Head(taken[l])
<1>1. jobs[l] \in Seq(Conns \cup {Stop}) /\ taken[l] \in Seq(Conns \cup {Stop}) /\ taken[l] # <<>>
  BY DEF TypeOK, NextJob
<1>2. taken'[l] = Tail(taken[l]) /\ jobs'[l] = jobs[l]
  BY DEF TypeOK, NextJob
<1>3. /\ taken[l] \o jobs[l] # <<>>
      /\ Tail(taken[l] \o jobs[l]) = Tail(taken[l]) \o jobs[l]
      /\ Head(taken[l] \o jobs[l]) = Head(taken[l])
  BY <1>1, ConcatHeadTail
<1> QED
  BY <1>2, <1>3 DEF Queue

LEMMA QueueMoved ==
  ASSUME TypeOK, NEW l \in Loops, ForEach(l)
  PROVE  Queue(l)' = Queue(l)
<1>1. /\ jobs[l] \in Seq(Conns \cup {Stop}) /\ taken[l] = <<>>
      /\ taken'[l] = jobs[l] /\ jobs'[l] = <<>>
  BY DEF TypeOK, ForEach
<1>2. <<>> \o jobs[l] = jobs[l] /\ jobs[l] \o <<>> = jobs[l]
  BY <1>1
<1> QED
  BY <1>1, <1>2 DEF Queue

\* What a step does to the jobs of a loop: nothing, or Stop comes or goes.
SameJobs(l) ==
  /\ JobsOf(l)' = JobsOf(l)
  /\ Once(Queue(l)) => Once(Queue(l)')

LEMMA SameQueue ==
  ASSUME NEW l \in Loops, taken'[l] = taken[l], jobs'[l] = jobs[l]
  PROVE  SameJobs(l)
BY DEF SameJobs, JobsOf, Queue

LEMMA JobAdded ==
  ASSUME TypeOK, NEW l \in Loops, NEW c \in Conns \cup {Stop}, c \notin JobsOf(l),
         jobs'[l] = Append(jobs[l], c), taken'[l] = taken[l]
  PROVE  /\ Once(Queue(l)) => Once(Queue(l)')
         /\ JobsOf(l)' = JobsOf(l) \cup ({c} \ {Stop})
<1> DEFINE q == Queue(l)
<1>1. q \in Seq(Conns \cup {Stop}) /\ Queue(l)' = Append(q, c)
  BY QueueType, QueueAdd
<1>2. c = Stop \/ \A i \in DOMAIN q : q[i] # c
  BY DEF JobsOf
<1>3. Once(q) => Once(Append(q, c))
  BY <1>1, <1>2, OnceAppend
<1>4. \A b \in Conns : (\E i \in DOMAIN Append(q, c) : Append(q, c)[i] = b)
                          <=> (\E i \in DOMAIN q : q[i] = b) \/ b = c
  <2> DEFINE n == Len(q) + 1
  <2>1. /\ DOMAIN q = 1..Len(q) /\ DOMAIN Append(q, c) = 1..n /\ Len(q) \in Nat
        /\ Append(q, c)[n] = c
        /\ \A i \in 1..Len(q) : Append(q, c)[i] = q[i]
    BY <1>1
  <2>2. \A i \in 1..n : i \in 1..Len(q) \/ i = n
    BY <2>1
  <2>3. n \in 1..n /\ 1..Len(q) \subseteq 1..n
    BY <2>1
  <2> HIDE DEF n, q
  <2> QED
    BY <2>1, <2>2, <2>3
<1>5. Stop \notin Conns
  BY DEF Stop, Conns
<1>6. JobsOf(l)' = {b \in Conns : \E i \in DOMAIN Append(q, c) : Append(q, c)[i] = b}
  BY <1>1 DEF JobsOf
<1>7. JobsOf(l) = {b \in Conns : \E i \in DOMAIN q : q[i] = b}
  BY DEF JobsOf
<1> HIDE DEF q
<1>8. JobsOf(l)' = JobsOf(l) \cup ({c} \ {Stop})
  BY <1>4, <1>5, <1>6, <1>7
<1> QED
  BY <1>1, <1>3, <1>8 DEF q

LEMMA JobTaken ==
  ASSUME TypeOK, NEW l \in Loops, Once(Queue(l)), NextJob(l), jobs' = jobs
  PROVE  /\ Once(Queue(l)')
         /\ JobsOf(l)' = JobsOf(l) \ {Head(taken[l])}
         /\ Head(taken[l]) # Stop => Head(taken[l]) \in JobsOf(l)
<1> DEFINE q == Queue(l)
<1>1. /\ q \in Seq(Conns \cup {Stop}) /\ q # <<>>
      /\ Queue(l)' = Tail(q) /\ Head(q) = Head(taken[l])
  BY QueueType, QueueTake
<1>2. /\ Once(Tail(q))
      /\ \A c \in Conns : (\E i \in DOMAIN Tail(q) : Tail(q)[i] = c)
                            <=> (\E i \in DOMAIN q : q[i] = c) /\ c # Head(q)
  BY <1>1, OnceTail
<1>3. JobsOf(l)' = {b \in Conns : \E i \in DOMAIN Tail(q) : Tail(q)[i] = b}
  BY <1>1 DEF JobsOf
<1>4. JobsOf(l) = {b \in Conns : \E i \in DOMAIN q : q[i] = b}
  BY DEF JobsOf
<1>5. 1 \in DOMAIN q /\ q[1] = Head(q) /\ Head(q) \in Conns \cup {Stop}
  BY <1>1
<1> HIDE DEF q
<1>6. JobsOf(l)' = JobsOf(l) \ {Head(q)}
  BY <1>2, <1>3, <1>4
<1>7. Head(q) # Stop => Head(q) \in JobsOf(l)
  BY <1>4, <1>5
<1> QED
  BY <1>1, <1>2, <1>6, <1>7

\* The hands.

LEMMA HandFilled ==
  ASSUME TypeOK, OnePlace, NEW a \in Loops \cup {Main}, NEW c \in Conns, ~InHand(c), hand[a] = None,
         \A b \in Loops \cup {Main} : hand'[b] = IF b = a THEN c ELSE hand[b]
  PROVE  /\ InHand(c)'
         /\ \A d \in Conns \ {c} : InHand(d)' <=> InHand(d)
         /\ \A b, e \in Loops \cup {Main} : hand'[b] = hand'[e] /\ hand'[b] # None => b = e
<1>1. None \notin Conns
  BY DEF None, Conns
<1>2. InHand(c)'
  BY DEF InHand
<1>3. ASSUME NEW d \in Conns \ {c} PROVE InHand(d)' <=> InHand(d)
  BY <1>1 DEF InHand
<1>4. \A b, e \in Loops \cup {Main} : hand'[b] = hand'[e] /\ hand'[b] # None => b = e
  BY DEF OnePlace, InHand
<1> QED
  BY <1>2, <1>3, <1>4

LEMMA HandEmptied ==
  ASSUME TypeOK, OnePlace, NEW a \in Loops \cup {Main}, NEW c \in Conns, hand[a] = c,
         \A b \in Loops \cup {Main} : hand'[b] = IF b = a THEN None ELSE hand[b]
  PROVE  /\ ~InHand(c)'
         /\ \A d \in Conns \ {c} : InHand(d)' <=> InHand(d)
         /\ \A b, e \in Loops \cup {Main} : hand'[b] = hand'[e] /\ hand'[b] # None => b = e
<1>1. None \notin Conns
  BY DEF None, Conns
<1>2. \A b, e \in Loops \cup {Main} : hand[b] = hand[e] /\ hand[b] # None => b = e
  BY DEF OnePlace
<1>3. ~InHand(c)'
  BY <1>1, <1>2 DEF InHand
<1>4. ASSUME NEW d \in Conns \ {c} PROVE InHand(d)' <=> InHand(d)
  BY <1>1 DEF InHand
<1>5. \A b, e \in Loops \cup {Main} : hand'[b] = hand'[e] /\ hand'[b] # None => b = e
  BY <1>2
<1> QED
  BY <1>3, <1>4, <1>5

\* The maps.

LEMMA EntriesFinite == ASSUME NEW l PROVE IsFiniteSet(Entries(l))
<1>1. IsFiniteSet(Conns)
  BY AcceptorAssumption, FS_Interval DEF Conns
<1>2. Entries(l) \subseteq Conns
  BY DEF Entries
<1> QED
  BY <1>1, <1>2, FS_Subset

LEMMA EntryAdded ==
  ASSUME TypeOK, NEW l \in Loops, NEW c \in Conns, NEW f \in Fds, connections[l][f] = None,
         \A k \in Loops, g \in Fds :
           connections'[k][g] = IF k = l /\ g = f THEN c ELSE connections[k][g]
  PROVE  /\ Entries(l)' = Entries(l) \cup {c}
         /\ \A k \in Loops \ {l} : Entries(k)' = Entries(k)
<1>1. None \notin Conns
  BY DEF None, Conns
<1> QED
  BY <1>1 DEF Entries

LEMMA EntryForgotten ==
  ASSUME TypeOK, NEW l \in Loops, NEW c \in Conns, NEW f \in Fds, connections[l][f] = c,
         \A g \in Fds : connections[l][g] = c => g = f,
         \A k \in Loops, g \in Fds :
           connections'[k][g] = IF k = l /\ g = f THEN None ELSE connections[k][g]
  PROVE  /\ Entries(l)' = Entries(l) \ {c}
         /\ \A k \in Loops \ {l} : Entries(k)' = Entries(k)
<1>1. None \notin Conns
  BY DEF None, Conns
<1> QED
  BY <1>1 DEF Entries

\* The lowest free descriptor is a free one.
LEMMA AcceptIsFree ==
  ASSUME TypeOK, NEW c, NEW f, Accept(c, f)
  PROVE  f \in Fds /\ sock[f] = None
<1>1. Free # {} /\ Free \subseteq Nat /\ f = Min(Free)
  BY DEF Accept, Free, Fds
<1>2. PICK i \in Free : \A j \in Free : ~(j < i)
  <2> DEFINE R == OpToRel(<, Nat)
  <2>1. IsWellFoundedOn(R, Nat)
    BY NatLessThanWellFounded
  <2>2. \A j, k \in Nat : j < k => <<j, k>> \in R
    BY DEF OpToRel
  <2> HIDE DEF R
  <2>3. \E k \in Free : \A j \in Free : ~(<<j, k>> \in R)
    BY <1>1, <2>1, WFMin
  <2> QED
    BY <1>1, <2>2, <2>3
<1>3. \A j \in Free : i <= j
  BY <1>1, <1>2
<1>4. Min(Free) \in Free
  BY <1>2, <1>3 DEF Min
<1> QED
  BY <1>1, <1>4 DEF Free

\* What a step may do with the connections: nothing,
Stays ==
  /\ UNCHANGED <<connCount, accepted, sock, fd, el, closes, hand, connections>>
  /\ \A l \in Loops : SameJobs(l)

\* accept one into a hand,
IntoHand(a, c, f) ==
  /\ Accept(c, f)
  /\ hand[a] = None /\ hand' = [hand EXCEPT ![a] = c]
  /\ \A d \in Conns \ {c} : el'[d] = el[d]
  /\ UNCHANGED <<connCount, connections>>
  /\ \A l \in Loops : SameJobs(l)

\* accept one into a map,
IntoMap(l, c, f) ==
  /\ Accept(c, f)
  /\ Register(l, c, f)
  /\ el' = [el EXCEPT ![c] = l]
  /\ UNCHANGED hand
  /\ \A k \in Loops : SameJobs(k)

\* make a job of the one in the hand of the main reactor,
HandToJob(c, l) ==
  /\ hand[Main] = c /\ hand' = [hand EXCEPT ![Main] = None]
  /\ el' = [el EXCEPT ![c] = l]
  /\ JobsOf(l)' = JobsOf(l) \cup {c}
  /\ \A k \in Loops \ {l} : JobsOf(k)' = JobsOf(k)
  /\ c \notin JobsOf(l) => \A k \in Loops : Once(Queue(k)) => Once(Queue(k)')
  /\ UNCHANGED <<connCount, accepted, sock, fd, closes, connections>>

\* run a job, which registers or fails to,
FromJob(c, l) ==
  /\ c \in JobsOf(l) /\ JobsOf(l)' = JobsOf(l) \ {c}
  /\ \A k \in Loops \ {l} : JobsOf(k)' = JobsOf(k)
  /\ \A k \in Loops : Once(Queue(k)')
  /\ UNCHANGED <<accepted, sock, fd, el, closes>>

JobToMap(c, l) ==
  /\ FromJob(c, l)
  /\ Register(l, c, fd[c])
  /\ UNCHANGED hand

JobToHand(c, l) ==
  /\ FromJob(c, l)
  /\ hand[l] = None /\ hand' = [hand EXCEPT ![l] = c]
  /\ UNCHANGED <<connCount, connections>>

\* or close one of the map.
Closes(c, l) ==
  /\ c \in Entries(l)
  /\ \E r : CloseFd(l, c, r)
  /\ UNCHANGED hand
  /\ \A k \in Loops : SameJobs(k)

LEMMA StaysOwned ==
  ASSUME Owned, Stays
  PROVE  Owned'
<1>1. Descriptors'
  BY DEF Owned, Stays, Descriptors, Opened
<1>2. \A l \in Loops : Entries(l)' = Entries(l) /\ JobsOf(l)' = JobsOf(l)
  BY DEF Stays, SameJobs, Entries
<1>3. \A c : (InHand(c)' <=> InHand(c)) /\ (InJob(c)' <=> InJob(c)) /\ (InMap(c)' <=> InMap(c))
  BY <1>2 DEF Stays, InHand, InJob, InMap
<1>4. \A l \in Loops : Once(Queue(l)')
  BY DEF Owned, OnePlace, Stays, SameJobs
<1>5. OnePlace'
  BY <1>3, <1>4 DEF Owned, OnePlace, Stays, Opened
<1>6. Homes'
  BY <1>2 DEF Owned, Homes, Stays
<1>7. Counted'
  BY <1>2 DEF Owned, Counted, Stays
<1> QED
  BY <1>1, <1>5, <1>6, <1>7 DEF Owned

\* An entry is under the descriptor of its connection, which is open.
LEMMA EntryIsOpen ==
  ASSUME TypeOK, Owned, NEW l \in Loops, NEW c \in Conns, c \in Entries(l)
  PROVE  /\ Opened(c) /\ fd[c] \in Fds /\ sock[fd[c]] = c /\ el[c] = l
         /\ connections[l][fd[c]] = c
         /\ \A g \in Fds : connections[l][g] = c => g = fd[c]
<1>1. Opened(c)
  BY DEF Owned, OnePlace, InMap
<1>2. c # None
  BY DEF Conns, None
<1>3. \A g \in Fds : connections[l][g] = c => g = fd[c] /\ el[c] = l
  BY <1>2 DEF Owned, Homes
<1>4. PICK g \in Fds : connections[l][g] = c
  BY DEF Entries
<1>5. g = fd[c] /\ el[c] = l
  BY <1>3, <1>4
<1> QED
  BY <1>1, <1>3, <1>4, <1>5 DEF Owned, Descriptors

LEMMA Numbers ==
  ASSUME TypeOK
  PROVE  accepted \in Nat /\ Conns \subseteq Nat \ {None} /\ Fds \subseteq Nat \ {0}
BY AcceptorAssumption DEF TypeOK, Conns, Fds, None

LEMMA ClosesOwned ==
  ASSUME TypeOK, Owned, NEW l \in Loops, NEW c \in Conns, Closes(c, l)
  PROVE  Owned' /\ \A k \in Loops \ {l} : Entries(k)' = Entries(k)
<1> DEFINE f == fd[c]
<1>1. PICK r : CloseFd(l, c, r)
  BY DEF Closes
<1>2. /\ Opened(c) /\ f \in Fds /\ sock[f] = c /\ el[c] = l
      /\ connections[l][f] = c
      /\ \A g \in Fds : connections[l][g] = c => g = f
  BY EntryIsOpen DEF Closes
<1>3. /\ connections' = [connections EXCEPT ![l][f] = None]
      /\ sock' = [sock EXCEPT ![f] = None]
      /\ closes' = [closes EXCEPT ![c] = @ + 1]
      /\ connCount' = [connCount EXCEPT ![l] = @ - 1]
      /\ UNCHANGED <<accepted, fd, el>>
  BY <1>1 DEF CloseFd, Forget, Uncount
<1>4. /\ Entries(l)' = Entries(l) \ {c}
      /\ \A k \in Loops \ {l} : Entries(k)' = Entries(k)
  <2>1. \A k \in Loops, g \in Fds :
          connections'[k][g] = IF k = l /\ g = f THEN None ELSE connections[k][g]
    BY <1>2, <1>3 DEF TypeOK
  <2> HIDE DEF f
  <2> QED
    BY <1>2, <2>1, EntryForgotten
<1>5. \A k \in Loops : JobsOf(k)' = JobsOf(k) /\ Once(Queue(k)')
  BY DEF Closes, SameJobs, Owned, OnePlace
<1>6. closes'[c] = 1 /\ \A d \in Conns \ {c} : closes'[d] = closes[d]
  BY <1>2, <1>3 DEF TypeOK, Opened
<1>7. ~Opened(c)' /\ \A d \in Conns \ {c} : Opened(d)' <=> Opened(d)
  BY <1>3, <1>6 DEF Opened
<1>8. \A k \in Loops : c \in Entries(k) => k = l
  BY EntryIsOpen, <1>2
<1>9. ~InMap(c)' /\ \A d \in Conns \ {c} : InMap(d)' <=> InMap(d)
  BY <1>4, <1>8 DEF InMap
<1>10. \A d \in Conns : (InHand(d)' <=> InHand(d)) /\ (InJob(d)' <=> InJob(d))
  BY <1>5 DEF InHand, InJob, Closes
<1>11. InMap(c)
  BY DEF InMap, Closes
<1>12. OnePlace'
  BY <1>5, <1>7, <1>9, <1>10, <1>11 DEF Owned, OnePlace, Closes
<1>13. Descriptors'
  <2>1. \A d \in Conns : d > accepted' => closes'[d] = 0
    BY <1>2, <1>3, <1>6, Numbers DEF Owned, Descriptors, Opened
  <2>2. \A d \in Conns : d <= accepted' => fd'[d] \in Fds
    BY <1>3 DEF Owned, Descriptors
  <2>3. ASSUME NEW g \in Fds, NEW d \in Conns
        PROVE  sock'[g] = d <=> Opened(d)' /\ fd'[d] = g
    <3>1. sock[g] = d <=> Opened(d) /\ fd[d] = g
      BY DEF Owned, Descriptors
    <3>2. sock'[g] = IF g = f THEN None ELSE sock[g]
      BY <1>3 DEF TypeOK
    <3>3. d # None
      BY DEF Conns, None
    <3> QED
      BY <1>2, <1>3, <1>7, <3>1, <3>2, <3>3
  <2> QED
    BY <2>1, <2>2, <2>3 DEF Descriptors
<1>14. Homes'
  <2>1. ASSUME NEW k \in Loops, NEW g \in Fds, connections'[k][g] # None
        PROVE  connections'[k][g] = connections[k][g]
    BY <1>3, <2>1 DEF TypeOK
  <2>2. \A k \in Loops, d \in Conns : d \in JobsOf(k)' => el'[d] = k
    BY <1>3, <1>5 DEF Owned, Homes
  <2> QED
    BY <1>3, <2>1, <2>2 DEF Owned, Homes
<1>15. Counted'
  <2>1. Cardinality(Entries(l) \ {c}) = Cardinality(Entries(l)) - 1
    BY EntriesFinite, FS_RemoveElement DEF Closes
  <2>2. \A k \in Loops : connCount'[k] = IF k = l THEN connCount[k] - 1 ELSE connCount[k]
    BY <1>3 DEF TypeOK
  <2> QED
    BY <1>4, <2>1, <2>2 DEF Owned, Counted
<1> QED
  BY <1>4, <1>12, <1>13, <1>14, <1>15 DEF Owned

\* The connection accepted is new: it is nowhere, and no map has its descriptor.
LEMMA AcceptIsNew ==
  ASSUME TypeOK, Owned, NEW c \in Conns, NEW f, Accept(c, f)
  PROVE  /\ f \in Fds /\ \A l \in Loops : connections[l][f] = None
         /\ ~InHand(c) /\ ~InJob(c) /\ ~InMap(c)
         /\ Opened(c)' /\ \A d \in Conns \ {c} : Opened(d)' <=> Opened(d)
         /\ Descriptors'
<1>1. f \in Fds /\ sock[f] = None
  BY AcceptIsFree
<1>2. /\ c = accepted + 1 /\ accepted' = c /\ closes' = closes
      /\ \A g \in Fds : sock'[g] = IF g = f THEN c ELSE sock[g]
      /\ \A d \in Conns : fd'[d] = IF d = c THEN f ELSE fd[d]
  BY DEF Accept, TypeOK
<1>3. closes[c] = 0 /\ ~Opened(c)
  BY <1>2, Numbers DEF Owned, Descriptors, Opened
<1>4. ~InHand(c) /\ ~InJob(c) /\ ~InMap(c)
  BY <1>3 DEF Owned, OnePlace
<1>5. Opened(c)' /\ \A d \in Conns \ {c} : Opened(d)' <=> Opened(d)
  BY <1>2, <1>3, Numbers DEF Opened
<1>6. ASSUME NEW l \in Loops PROVE connections[l][f] = None
  <2>1. ASSUME connections[l][f] # None PROVE FALSE
    <3>1. connections[l][f] \in Conns
      BY <1>1, <2>1 DEF TypeOK
    <3>2. connections[l][f] \in Entries(l)
      BY <1>1, <3>1 DEF Entries
    <3>3. Opened(connections[l][f]) /\ fd[connections[l][f]] = f
      BY <1>1, <2>1, <3>1, <3>2 DEF Owned, OnePlace, InMap, Homes
    <3>4. sock[f] = connections[l][f]
      BY <1>1, <3>1, <3>3 DEF Owned, Descriptors
    <3> QED
      BY <1>1, <2>1, <3>4
  <2> QED
    BY <2>1
<1>7. \A d \in Conns : d > accepted' => closes'[d] = 0
  BY <1>2, Numbers DEF Owned, Descriptors
<1>8. \A d \in Conns : d <= accepted' => fd'[d] \in Fds
  BY <1>1, <1>2, Numbers DEF Owned, Descriptors
<1>9. ASSUME NEW g \in Fds, NEW d \in Conns
      PROVE  sock'[g] = d <=> Opened(d)' /\ fd'[d] = g
  <2>1. sock[g] = d <=> Opened(d) /\ fd[d] = g
    BY DEF Owned, Descriptors
  <2>2. d # None
    BY Numbers
  <2> QED
    BY <1>1, <1>2, <1>3, <1>5, <2>1, <2>2
<1>10. Descriptors'
  BY <1>7, <1>8, <1>9 DEF Descriptors
<1> QED
  BY <1>1, <1>4, <1>5, <1>6, <1>10

LEMMA IntoHandOwned ==
  ASSUME TypeOK, Owned, NEW a \in Loops \cup {Main}, NEW c \in Conns, NEW f, IntoHand(a, c, f)
  PROVE  Owned'
<1>1. /\ f \in Fds
      /\ ~InHand(c) /\ ~InJob(c) /\ ~InMap(c)
      /\ Opened(c)' /\ \A d \in Conns \ {c} : Opened(d)' <=> Opened(d)
      /\ Descriptors'
  BY AcceptIsNew DEF IntoHand
<1>2. \A b \in Loops \cup {Main} : hand'[b] = IF b = a THEN c ELSE hand[b]
  BY DEF IntoHand, TypeOK
<1>3. /\ InHand(c)'
      /\ \A d \in Conns \ {c} : InHand(d)' <=> InHand(d)
      /\ \A b, e \in Loops \cup {Main} : hand'[b] = hand'[e] /\ hand'[b] # None => b = e
  BY <1>1, <1>2, HandFilled DEF IntoHand, Owned
<1>4. \A l \in Loops : JobsOf(l)' = JobsOf(l) /\ Entries(l)' = Entries(l) /\ Once(Queue(l)')
  BY DEF IntoHand, SameJobs, Entries, Owned, OnePlace
<1>5. \A d \in Conns : (InJob(d)' <=> InJob(d)) /\ (InMap(d)' <=> InMap(d))
  BY <1>4 DEF InJob, InMap
<1>6. OnePlace'
  BY <1>1, <1>3, <1>4, <1>5 DEF Owned, OnePlace
<1>7. \A d \in Conns \ {c} : fd'[d] = fd[d] /\ el'[d] = el[d]
  BY DEF IntoHand, Accept, TypeOK
<1>8. Homes'
  <2>1. \A l \in Loops : c \notin JobsOf(l) /\ c \notin Entries(l)
    BY <1>1 DEF InJob, InMap
  <2>2. \A l \in Loops, d \in Conns : d \in JobsOf(l)' => el'[d] = l
    BY <1>4, <1>7, <2>1 DEF Owned, Homes
  <2>3. ASSUME NEW l \in Loops, NEW g \in Fds, connections'[l][g] # None
        PROVE  fd'[connections'[l][g]] = g /\ el'[connections'[l][g]] = l
    <3>1. connections'[l][g] = connections[l][g] /\ connections[l][g] \in Conns
      BY <2>3 DEF IntoHand, TypeOK
    <3>2. connections[l][g] # c
      BY <2>1, <3>1 DEF Entries
    <3> QED
      BY <1>7, <2>3, <3>1, <3>2 DEF Owned, Homes
  <2> QED
    BY <2>2, <2>3 DEF Homes
<1>9. Counted'
  BY <1>4 DEF IntoHand, Owned, Counted
<1> QED
  BY <1>1, <1>6, <1>8, <1>9 DEF Owned

\* Registering under a free descriptor.
LEMMA RegisterAdds ==
  ASSUME TypeOK, Owned, NEW l \in Loops, NEW c \in Conns, NEW f \in Fds,
         connections[l][f] = None, ~InMap(c), Register(l, c, f)
  PROVE  /\ \A k \in Loops, g \in Fds :
              connections'[k][g] = IF k = l /\ g = f THEN c ELSE connections[k][g]
         /\ Entries(l)' = Entries(l) \cup {c}
         /\ \A k \in Loops \ {l} : Entries(k)' = Entries(k)
         /\ InMap(c)' /\ \A d \in Conns \ {c} : InMap(d)' <=> InMap(d)
         /\ Counted'
<1>1. \A k \in Loops, g \in Fds :
        connections'[k][g] = IF k = l /\ g = f THEN c ELSE connections[k][g]
  BY DEF Register, TypeOK
<1>2. /\ Entries(l)' = Entries(l) \cup {c}
      /\ \A k \in Loops \ {l} : Entries(k)' = Entries(k)
  BY <1>1, EntryAdded
<1>3. InMap(c)' /\ \A d \in Conns \ {c} : InMap(d)' <=> InMap(d)
  BY <1>2 DEF InMap
<1>4. Counted'
  <2>1. c \notin Entries(l)
    BY DEF InMap
  <2>2. Cardinality(Entries(l) \cup {c}) = Cardinality(Entries(l)) + 1
    BY <2>1, EntriesFinite, FS_AddElement
  <2>3. \A k \in Loops : connCount'[k] = IF k = l THEN connCount[k] + 1 ELSE connCount[k]
    BY DEF Register, TypeOK
  <2> QED
    BY <1>2, <2>2, <2>3 DEF Owned, Counted
<1> QED
  BY <1>1, <1>2, <1>3, <1>4

LEMMA IntoMapOwned ==
  ASSUME TypeOK, Owned, NEW l \in Loops, NEW c \in Conns, NEW f, IntoMap(l, c, f)
  PROVE  Owned' /\ c \in Entries(l)' /\ \A k \in Loops : Entries(k) \subseteq Entries(k)'
<1>1. /\ f \in Fds /\ connections[l][f] = None
      /\ ~InHand(c) /\ ~InJob(c) /\ ~InMap(c)
      /\ Opened(c)' /\ \A d \in Conns \ {c} : Opened(d)' <=> Opened(d)
      /\ Descriptors'
  BY AcceptIsNew DEF IntoMap
<1>2. /\ \A k \in Loops, g \in Fds :
           connections'[k][g] = IF k = l /\ g = f THEN c ELSE connections[k][g]
      /\ InMap(c)' /\ \A d \in Conns \ {c} : InMap(d)' <=> InMap(d)
      /\ Counted'
      /\ c \in Entries(l)' /\ \A k \in Loops : Entries(k) \subseteq Entries(k)'
  BY <1>1, RegisterAdds DEF IntoMap
<1>3. \A k \in Loops : JobsOf(k)' = JobsOf(k) /\ Once(Queue(k)')
  BY DEF IntoMap, SameJobs, Owned, OnePlace
<1>4. \A d \in Conns : (InJob(d)' <=> InJob(d)) /\ (InHand(d)' <=> InHand(d))
  BY <1>3 DEF IntoMap, InJob, InHand
<1>5. OnePlace'
  BY <1>1, <1>2, <1>3, <1>4 DEF Owned, OnePlace, IntoMap
<1>6. /\ \A d \in Conns \ {c} : fd'[d] = fd[d] /\ el'[d] = el[d]
      /\ fd'[c] = f /\ el'[c] = l
  BY <1>1 DEF IntoMap, Accept, TypeOK
<1>7. Homes'
  <2>1. \A k \in Loops : c \notin JobsOf(k) /\ c \notin Entries(k)
    BY <1>1 DEF InJob, InMap
  <2>2. \A k \in Loops, d \in Conns : d \in JobsOf(k)' => el'[d] = k
    BY <1>3, <1>6, <2>1 DEF Owned, Homes
  <2>3. ASSUME NEW k \in Loops, NEW g \in Fds, connections'[k][g] # None
        PROVE  fd'[connections'[k][g]] = g /\ el'[connections'[k][g]] = k
    <3>1. CASE k = l /\ g = f
      BY <1>2, <1>6, <3>1
    <3>2. CASE ~(k = l /\ g = f)
      <4>1. connections'[k][g] = connections[k][g] /\ connections[k][g] \in Conns
        BY <1>2, <2>3, <3>2 DEF TypeOK
      <4>2. connections[k][g] # c
        BY <2>1, <4>1 DEF Entries
      <4> QED
        BY <1>6, <2>3, <4>1, <4>2 DEF Owned, Homes
    <3> QED
      BY <3>1, <3>2
  <2> QED
    BY <2>2, <2>3 DEF Homes
<1> QED
  BY <1>1, <1>2, <1>5, <1>7 DEF Owned

LEMMA HandToJobOwned ==
  ASSUME TypeOK, Owned, NEW c \in Conns, NEW l \in Loops, HandToJob(c, l)
  PROVE  Owned'
<1>1. InHand(c) /\ ~InJob(c) /\ ~InMap(c) /\ Opened(c)
  BY DEF HandToJob, InHand, Owned, OnePlace
<1>2. \A b \in Loops \cup {Main} : hand'[b] = IF b = Main THEN None ELSE hand[b]
  BY DEF HandToJob, TypeOK
<1>3. /\ ~InHand(c)'
      /\ \A d \in Conns \ {c} : InHand(d)' <=> InHand(d)
      /\ \A b, e \in Loops \cup {Main} : hand'[b] = hand'[e] /\ hand'[b] # None => b = e
  BY <1>2, HandEmptied DEF HandToJob, Owned
<1>4. \A k \in Loops : c \notin JobsOf(k) /\ c \notin Entries(k)
  BY <1>1 DEF InJob, InMap
<1>5. /\ JobsOf(l)' = JobsOf(l) \cup {c}
      /\ \A k \in Loops \ {l} : JobsOf(k)' = JobsOf(k)
      /\ \A k \in Loops : Once(Queue(k)')
      /\ UNCHANGED <<connCount, accepted, sock, fd, closes, connections>>
  BY <1>4 DEF HandToJob, Owned, OnePlace
<1>6. InJob(c)' /\ \A d \in Conns \ {c} : InJob(d)' <=> InJob(d)
  BY <1>5 DEF InJob
<1>7. \A k \in Loops : Entries(k)' = Entries(k)
  BY <1>5 DEF Entries
<1>8. \A d \in Conns : (InMap(d)' <=> InMap(d)) /\ (Opened(d)' <=> Opened(d))
  BY <1>5, <1>7 DEF InMap, Opened
<1>9. OnePlace'
  BY <1>1, <1>3, <1>5, <1>6, <1>8 DEF Owned, OnePlace
<1>10. Descriptors'
  BY <1>5, <1>8 DEF Owned, Descriptors
<1>11. el'[c] = l /\ \A d \in Conns \ {c} : el'[d] = el[d]
  BY DEF HandToJob, TypeOK
<1>12. Homes'
  <2>1. \A k \in Loops, d \in Conns : d \in JobsOf(k)' => el'[d] = k
    BY <1>4, <1>5, <1>11 DEF Owned, Homes
  <2>2. ASSUME NEW k \in Loops, NEW g \in Fds, connections'[k][g] # None
        PROVE  fd'[connections'[k][g]] = g /\ el'[connections'[k][g]] = k
    <3>1. connections'[k][g] = connections[k][g] /\ connections[k][g] \in Conns
      BY <1>5, <2>2 DEF TypeOK
    <3>2. connections[k][g] # c
      BY <1>4, <3>1 DEF Entries
    <3> QED
      BY <1>5, <1>11, <2>2, <3>1, <3>2 DEF Owned, Homes
  <2> QED
    BY <2>1, <2>2 DEF Homes
<1>13. Counted'
  BY <1>5, <1>7 DEF Owned, Counted
<1> QED
  BY <1>9, <1>10, <1>12, <1>13 DEF Owned

\* A job that is run leaves its queue, and was in no other.
LEMMA JobLeaves ==
  ASSUME TypeOK, Owned, NEW c \in Conns, NEW l \in Loops, FromJob(c, l)
  PROVE  /\ ~InHand(c) /\ ~InMap(c) /\ Opened(c) /\ el[c] = l
         /\ ~InJob(c)' /\ \A d \in Conns \ {c} : InJob(d)' <=> InJob(d)
         /\ \A d \in Conns : Opened(d)' <=> Opened(d)
         /\ Descriptors'
         /\ \A k \in Loops, d \in Conns : d \in JobsOf(k)' => el'[d] = k
<1>1. ~InHand(c) /\ ~InMap(c) /\ Opened(c)
  BY DEF FromJob, InJob, Owned, OnePlace
<1>2. \A k \in Loops : c \in JobsOf(k) => k = l
  BY DEF FromJob, Owned, Homes
<1>3. ~InJob(c)'
  BY <1>2 DEF FromJob, InJob
<1>4. ASSUME NEW d \in Conns \ {c} PROVE InJob(d)' <=> InJob(d)
  BY DEF FromJob, InJob
<1>5. \A d \in Conns : Opened(d)' <=> Opened(d)
  BY DEF FromJob, Opened
<1>6. Descriptors'
  BY <1>5 DEF FromJob, Owned, Descriptors
<1>7. \A k \in Loops, d \in Conns : d \in JobsOf(k)' => el'[d] = k
  BY DEF FromJob, Owned, Homes
<1>8. el[c] = l
  BY DEF FromJob, Owned, Homes
<1> QED
  BY <1>1, <1>3, <1>4, <1>5, <1>6, <1>7, <1>8

LEMMA JobToMapOwned ==
  ASSUME TypeOK, Owned, NEW c \in Conns, NEW l \in Loops, JobToMap(c, l)
  PROVE  Owned' /\ c \in Entries(l)' /\ \A k \in Loops : Entries(k) \subseteq Entries(k)'
<1> DEFINE f == fd[c]
<1>1. /\ ~InHand(c) /\ ~InMap(c) /\ Opened(c) /\ el[c] = l
      /\ ~InJob(c)' /\ \A d \in Conns \ {c} : InJob(d)' <=> InJob(d)
      /\ \A d \in Conns : Opened(d)' <=> Opened(d)
      /\ Descriptors'
      /\ \A k \in Loops, d \in Conns : d \in JobsOf(k)' => el'[d] = k
  BY JobLeaves DEF JobToMap
<1>2. f \in Fds /\ sock[f] = c
  BY <1>1 DEF Owned, Descriptors, Opened
<1>3. connections[l][f] = None
  <2>1. ASSUME connections[l][f] # None PROVE FALSE
    <3>1. connections[l][f] \in Conns /\ connections[l][f] \in Entries(l)
      BY <1>2, <2>1 DEF TypeOK, Entries
    <3>2. sock[fd[connections[l][f]]] = connections[l][f]
      BY <3>1, EntryIsOpen
    <3>3. fd[connections[l][f]] = f
      BY <1>2, <2>1 DEF Owned, Homes
    <3> QED
      BY <1>1, <1>2, <3>1, <3>2, <3>3 DEF InMap
  <2> QED
    BY <2>1
<1>4. Register(l, c, f)
  BY DEF JobToMap
<1>5. /\ \A k \in Loops, g \in Fds :
           connections'[k][g] = IF k = l /\ g = f THEN c ELSE connections[k][g]
      /\ InMap(c)' /\ \A d \in Conns \ {c} : InMap(d)' <=> InMap(d)
      /\ Counted'
      /\ c \in Entries(l)' /\ \A k \in Loops : Entries(k) \subseteq Entries(k)'
  <2> HIDE DEF f
  <2> QED
    BY <1>1, <1>2, <1>3, <1>4, RegisterAdds
<1>6. \A d \in Conns : InHand(d)' <=> InHand(d)
  BY DEF JobToMap, InHand
<1>7. OnePlace'
  BY <1>1, <1>5, <1>6 DEF Owned, OnePlace, JobToMap, FromJob
<1>8. Homes'
  BY <1>1, <1>2, <1>5 DEF Owned, Homes, JobToMap, FromJob
<1> QED
  BY <1>1, <1>5, <1>7, <1>8 DEF Owned

LEMMA JobToHandOwned ==
  ASSUME TypeOK, Owned, NEW c \in Conns, NEW l \in Loops, JobToHand(c, l)
  PROVE  Owned'
<1>1. /\ ~InHand(c) /\ ~InMap(c) /\ Opened(c)
      /\ ~InJob(c)' /\ \A d \in Conns \ {c} : InJob(d)' <=> InJob(d)
      /\ \A d \in Conns : Opened(d)' <=> Opened(d)
      /\ Descriptors'
      /\ \A k \in Loops, d \in Conns : d \in JobsOf(k)' => el'[d] = k
  BY JobLeaves DEF JobToHand
<1>2. \A b \in Loops \cup {Main} : hand'[b] = IF b = l THEN c ELSE hand[b]
  BY DEF JobToHand, TypeOK
<1>3. /\ InHand(c)'
      /\ \A d \in Conns \ {c} : InHand(d)' <=> InHand(d)
      /\ \A b, e \in Loops \cup {Main} : hand'[b] = hand'[e] /\ hand'[b] # None => b = e
  BY <1>1, <1>2, HandFilled DEF JobToHand, Owned
<1>4. \A k \in Loops : Entries(k)' = Entries(k)
  BY DEF JobToHand, Entries
<1>5. \A d \in Conns : InMap(d)' <=> InMap(d)
  BY <1>4 DEF InMap
<1>6. OnePlace'
  BY <1>1, <1>3, <1>5 DEF Owned, OnePlace, JobToHand, FromJob
<1>7. Homes'
  BY <1>1 DEF Owned, Homes, JobToHand, FromJob
<1>8. Counted'
  BY <1>4 DEF Owned, Counted, JobToHand
<1> QED
  BY <1>1, <1>6, <1>7, <1>8 DEF Owned

\* The stages of a loop.

LEMMA ReturnStage ==
  ASSUME TypeOK, NEW k \in Loops, NEW r, Return(k, r)
  PROVE  /\ \A l \in Loops \ {k} : loop'[l] = loop[l]
         /\ loop'[k] = loop[k] \/ (loop[k] = "polling" /\ loop'[k] = "exit")
BY DEF Return, TypeOK

LEMMA CloseFdStage ==
  ASSUME TypeOK, NEW k \in Loops, NEW c \in Conns, NEW r, CloseFd(k, c, r)
  PROVE  closes'[c] # 0 /\ \A d \in Conns : closes[d] # 0 => closes'[d] # 0
<1>1. \A d \in Conns : closes'[d] = IF d = c THEN closes[d] + 1 ELSE closes[d]
  BY DEF CloseFd, TypeOK
<1>2. \A d \in Conns : closes[d] \in Nat
  BY DEF TypeOK
<1> QED
  BY <1>1, <1>2

LEMMA CloseStage ==
  ASSUME TypeOK, NEW k \in Loops, NEW c \in Conns, Close(k, c)
  PROVE  /\ closes'[c] # 0 /\ \A d \in Conns : closes[d] # 0 => closes'[d] # 0
         /\ \A l \in Loops \ {k} : loop'[l] = loop[l] /\ closing'[l] = closing[l]
         /\ loop'[k] = loop[k] \/ (loop[k] = "polling" /\ loop'[k] = "exit")
         /\ closing'[k] = closing[k] \/ closing'[k] = c
<1>1. PICK r : /\ CloseFd(k, c, r)
               /\ Return(k, r) \/ UNCHANGED loop
               /\ closing' = closing \/ closing' = [closing EXCEPT ![k] = c]
  BY DEF Close, loopCloseConn, FlushFails
<1>2. closes'[c] # 0 /\ \A d \in Conns : closes[d] # 0 => closes'[d] # 0
  BY <1>1, CloseFdStage
<1>3. /\ \A l \in Loops \ {k} : loop'[l] = loop[l]
      /\ loop'[k] = loop[k] \/ (loop[k] = "polling" /\ loop'[k] = "exit")
  BY <1>1, ReturnStage
<1>4. /\ \A l \in Loops \ {k} : closing'[l] = closing[l]
      /\ closing'[k] = closing[k] \/ closing'[k] = c
  BY <1>1 DEF TypeOK
<1> QED
  BY <1>2, <1>3, <1>4

\* A loop that does not move keeps its stage, as nothing is closed less often.
LEMMA StageKept ==
  ASSUME TypeOK, NEW l \in Loops, Stage(l),
         hand'[l] = hand[l], loop'[l] = loop[l] \/ (loop[l] # "polling" /\ loop'[l] # "polling"),
         opening'[l] = opening[l], closing'[l] = closing[l], reading'[l] = reading[l],
         \A d \in Conns : closes[d] # 0 => closes'[d] # 0
  PROVE  Stage(l)'
BY DEF Stage, TypeOK

\* So does one that is at nothing but a closed connection.
LEMMA StageMoved ==
  ASSUME TypeOK, NEW l \in Loops, Stage(l), NEW c \in Conns, closes'[c] # 0,
         \A d \in Conns : closes[d] # 0 => closes'[d] # 0,
         hand'[l] = hand[l], opening'[l] = None,
         loop'[l] = loop[l] \/ (loop[l] = "polling" /\ loop'[l] = "exit"),
         closing'[l] \in {closing[l], None, c}, reading'[l] \in {reading[l], None, c}
  PROVE  Stage(l)'
<1>1. closing[l] \in Conns \cup {None} /\ reading[l] \in Conns \cup {None}
  BY DEF TypeOK
<1>2. closing'[l] # None => closes'[closing'[l]] # 0
  BY <1>1 DEF Stage
<1>3. reading'[l] # None => closes'[reading'[l]] # 0
  BY <1>1 DEF Stage
<1>4. hand'[l] # None => loop'[l] # "polling"
  BY DEF Stage
<1> QED
  BY <1>2, <1>3, <1>4 DEF Stage

LEMMA StagesInductive == TypeOK /\ Stages /\ [Next]_vars => Stages'
<1> SUFFICES ASSUME TypeOK, Stages, [Next]_vars, NEW l \in Loops PROVE Stage(l)'
  BY DEF Stages
<1> USE DEF connVars, mainVars, loopVars, setVars
<1>0. Stage(l) /\ Main \notin Loops
  BY DEF Stages, Main, Loops
<1>1. CASE MainAccept
  <2>1. hand'[l] = hand[l]
    BY <1>0, <1>1 DEF MainAccept, TypeOK
  <2> QED
    BY <1>0, <1>1, <2>1, StageKept DEF MainAccept, Accept
<1>2. CASE acceptNewConnection
  <2>1. hand'[l] = hand[l]
    BY <1>0, <1>2 DEF acceptNewConnection, TypeOK
  <2> QED
    BY <1>0, <1>2, <2>1, StageKept DEF acceptNewConnection
<1>3. CASE MainEnds \/ stop
  BY <1>0, <1>3, StageKept DEF MainEnds, stop
<1>4. ASSUME NEW k \in Loops, Kevent(k) \/ ForEach(k) PROVE Stage(l)'
  BY <1>0, <1>4, StageKept DEF Kevent, ForEach
\* A handler of loop k, which polls.
<1>5. ASSUME NEW k \in Loops, Polls(k), opening' = opening, hand' = hand,
             closes' = closes, closing' = closing, reading' = reading, NEW r, Return(k, r)
      PROVE  Stage(l)'
  <2>1. /\ l # k => loop'[l] = loop[l]
        /\ loop'[k] = loop[k] \/ loop'[k] = "exit"
    BY <1>5, ReturnStage
  <2> QED
    BY <1>0, <1>5, <2>1 DEF Stage, Polls
\* Loop k closes, and is not at work on an opening.
<1>6. ASSUME NEW k \in Loops, NEW c \in Conns, Close(k, c),
             hand' = hand, opening'[k] = None, l # k => opening'[l] = opening[l],
             reading' = reading
      PROVE  Stage(l)'
  <2>1. /\ closes'[c] # 0 /\ \A d \in Conns : closes[d] # 0 => closes'[d] # 0
        /\ l # k => loop'[l] = loop[l] /\ closing'[l] = closing[l]
        /\ loop'[k] = loop[k] \/ (loop[k] = "polling" /\ loop'[k] = "exit")
        /\ closing'[k] = closing[k] \/ closing'[k] = c
    BY <1>6, CloseStage
  <2>2. CASE l # k
    BY <1>0, <1>6, <2>1, <2>2, StageKept
  <2>3. CASE l = k
    BY <1>0, <1>6, <2>1, <2>3, StageMoved
  <2> QED
    BY <2>2, <2>3
\* Loop k goes on with a connection that has been closed.
<1>17. ASSUME NEW k \in Loops, NEW c \in Conns, NEW gone, AfterReply(k, c, gone),
              hand' = hand, opening' = opening, opening[k] = None, closes'[c] # 0,
              \A d \in Conns : closes[d] # 0 => closes'[d] # 0
       PROVE  Stage(l)'
  <2>1. /\ \A j \in Loops \ {k} : closing'[j] = closing[j] /\ reading'[j] = reading[j]
        /\ closing'[k] \in {closing[k], c} /\ reading'[k] \in {None, c}
    BY <1>17, AfterReplyType
  <2>2. /\ l # k => loop'[l] = loop[l]
        /\ loop'[k] = loop[k] \/ (loop[k] = "polling" /\ loop'[k] = "exit")
    BY <1>17, AfterReplyType, ReturnStage
  <2>3. CASE l # k
    BY <1>0, <1>17, <2>1, <2>2, <2>3, StageKept
  <2>4. CASE l = k
    BY <1>0, <1>17, <2>1, <2>2, <2>4, StageMoved
  <2> QED
    BY <2>3, <2>4
<1>18. ASSUME NEW k \in Loops, NEW c \in Conns, ReplyFails(k, c),
              hand' = hand, opening' = opening, opening[k] = None
       PROVE  Stage(l)'
  <2>1. PICK r : CloseFd(k, c, r) /\ AfterReply(k, c, r = "None")
    BY <1>18 DEF ReplyFails
  <2>2. closes'[c] # 0 /\ \A d \in Conns : closes[d] # 0 => closes'[d] # 0
    BY <2>1, CloseFdStage
  <2> QED
    BY <1>17, <1>18, <2>1, <2>2
<1>7. ASSUME NEW k \in Loops, HandleEvent(k) PROVE Stage(l)'
  <2> DEFINE c == connections[k][Head(batch[k]).fd]
  <2>1. Polls(k) /\ opening' = opening /\ hand' = hand
    BY <1>7 DEF HandleEvent, NextEvent
  <2>2. Head(batch[k]) \in Events /\ Head(batch[k]).fd # ListenFd
    BY <1>7, NextEventType DEF HandleEvent
  <2>3. c \in Conns \cup {None}
    BY <2>2 DEF TypeOK, Events
  <2>4. CASE UNCHANGED <<connVars, loop, closing, reading>>
    BY <1>0, <2>1, <2>4, StageKept
  <2>5. CASE c # None /\ Close(k, c) /\ UNCHANGED reading
    BY <1>6, <2>1, <2>3, <2>5 DEF Polls
  <2>6. CASE Return(k, "Shutdown") /\ UNCHANGED <<connVars, closing, reading>>
    BY <1>5, <2>1, <2>6
  <2>7. CASE c # None /\ ReplyFails(k, c)
    BY <1>18, <2>1, <2>3, <2>7 DEF Polls
  <2> QED
    BY <1>7, <2>4, <2>5, <2>6, <2>7 DEF HandleEvent
<1>19. ASSUME NEW k \in Loops, NextFrame(k) PROVE Stage(l)'
  <2> DEFINE c == reading[k]
  <2>1. Stage(k) /\ c \in Conns /\ c # None
    BY <1>19 DEF Stages, NextFrame, TypeOK
  <2>2. opening[k] = None /\ closes[c] # 0 /\ hand' = hand /\ opening' = opening
    BY <1>19, <2>1 DEF Stage, NextFrame
  <2>3. CASE AfterReply(k, c, FALSE) /\ UNCHANGED connVars
    BY <1>17, <2>1, <2>2, <2>3
  <2>4. CASE ReplyFails(k, c)
    BY <1>18, <2>1, <2>2, <2>4
  <2> QED
    BY <1>19, <2>3, <2>4 DEF NextFrame
<1>8. ASSUME NEW k \in Loops, NEW c \in Conns, NEW f, AddRead(k, c, f), Polls(k),
             closes' = closes, closing' = closing, reading' = reading
      PROVE  Stage(l)'
  <2>1. CASE opening' = [opening EXCEPT ![k] = c] /\ UNCHANGED <<hand, loop>>
    <3>1. l # k => opening'[l] = opening[l]
      BY <2>1 DEF TypeOK
    <3> QED
      BY <1>0, <1>8, <2>1, <3>1 DEF Stage, Polls
  <2>2. CASE hand' = [hand EXCEPT ![k] = c] /\ Return(k, "Shutdown") /\ UNCHANGED opening
    <3>1. /\ l # k => loop'[l] = loop[l] /\ hand'[l] = hand[l]
          /\ loop'[k] = "exit"
      BY <1>8, <2>2 DEF Return, Polls, TypeOK
    <3> QED
      BY <1>0, <1>8, <2>2, <3>1 DEF Stage, Polls
  <2> QED
    BY <1>8, <2>1, <2>2 DEF AddRead
<1>9. ASSUME NEW k \in Loops, loopAccept(k) PROVE Stage(l)'
  <2>1. Polls(k) /\ closing' = closing /\ reading' = reading
    BY <1>9 DEF loopAccept, NextEvent
  <2>2. CASE UNCHANGED <<connVars, hand, loop, opening>>
    BY <1>0, <2>1, <2>2, StageKept
  <2>3. ASSUME NEW c \in Conns, NEW f, Accept(c, f), AddRead(k, c, f) PROVE Stage(l)'
    BY <1>8, <2>1, <2>3 DEF Accept
  <2>4. CASE Return(k, "Shutdown") /\ UNCHANGED <<connVars, hand, opening>>
    BY <1>5, <2>1, <2>4
  <2> QED
    BY <1>9, <2>2, <2>3, <2>4 DEF loopAccept
<1>10. ASSUME NEW k \in Loops, OpenJob(k) PROVE Stage(l)'
  <2>1. Head(taken[k]) \in Conns
    BY <1>10, NextJobType DEF OpenJob
  <2> QED
    BY <1>8, <1>10, <2>1 DEF OpenJob, NextJob
<1>11. ASSUME NEW k \in Loops, StopJob(k) PROVE Stage(l)'
  BY <1>5, <1>11 DEF StopJob, NextJob
<1>12. ASSUME NEW k \in Loops, loopOpen(k) PROVE Stage(l)'
  <2>1. /\ opening[k] \in Conns /\ hand' = hand
        /\ opening'[k] = None /\ (l # k => opening'[l] = opening[l])
        /\ reading' = reading
    BY <1>12 DEF loopOpen, TypeOK
  <2>3. CASE Close(k, opening[k])
    BY <1>6, <2>1, <2>3
  <2>4. ASSUME NEW r, Return(k, r), UNCHANGED <<connVars, closing>> PROVE Stage(l)'
    <3>1. /\ l # k => loop'[l] = loop[l]
          /\ loop'[k] = loop[k] \/ loop'[k] = "exit"
      BY <2>4, ReturnStage
    <3> QED
      BY <1>0, <2>1, <2>4, <3>1 DEF Stage
  <2> QED
    BY <1>12, <2>3, <2>4 DEF loopOpen
<1>13. ASSUME NEW k \in Loops, OuterClose(k) PROVE Stage(l)'
  <2>1. /\ closing[k] \in Conns /\ hand' = hand /\ opening' = opening /\ reading' = reading
        /\ closing'[k] = None /\ (l # k => closing'[l] = closing[l])
    BY <1>13 DEF OuterClose, TypeOK
  <2>2. Stage(k) /\ closing[k] # None
    BY <1>13 DEF Stages, OuterClose
  <2>3. CASE UNCHANGED <<connVars, loop>>
    BY <1>0, <2>1, <2>3 DEF Stage
  <2>4. ASSUME NEW r, CloseFd(k, closing[k], r), Return(k, r) PROVE Stage(l)'
    <3>1. closes'[closing[k]] # 0 /\ \A d \in Conns : closes[d] # 0 => closes'[d] # 0
      BY <2>1, <2>4, CloseFdStage
    <3>2. /\ l # k => loop'[l] = loop[l]
          /\ loop'[k] = loop[k] \/ (loop[k] = "polling" /\ loop'[k] = "exit")
      BY <2>4, ReturnStage
    <3>3. CASE l # k
      BY <1>0, <2>1, <3>1, <3>2, <3>3, StageKept
    <3>4. CASE l = k
      <4>1. opening'[k] = None
        BY <2>1, <2>2 DEF Stage
      <4> QED
        BY <2>1, <2>2, <3>1, <3>2, <3>4, <4>1, StageMoved
    <3> QED
      BY <3>3, <3>4
  <2> QED
    BY <1>13, <2>3, <2>4 DEF OuterClose
<1>14. ASSUME NEW k \in Loops, closeAllConns(k) PROVE Stage(l)'
  <2>1. PICK c \in Conns : Close(k, c)
    BY <1>14 DEF closeAllConns, Entries
  <2>2. hand' = hand /\ opening' = opening /\ reading' = reading /\ loop[k] = "exit"
    BY <1>14 DEF closeAllConns
  <2>3. opening[k] = None
    BY <2>2 DEF Stages, Stage
  <2> QED
    BY <1>6, <2>1, <2>2, <2>3
<1>15. ASSUME NEW k \in Loops, EndLoop(k) PROVE Stage(l)'
  <2>1. /\ l # k => loop'[l] = loop[l]
        /\ loop[k] # "polling" /\ loop'[k] # "polling"
    BY <1>15 DEF EndLoop, TypeOK
  <2> QED
    BY <1>0, <1>15, <2>1, StageKept DEF EndLoop
<1>16. CASE UNCHANGED vars
  BY <1>0, <1>16, StageKept DEF vars
<1> QED
  BY <1>1, <1>2, <1>3, <1>4, <1>7, <1>9, <1>10, <1>11, <1>12, <1>13, <1>14, <1>15, <1>16, <1>19 DEF Next

\* Closing twice is not undone.
LEMMA ClosedTwiceStays == TypeOK /\ [Next]_vars /\ NoneClosedTwice' => NoneClosedTwice
<1> SUFFICES ASSUME TypeOK, [Next]_vars, NoneClosedTwice' PROVE NoneClosedTwice
  OBVIOUS
<1> USE DEF connVars
<1>1. closes' = closes => NoneClosedTwice
  BY DEF NoneClosedTwice
<1>2. ASSUME NEW k \in Loops, NEW c \in Conns, NEW r, CloseFd(k, c, r) PROVE NoneClosedTwice
  <2>1. \A d \in Conns : closes[d] \in Nat /\ closes'[d] = IF d = c THEN closes[d] + 1 ELSE closes[d]
    BY <1>2 DEF CloseFd, TypeOK
  <2> QED
    BY <2>1 DEF NoneClosedTwice
<1>3. ASSUME NEW k \in Loops, NEW c \in Conns, Close(k, c) \/ ReplyFails(k, c) PROVE NoneClosedTwice
  BY <1>2, <1>3 DEF Close, loopCloseConn, FlushFails, ReplyFails
<1>4. CASE MainAccept \/ acceptNewConnection \/ MainEnds \/ stop
  BY <1>1, <1>4 DEF MainAccept, acceptNewConnection, MainEnds, stop, Accept
<1>5. ASSUME NEW k \in Loops,
             Kevent(k) \/ loopAccept(k) \/ ForEach(k) \/ OpenJob(k) \/ StopJob(k) \/ EndLoop(k)
      PROVE  NoneClosedTwice
  BY <1>1, <1>5 DEF Kevent, loopAccept, ForEach, OpenJob, StopJob, EndLoop, Accept
<1>6. ASSUME NEW k \in Loops, HandleEvent(k) PROVE NoneClosedTwice
  <2>1. Head(batch[k]) \in Events /\ Head(batch[k]).fd # ListenFd
    BY <1>6, NextEventType DEF HandleEvent
  <2>2. connections[k][Head(batch[k]).fd] \in Conns \cup {None}
    BY <2>1 DEF TypeOK, Events
  <2> QED
    BY <1>1, <1>3, <1>6, <2>2 DEF HandleEvent
<1>7. ASSUME NEW k \in Loops, loopOpen(k) PROVE NoneClosedTwice
  <2>1. opening[k] \in Conns
    BY <1>7 DEF loopOpen, TypeOK
  <2> QED
    BY <1>1, <1>3, <1>7, <2>1 DEF loopOpen
<1>8. ASSUME NEW k \in Loops, OuterClose(k) PROVE NoneClosedTwice
  <2>1. closing[k] \in Conns
    BY <1>8 DEF OuterClose, TypeOK
  <2> QED
    BY <1>1, <1>2, <1>8, <2>1 DEF OuterClose
<1>9. ASSUME NEW k \in Loops, closeAllConns(k) PROVE NoneClosedTwice
  BY <1>3, <1>9 DEF closeAllConns, Entries
<1>10. ASSUME NEW k \in Loops, NextFrame(k) PROVE NoneClosedTwice
  <2>1. reading[k] \in Conns
    BY <1>10 DEF NextFrame, TypeOK
  <2> QED
    BY <1>1, <1>3, <1>10, <2>1 DEF NextFrame
<1>11. CASE UNCHANGED vars
  BY <1>1, <1>11 DEF vars
<1> QED
  BY <1>4, <1>5, <1>6, <1>7, <1>8, <1>9, <1>10, <1>11 DEF Next

\* The steps of the main reactor.
LEMMA MainSteps ==
  ASSUME TypeOK, Owned, MainAccept \/ acceptNewConnection \/ MainEnds \/ stop
  PROVE  \/ Stays
         \/ \E c \in Conns, f \in Fds : IntoHand(Main, c, f)
         \/ \E c \in Conns, l \in Loops : HandToJob(c, l)
<1> USE DEF connVars, mainVars, loopVars, setVars
<1>1. CASE MainAccept
  <2>1. \A l \in Loops : SameJobs(l)
    BY <1>1, SameQueue DEF MainAccept
  <2> QED
    BY <1>1, <2>1 DEF MainAccept, IntoHand
<1>2. CASE acceptNewConnection
  <2> DEFINE c == hand[Main]
  <2>1. PICK n \in next(set, fd[c], connCount) :
          /\ el' = [el EXCEPT ![c] = n.loop]
          /\ jobs' = [jobs EXCEPT ![n.loop] = Append(@, c)]
    BY <1>2 DEF acceptNewConnection
  <2>2. c \in Conns
    BY <1>2 DEF acceptNewConnection, TypeOK
  <2>3. fd[c] \in Nat
    BY <2>2, AcceptorAssumption DEF TypeOK, Fds
  <2>4. set \in Sets /\ connCount \in [Loops -> Int]
    BY DEF TypeOK
  <2>5. n.loop \in Loops
    BY <2>3, <2>4, NextType
  <2> DEFINE l == n.loop
  <2>6. /\ jobs'[l] = Append(jobs[l], c) /\ taken' = taken
        /\ \A k \in Loops \ {l} : jobs'[k] = jobs[k]
    BY <1>2, <2>1, <2>5 DEF acceptNewConnection, TypeOK
  <2>7. c \notin JobsOf(l)
    BY <2>2, <2>5 DEF Owned, OnePlace, InHand, InJob
  <2>8. c \in Conns \cup {Stop} /\ c # Stop
    BY <2>2 DEF Stop, Conns
  <2>9. \A k \in Loops \ {l} : SameJobs(k)
    BY <2>6, SameQueue
  <2>10. /\ Once(Queue(l)) => Once(Queue(l)')
         /\ JobsOf(l)' = JobsOf(l) \cup {c}
    <3>1. (Once(Queue(l)) => Once(Queue(l)')) /\ JobsOf(l)' = JobsOf(l) \cup ({c} \ {Stop})
      <4> HIDE DEF c, l
      <4>1. l \in Loops
        BY <2>5 DEF l
      <4> QED
        BY <2>6, <2>7, <2>8, <4>1, JobAdded
    <3> QED
      BY <2>8, <3>1
  <2>11. HandToJob(c, l)
    BY <1>2, <2>1, <2>9, <2>10 DEF HandToJob, acceptNewConnection, SameJobs
  <2> QED
    BY <2>2, <2>5, <2>11
<1>3. CASE MainEnds
  BY <1>3, SameQueue DEF MainEnds, Stays
<1>4. CASE stop
  <2>1. ASSUME NEW l \in Loops PROVE SameJobs(l)
    <3>1. jobs'[l] = Append(jobs[l], Stop) /\ taken' = taken /\ Stop \in Conns \cup {Stop}
      BY <1>4 DEF stop
    <3>2. Stop \notin JobsOf(l)
      BY DEF JobsOf, Conns, Stop
    <3>3. /\ Once(Queue(l)) => Once(Queue(l)')
          /\ JobsOf(l)' = JobsOf(l) \cup ({Stop} \ {Stop})
      BY <3>1, <3>2, JobAdded
    <3> QED
      BY <3>3 DEF SameJobs
  <2> QED
    BY <1>4, <2>1 DEF stop, Stays
<1> QED
  BY <1>1, <1>2, <1>3, <1>4

\* The steps of a loop that only move its batch and its jobs, or end it.
LEMMA QuietSteps ==
  ASSUME TypeOK, Owned, NEW l \in Loops, Kevent(l) \/ ForEach(l) \/ StopJob(l) \/ EndLoop(l)
  PROVE  Stays
<1> USE DEF connVars, mainVars, loopVars, setVars
<1>1. CASE Kevent(l) \/ EndLoop(l)
  BY <1>1, SameQueue DEF Kevent, EndLoop, Stays
<1>2. CASE ForEach(l)
  <2>1. Queue(l)' = Queue(l)
    BY <1>2, QueueMoved
  <2>2. SameJobs(l)
    BY <2>1 DEF SameJobs, JobsOf
  <2>3. \A k \in Loops \ {l} : taken'[k] = taken[k] /\ jobs'[k] = jobs[k]
    BY <1>2 DEF ForEach, TypeOK
  <2>4. \A k \in Loops : SameJobs(k)
    BY <2>2, <2>3, SameQueue
  <2> QED
    BY <1>2, <2>4 DEF ForEach, Stays
<1>3. CASE StopJob(l)
  <2>1. NextJob(l) /\ jobs' = jobs /\ Head(taken[l]) = Stop
    BY <1>3 DEF StopJob
  <2>2. Once(Queue(l)') /\ JobsOf(l)' = JobsOf(l) \ {Head(taken[l])}
    BY <2>1, JobTaken DEF Owned, OnePlace
  <2>3. SameJobs(l)
    BY <2>1, <2>2 DEF SameJobs, JobsOf, Conns, Stop
  <2>4. \A k \in Loops \ {l} : taken'[k] = taken[k] /\ jobs'[k] = jobs[k]
    BY <2>1 DEF NextJob, TypeOK
  <2>5. \A k \in Loops : SameJobs(k)
    BY <2>3, <2>4, SameQueue
  <2> QED
    BY <1>3, <2>5 DEF StopJob, Stays
<1> QED
  BY <1>1, <1>2, <1>3

\* The steps of a loop that may close.
LEMMA CloseSteps ==
  ASSUME TypeOK, Stages, OpeningHere, NoneClosedTwice', NEW l \in Loops,
         HandleEvent(l) \/ loopOpen(l) \/ OuterClose(l) \/ NextFrame(l) \/ closeAllConns(l)
  PROVE  /\ \A k \in Loops \ {l} : opening'[k] = opening[k]
         /\ \/ Stays /\ opening'[l] \in {opening[l], None}
            \/ opening'[l] = None /\ \E c \in Conns : Closes(c, l)
<1> USE DEF connVars, mainVars, loopVars, setVars
<1>1. /\ hand' = hand /\ jobs' = jobs /\ taken' = taken
      /\ \A k \in Loops \ {l} : opening'[k] = opening[k]
      /\ opening'[l] \in {opening[l], None}
  BY DEF HandleEvent, NextEvent, loopOpen, OuterClose, NextFrame, closeAllConns, TypeOK
<1>2. \A k \in Loops : SameJobs(k)
  BY <1>1, SameQueue
<1>3. UNCHANGED <<setVars, connVars, connections>> => Stays
  BY <1>1, <1>2 DEF Stays
<1>4. ASSUME NEW c \in Conns, c \in Entries(l), Close(l, c) \/ ReplyFails(l, c)
      PROVE  Closes(c, l)
  BY <1>1, <1>2, <1>4 DEF Closes, Close, loopCloseConn, FlushFails, ReplyFails
<1>5. Stage(l) /\ (opening[l] # None => opening[l] \in Entries(l))
  BY DEF Stages, OpeningHere
<1>6. CASE HandleEvent(l)
  <2> DEFINE c == connections[l][Head(batch[l]).fd]
  <2>1. Head(batch[l]) \in Events /\ Head(batch[l]).fd # ListenFd
    BY <1>6, NextEventType DEF HandleEvent
  <2>2. Head(batch[l]).fd \in Fds
    BY <2>1 DEF Events
  <2>3. c # None => c \in Conns /\ c \in Entries(l)
    BY <2>2 DEF TypeOK, Entries
  <2>4. opening'[l] = None
    BY <1>1, <1>6 DEF HandleEvent, NextEvent, Polls
  <2>5. \/ UNCHANGED <<setVars, connVars, connections>>
        \/ c # None /\ (Close(l, c) \/ ReplyFails(l, c))
    BY <1>6 DEF HandleEvent
  <2> HIDE DEF c
  <2> QED
    BY <1>1, <1>3, <1>4, <2>3, <2>4, <2>5
<1>7. CASE loopOpen(l)
  <2>1. opening[l] \in Conns /\ opening[l] \in Entries(l) /\ opening'[l] = None
    BY <1>5, <1>7 DEF loopOpen, TypeOK
  <2>2. UNCHANGED <<setVars, connVars, connections>> \/ Close(l, opening[l])
    BY <1>7 DEF loopOpen
  <2> QED
    BY <1>1, <1>3, <1>4, <2>1, <2>2
\* A connection that is closed is not closed again.
<1>11. ASSUME NEW c \in Conns, closes[c] # 0, NEW r, CloseFd(l, c, r) PROVE FALSE
  <2>1. closes[c] \in Nat /\ closes'[c] = closes[c] + 1
    BY <1>11 DEF CloseFd, TypeOK
  <2>2. closes'[c] <= 1
    BY DEF NoneClosedTwice
  <2> QED
    BY <1>11, <2>1, <2>2
<1>8. CASE OuterClose(l)
  <2>1. closing[l] \in Conns /\ closes[closing[l]] # 0
    BY <1>5, <1>8 DEF OuterClose, TypeOK, Stage
  <2>2. UNCHANGED <<setVars, connVars, connections>>
    BY <1>8, <1>11, <2>1 DEF OuterClose
  <2> QED
    BY <1>1, <1>3, <2>2
<1>10. CASE NextFrame(l)
  <2>1. reading[l] \in Conns /\ closes[reading[l]] # 0
    BY <1>5, <1>10 DEF NextFrame, TypeOK, Stage
  <2>2. UNCHANGED <<setVars, connVars, connections>>
    BY <1>10, <1>11, <2>1 DEF NextFrame, ReplyFails
  <2> QED
    BY <1>1, <1>3, <2>2
<1>9. CASE closeAllConns(l)
  <2>1. opening[l] = None
    BY <1>5, <1>9 DEF closeAllConns, Stage
  <2>2. PICK c \in Entries(l) : Close(l, c)
    BY <1>9 DEF closeAllConns
  <2>3. c \in Conns
    BY DEF Entries
  <2> QED
    BY <1>1, <1>4, <2>1, <2>2, <2>3
<1> QED
  BY <1>6, <1>7, <1>8, <1>9, <1>10

\* The steps of a loop that may register.
LEMMA AddSteps ==
  ASSUME TypeOK, Stages, Owned, NEW l \in Loops, loopAccept(l) \/ OpenJob(l)
  PROVE  /\ \A k \in Loops \ {l} : opening'[k] = opening[k]
         /\ \/ /\ opening'[l] = opening[l]
               /\ \/ Stays
                  \/ \E c \in Conns, f \in Fds : IntoHand(l, c, f)
                  \/ \E c \in Conns : JobToHand(c, l)
            \/ \E c \in Conns : /\ opening'[l] = c
                                /\ JobToMap(c, l) \/ \E f \in Fds : IntoMap(l, c, f)
<1> USE DEF connVars, mainVars, loopVars, setVars
<1>1. Polls(l)
  BY DEF loopAccept, OpenJob, NextEvent, NextJob
<1>2. hand[l] = None
  BY <1>1 DEF Stages, Stage, Polls
<1>3. ASSUME NEW c \in Conns, NEW f, AddRead(l, c, f)
      PROVE  /\ \A k \in Loops \ {l} : opening'[k] = opening[k]
             /\ \/ Register(l, c, f) /\ opening'[l] = c /\ hand' = hand
                \/ /\ hand' = [hand EXCEPT ![l] = c] /\ opening'[l] = opening[l]
                   /\ UNCHANGED <<connCount, connections>>
  BY <1>3 DEF AddRead, TypeOK
<1>4. CASE loopAccept(l)
  <2>1. \A k \in Loops : SameJobs(k)
    BY <1>4, SameQueue DEF loopAccept
  <2>2. CASE UNCHANGED <<setVars, connVars, hand, connections, opening>>
    BY <2>1, <2>2 DEF Stays
  <2>3. ASSUME NEW c \in Conns, NEW f \in Fds, Accept(c, f), AddRead(l, c, f),
               el' = [el EXCEPT ![c] = l]
        PROVE  /\ \A k \in Loops \ {l} : opening'[k] = opening[k]
               /\ \/ opening'[l] = c /\ IntoMap(l, c, f)
                  \/ opening'[l] = opening[l] /\ IntoHand(l, c, f)
    <3>1. \A d \in Conns \ {c} : el'[d] = el[d]
      BY <2>3 DEF TypeOK
    <3> QED
      BY <1>2, <1>3, <2>1, <2>3, <3>1 DEF IntoMap, IntoHand
  <2> QED
    BY <1>4, <2>2, <2>3 DEF loopAccept
<1>5. CASE OpenJob(l)
  <2> DEFINE c == Head(taken[l])
  <2>1. c \in Conns /\ NextJob(l) /\ jobs' = jobs /\ c # Stop
    BY <1>5, NextJobType DEF OpenJob
  <2>2. Once(Queue(l)') /\ JobsOf(l)' = JobsOf(l) \ {c} /\ c \in JobsOf(l)
    BY <2>1, JobTaken DEF Owned, OnePlace
  <2>3. \A k \in Loops \ {l} : taken'[k] = taken[k] /\ jobs'[k] = jobs[k]
    BY <2>1 DEF NextJob, TypeOK
  <2>4. \A k \in Loops \ {l} : SameJobs(k)
    BY <2>3, SameQueue
  <2>5. FromJob(c, l)
    BY <1>5, <2>2, <2>4 DEF FromJob, OpenJob, SameJobs, Owned, OnePlace
  <2>6. AddRead(l, c, fd[c])
    BY <1>5 DEF OpenJob
  <2>7. \/ JobToMap(c, l) /\ opening'[l] = c
        \/ JobToHand(c, l) /\ opening'[l] = opening[l]
    BY <1>2, <1>3, <2>1, <2>5, <2>6 DEF JobToMap, JobToHand
  <2>8. \A k \in Loops \ {l} : opening'[k] = opening[k]
    BY <1>3, <2>1, <2>6
  <2> QED
    BY <2>1, <2>7, <2>8
<1> QED
  BY <1>4, <1>5

\* A kind of step that leaves the maps alone.
LEMMA SameEntries ==
  ASSUME Stays \/ (\E a, c, f : IntoHand(a, c, f)) \/ (\E c, l : HandToJob(c, l) \/ JobToHand(c, l)),
         NEW k \in Loops
  PROVE  Entries(k)' = Entries(k)
<1>1. connections' = connections
  BY DEF Stays, IntoHand, HandToJob, JobToHand
<1> QED
  BY <1>1 DEF Entries

LEMMA OwnedInductive ==
  TypeOK /\ Stages /\ Owned /\ OpeningHere /\ NoneClosedTwice' /\ [Next]_vars
    => Owned' /\ OpeningHere'
<1> SUFFICES ASSUME TypeOK, Stages, Owned, OpeningHere, NoneClosedTwice', [Next]_vars
             PROVE  Owned' /\ OpeningHere'
  OBVIOUS
<1>1. CASE MainAccept \/ acceptNewConnection \/ MainEnds \/ stop
  <2>1. opening' = opening
    BY <1>1 DEF MainAccept, acceptNewConnection, MainEnds, stop, loopVars
  <2>2. \/ Stays
        \/ \E c \in Conns, f \in Fds : IntoHand(Main, c, f)
        \/ \E c \in Conns, l \in Loops : HandToJob(c, l)
    BY <1>1, MainSteps
  <2>3. Owned'
    BY <2>2, StaysOwned, IntoHandOwned, HandToJobOwned
  <2>4. \A k \in Loops : Entries(k)' = Entries(k)
    BY <2>2, SameEntries
  <2> QED
    BY <2>1, <2>3, <2>4 DEF OpeningHere
<1>2. ASSUME NEW l \in Loops, Kevent(l) \/ ForEach(l) \/ StopJob(l) \/ EndLoop(l)
      PROVE  Owned' /\ OpeningHere'
  <2>1. opening' = opening /\ Stays
    BY <1>2, QuietSteps DEF Kevent, ForEach, StopJob, EndLoop
  <2>2. \A k \in Loops : Entries(k)' = Entries(k)
    BY <2>1, SameEntries
  <2> QED
    BY <2>1, <2>2, StaysOwned DEF OpeningHere
<1>3. ASSUME NEW l \in Loops,
             HandleEvent(l) \/ loopOpen(l) \/ OuterClose(l) \/ NextFrame(l) \/ closeAllConns(l)
      PROVE  Owned' /\ OpeningHere'
  <2>1. /\ \A k \in Loops \ {l} : opening'[k] = opening[k]
        /\ \/ Stays /\ opening'[l] \in {opening[l], None}
           \/ opening'[l] = None /\ \E c \in Conns : Closes(c, l)
    BY <1>3, CloseSteps
  <2>2. CASE Stays /\ opening'[l] \in {opening[l], None}
    <3>1. \A k \in Loops : Entries(k)' = Entries(k)
      BY <2>2, SameEntries
    <3> QED
      BY <2>1, <2>2, <3>1, StaysOwned DEF OpeningHere
  <2>3. ASSUME NEW c \in Conns, Closes(c, l), opening'[l] = None
        PROVE  Owned' /\ OpeningHere'
    <3>1. Owned' /\ \A k \in Loops \ {l} : Entries(k)' = Entries(k)
      BY <2>3, ClosesOwned
    <3> QED
      BY <2>1, <2>3, <3>1 DEF OpeningHere
  <2> QED
    BY <2>1, <2>2, <2>3
<1>4. ASSUME NEW l \in Loops, loopAccept(l) \/ OpenJob(l)
      PROVE  Owned' /\ OpeningHere'
  <2>1. /\ \A k \in Loops \ {l} : opening'[k] = opening[k]
        /\ \/ /\ opening'[l] = opening[l]
              /\ \/ Stays
                 \/ \E c \in Conns, f \in Fds : IntoHand(l, c, f)
                 \/ \E c \in Conns : JobToHand(c, l)
           \/ \E c \in Conns : /\ opening'[l] = c
                               /\ JobToMap(c, l) \/ \E f \in Fds : IntoMap(l, c, f)
    BY <1>4, AddSteps
  <2>2. CASE /\ opening'[l] = opening[l]
             /\ \/ Stays
                \/ \E c \in Conns, f \in Fds : IntoHand(l, c, f)
                \/ \E c \in Conns : JobToHand(c, l)
    <3>1. \A k \in Loops : Entries(k)' = Entries(k)
      BY <2>2, SameEntries
    <3>2. Owned'
      BY <2>2, StaysOwned, IntoHandOwned, JobToHandOwned
    <3> QED
      BY <2>1, <2>2, <3>1, <3>2 DEF OpeningHere
  <2>3. ASSUME NEW c \in Conns, opening'[l] = c,
               JobToMap(c, l) \/ \E f \in Fds : IntoMap(l, c, f)
        PROVE  Owned' /\ OpeningHere'
    <3>1. /\ Owned' /\ c \in Entries(l)'
          /\ \A k \in Loops : Entries(k) \subseteq Entries(k)'
      BY <2>3, JobToMapOwned, IntoMapOwned
    <3> QED
      BY <2>1, <2>3, <3>1 DEF OpeningHere
  <2> QED
    BY <2>1, <2>2, <2>3
<1>5. CASE UNCHANGED vars
  <2>1. opening' = opening /\ taken' = taken /\ jobs' = jobs
    BY <1>5 DEF vars, loopVars
  <2>2. Stays
    BY <1>5, <2>1, SameQueue DEF vars, connVars, setVars, mainVars, loopVars, Stays
  <2>3. \A k \in Loops : Entries(k)' = Entries(k)
    BY <2>2, SameEntries
  <2> QED
    BY <2>1, <2>2, <2>3, StaysOwned DEF OpeningHere
<1> QED
  BY <1>1, <1>2, <1>3, <1>4, <1>5 DEF Next

\* The inductive invariant: as long as nothing has been closed twice.
Accounted == Stages /\ (NoneClosedTwice => Owned /\ OpeningHere)

LEMMA AccountedInit == Init => Accounted
<1> SUFFICES ASSUME Init PROVE Stages /\ Owned /\ OpeningHere
  BY DEF Accounted
<1>1. TypeOK
  BY TypeInit
<1>2. Stages /\ OpeningHere
  BY DEF Init, Stages, Stage, OpeningHere
<1>3. \A l \in Loops : Queue(l) = <<>> /\ JobsOf(l) = {} /\ Entries(l) = {}
  <2>1. ASSUME NEW l \in Loops PROVE Queue(l) = <<>> /\ JobsOf(l) = {}
    <3>1. Queue(l) = <<>>
      BY DEF Init, Queue
    <3> QED
      BY <3>1 DEF JobsOf
  <2>2. ASSUME NEW l \in Loops PROVE Entries(l) = {}
    BY DEF Init, Entries, Conns, None
  <2> QED
    BY <2>1, <2>2
<1>4. \A c \in Conns : ~Opened(c) /\ ~InHand(c) /\ ~InJob(c) /\ ~InMap(c)
  BY <1>1, <1>3, Numbers DEF Init, Opened, InHand, InJob, InMap, Conns, None
<1>5. Descriptors
  <2>1. \A c \in Conns : closes[c] = 0 /\ ~(c <= accepted)
    BY <1>1, Numbers DEF Init, None
  <2>2. \A f \in Fds, c \in Conns : sock[f] # c
    BY <1>1, Numbers DEF Init
  <2> QED
    BY <1>4, <2>1, <2>2 DEF Descriptors
<1>6. OnePlace
  BY <1>3, <1>4 DEF Init, OnePlace, Once
<1>7. Homes
  BY <1>3 DEF Init, Homes
<1>8. Counted
  BY <1>3, FS_EmptySet DEF Init, Counted
<1> QED
  BY <1>2, <1>5, <1>6, <1>7, <1>8 DEF Owned

LEMMA SpecAccounted == Spec => [](TypeOK /\ Accounted)
<1>1. TypeOK /\ Accounted /\ [Next]_vars => Accounted'
  BY StagesInductive, ClosedTwiceStays, OwnedInductive DEF Accounted
<1> QED
  BY <1>1, TypeInit, TypeInductive, AccountedInit, PTL DEF Spec

\* As long as no connection has been closed twice, the number that the balancers
\* compare is that of the connections of the loop, through every order of
\* accepts, jobs, handlers, failed flushes and closes: calibrateCallback is
\* called once for each entry made and once for each forgotten
\* (eventloop_unix.go:42-44, acceptor_unix.go:25-26).
THEOREM CountsAreExact == Spec => []CountsMatch
<1>1. Accounted => CountsMatch
  BY DEF Accounted, Owned, Counted, CountsMatch
<1> QED
  BY <1>1, SpecAccounted, PTL

\* The places of a connection, whether it will be opened and closed there or not.
Places(c) ==
  {<<"hand", a>> : a \in {b \in Loops \cup {Main} : hand[b] = c}}
    \cup {<<"job", l>> : l \in {k \in Loops : c \in Range(jobs[k] \o taken[k])}}
    \cup {<<"map", l>> : l \in {k \in Loops : c \in Entries(k)}}

\* A place is that of an owner or of a leak, and not of both.
LEMMA OwnedOrLeaked ==
  ASSUME NEW c
  PROVE  Owners(c) \cup Leaks(c) = Places(c) /\ Owners(c) \cap Leaks(c) = {}
<1> DEFINE H == {b \in Loops \cup {Main} : hand[b] = c}
           H1 == {b \in {Main} : main = "polling" /\ hand[b] = c}
           H2 == {b \in Loops \cup {Main} : ~(b = Main /\ main = "polling") /\ hand[b] = c}
           J == {k \in Loops : c \in Range(jobs[k] \o taken[k])}
           J1 == {k \in Loops : loop[k] = "polling" /\ c \in Range(jobs[k] \o taken[k])}
           J2 == {k \in Loops : loop[k] # "polling" /\ c \in Range(jobs[k] \o taken[k])}
           M == {k \in Loops : c \in Entries(k)}
<1>1. H = H1 \cup H2 /\ H1 \cap H2 = {}
  OBVIOUS
<1>2. J = J1 \cup J2 /\ J1 \cap J2 = {}
  OBVIOUS
<1>3. /\ Places(c) = {<<"hand", a>> : a \in H} \cup {<<"job", l>> : l \in J} \cup {<<"map", l>> : l \in M}
      /\ Owners(c) = {<<"hand", a>> : a \in H1} \cup {<<"job", l>> : l \in J1} \cup {<<"map", l>> : l \in M}
      /\ Leaks(c) = {<<"hand", a>> : a \in H2} \cup {<<"job", l>> : l \in J2}
  BY DEF Places, Owners, Leaks
<1> HIDE DEF H, H1, H2, J, J1, J2, M
<1>4. Owners(c) \cup Leaks(c) = Places(c)
  BY <1>1, <1>2, <1>3
<1>5. Owners(c) \cap Leaks(c) = {}
  BY <1>1, <1>2, <1>3
<1> QED
  BY <1>4, <1>5

LEMMA OpenHasOnePlace ==
  ASSUME TypeOK, Owned, NEW c \in Conns, Opened(c)
  PROVE  \E p : Places(c) = {p}
<1>1. \A l \in Loops : c \in Range(jobs[l] \o taken[l]) <=> c \in JobsOf(l)
  <2> SUFFICES ASSUME NEW l \in Loops
               PROVE  c \in Range(jobs[l] \o taken[l]) <=> c \in JobsOf(l)
    OBVIOUS
  <2>1. jobs[l] \in Seq(Conns \cup {Stop}) /\ taken[l] \in Seq(Conns \cup {Stop})
    BY DEF TypeOK
  <2>2. Range(jobs[l] \o taken[l]) = Range(jobs[l]) \cup Range(taken[l])
    BY <2>1, RangeConcatenation
  <2>3. Range(taken[l] \o jobs[l]) = Range(taken[l]) \cup Range(jobs[l])
    BY <2>1, RangeConcatenation
  <2>4. c \in JobsOf(l) <=> c \in Range(taken[l] \o jobs[l])
    BY DEF JobsOf, Queue, Range
  <2> QED
    BY <2>2, <2>3, <2>4
<1> DEFINE H == {b \in Loops \cup {Main} : hand[b] = c}
           J == {k \in Loops : c \in JobsOf(k)}
           M == {k \in Loops : c \in Entries(k)}
<1>2. Places(c) = {<<"hand", a>> : a \in H} \cup {<<"job", l>> : l \in J} \cup {<<"map", l>> : l \in M}
  BY <1>1 DEF Places
<1>3. c # None
  BY Numbers
<1>4. CASE InHand(c)
  <2>1. PICK a \in Loops \cup {Main} : hand[a] = c
    BY <1>4 DEF InHand
  <2>2. H = {a}
    BY <1>3, <2>1 DEF Owned, OnePlace
  <2>3. J = {} /\ M = {}
    BY <1>4 DEF Owned, OnePlace, InJob, InMap
  <2> HIDE DEF H, J, M
  <2>4. {<<"hand", x>> : x \in H} = {<<"hand", a>>}
    BY <2>2, <2>3
  <2>5. {<<"job", x>> : x \in J} = {}
    BY <2>2, <2>3
  <2>6. {<<"map", x>> : x \in M} = {}
    BY <2>2, <2>3
  <2> QED
    BY <1>2, <2>4, <2>5, <2>6
<1>5. CASE InJob(c)
  <2>1. PICK l \in Loops : c \in JobsOf(l)
    BY <1>5 DEF InJob
  <2>2. J = {l}
    BY <2>1 DEF Owned, Homes
  <2>3. H = {} /\ M = {}
    BY <1>5 DEF Owned, OnePlace, InHand, InMap
  <2> HIDE DEF H, J, M
  <2>4. {<<"hand", x>> : x \in H} = {}
    BY <2>2, <2>3
  <2>5. {<<"job", x>> : x \in J} = {<<"job", l>>}
    BY <2>2, <2>3
  <2>6. {<<"map", x>> : x \in M} = {}
    BY <2>2, <2>3
  <2> QED
    BY <1>2, <2>4, <2>5, <2>6
<1>6. CASE InMap(c)
  <2>1. PICK l \in Loops : c \in Entries(l)
    BY <1>6 DEF InMap
  <2>2. M = {l}
    BY <2>1, EntryIsOpen
  <2>3. H = {} /\ J = {}
    BY <1>6 DEF Owned, OnePlace, InHand, InJob
  <2> HIDE DEF H, J, M
  <2>4. {<<"hand", x>> : x \in H} = {}
    BY <2>2, <2>3
  <2>5. {<<"job", x>> : x \in J} = {}
    BY <2>2, <2>3
  <2>6. {<<"map", x>> : x \in M} = {<<"map", l>>}
    BY <2>2, <2>3
  <2> QED
    BY <1>2, <2>4, <2>5, <2>6
<1> QED
  BY <1>4, <1>5, <1>6 DEF Owned, OnePlace

\* As long as no connection has been closed twice, an open descriptor is that of
\* one connection, which either has exactly one owner, the main reactor's hand, a
\* job of a loop that runs or the map of its loop, or was lost in exactly one way:
\* with a SetNonblock or an AddRead that failed, or in a job of a loop that has
\* ended. No map has a connection whose descriptor is closed or another's
\* (acceptor_unix.go:15-29, eventloop_unix.go:38-45).
THEOREM NoSocketIsLost == Spec => []SocketsAccounted
<1>1. TypeOK /\ Accounted => SocketsAccounted
  <2> SUFFICES ASSUME TypeOK, Owned PROVE SocketsAccounted
    BY DEF Accounted, SocketsAccounted
  <2>1. ASSUME NEW f \in Fds, sock[f] # None
        PROVE  /\ fd[sock[f]] = f
               /\ \/ Cardinality(Owners(sock[f])) = 1 /\ Leaks(sock[f]) = {}
                  \/ Owners(sock[f]) = {} /\ Cardinality(Leaks(sock[f])) = 1
    <3>1. sock[f] \in Conns
      BY <2>1 DEF TypeOK
    <3>2. Opened(sock[f]) /\ fd[sock[f]] = f
      BY <3>1 DEF Owned, Descriptors
    <3>3. PICK p : Places(sock[f]) = {p}
      BY <3>1, <3>2, OpenHasOnePlace
    <3>4. /\ Owners(sock[f]) \cup Leaks(sock[f]) = {p}
          /\ Owners(sock[f]) \cap Leaks(sock[f]) = {}
      BY <3>3, OwnedOrLeaked
    <3>5. \/ Owners(sock[f]) = {p} /\ Leaks(sock[f]) = {}
          \/ Owners(sock[f]) = {} /\ Leaks(sock[f]) = {p}
      BY <3>4
    <3>6. Cardinality({p}) = 1
      BY FS_Singleton
    <3> QED
      BY <3>2, <3>5, <3>6
  <2>2. ASSUME NEW l \in Loops, NEW f \in Fds, connections[l][f] # None
        PROVE  sock[f] = connections[l][f] /\ el[sock[f]] = l
    <3>1. connections[l][f] \in Conns /\ connections[l][f] \in Entries(l)
      BY <2>2 DEF TypeOK, Entries
    <3>2. fd[connections[l][f]] = f
      BY <2>2 DEF Owned, Homes
    <3> QED
      BY <3>1, <3>2, EntryIsOpen
  <2> QED
    BY <2>1, <2>2 DEF SocketsAccounted
<1> QED
  BY <1>1, SpecAccounted, PTL

=============================================================================
