--------------------------- MODULE LoadBalancing -----------------------------
(***************************************************************************)
(* The sets of event loops that gnet chooses from for a new connection     *)
(* (src/gnet/load_balancing.go), as operators: a set is a record, and the  *)
(* numbers of connections of the loops are a function.                     *)
(*                                                                         *)
(* Every operation holds the lock of the set or is one atomic access, but  *)
(* for next of the least-connections set: it is as of the atomic load when *)
(* it does not rebuild the heap, and as of the lock when it does, because  *)
(* others only ever add to threshold.                                      *)
(***************************************************************************)
EXTENDS Integers, Sequences, FiniteSets, Functions

CONSTANT NumEventLoop  \* the number of event loops

ASSUME NumEventLoopAssumption == NumEventLoop \in Nat \ {0}

Loops == 1..NumEventLoop

Balancers == {"RoundRobin", "LeastConnections", "SourceAddrHash"}

\* What registering every loop makes of an empty set: eventLoops or minHeap is
\* in the order of registration, since the heap has no connection to compare.
\* A loop's idx is its place in the order, less one.
register(kind) ==
  [kind |-> kind,
   order |-> [i \in 1..NumEventLoop |-> i],
   nextLoopIndex |-> 0,
   cachedRoot |-> 1,
   threshold |-> 0]

Sets == [kind : Balancers, order : Bijection(1..NumEventLoop, Loops),
         nextLoopIndex : 0..(NumEventLoop - 1), cachedRoot : Loops, threshold : Nat]

\* Mutant of calibrate: the threshold is not counted.
calibrateUncounted(set) == set

\* calibrate: what it does to the set, whatever the delta; connCount is
\* changed by who calls it.
calibrate(set) ==
  IF set.kind = "LeastConnections" THEN [set EXCEPT !.threshold = @ + 1] ELSE set

Less(conns, i, j) == conns[i] < conns[j]

\* heap.Init: some order in which no loop has fewer connections than its parent.
heapInit(conns) ==
  {h \in Bijection(1..NumEventLoop, Loops) :
     \A i \in 2..NumEventLoop : ~Less(conns, h[i], h[i \div 2])}

-----------------------------------------------------------------------------
(* next: the outcomes, each with the loop chosen and the set after it.     *)

Chosen(set, l) == [set |-> set, loop |-> l]

\* Mutant of nextRoundRobin: the index goes one too far.
nextPastEnd(set) ==
  LET i == set.nextLoopIndex + 1
  IN  {Chosen([set EXCEPT !.nextLoopIndex = IF i > NumEventLoop THEN 0 ELSE i],
              set.order[i])}

nextRoundRobin(set) ==
  LET i == set.nextLoopIndex + 1
  IN  {Chosen([set EXCEPT !.nextLoopIndex = IF i >= NumEventLoop THEN 0 ELSE i],
              set.order[i])}

Rebuilt(set, h) == [set EXCEPT !.order = h, !.cachedRoot = h[1], !.threshold = 0]

nextLeastConnections(set, conns) ==
  IF set.threshold >= NumEventLoop
    THEN {Chosen(Rebuilt(set, h), h[1]) : h \in heapInit(conns)}
    ELSE {Chosen(set, set.cachedRoot)}

\* The hash code is the descriptor.
nextSourceAddrHash(set, hashcode) ==
  {Chosen(set, set.order[(hashcode % NumEventLoop) + 1])}

next(set, hashcode, conns) ==
  CASE set.kind = "RoundRobin"       -> nextRoundRobin(set)
    [] set.kind = "LeastConnections" -> nextLeastConnections(set, conns)
    [] set.kind = "SourceAddrHash"   -> nextSourceAddrHash(set, hashcode)

=============================================================================
