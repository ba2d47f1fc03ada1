------------------------------ MODULE Acceptor -------------------------------
(***************************************************************************)
(* How gnet hands descriptors around: the main reactor accepts and gives a *)
(* connection to an event loop as a job (src/gnet/acceptor_unix.go), or,   *)
(* with SO_REUSEPORT, the loops accept themselves (eventloop_unix.go,      *)
(* loop_bsd.go); a loop keeps the connections that are registered with its *)
(* kqueue in a map, gets events in batches, and closes.                    *)
(*                                                                         *)
(* What flows through a connection is the matter of Connection: here a     *)
(* handler has an outcome, nothing, a close, a close whose flush fails, a  *)
(* reply that fails and closes, or Shutdown. What is new are the           *)
(* descriptors: the kernel gives the number of a closed one to the next    *)
(* connection that any goroutine accepts.                                  *)
(***************************************************************************)
EXTENDS LoadBalancing, FiniteSetsExt

CONSTANTS MaxFd,     \* descriptors are 1..MaxFd
          MaxConns,  \* bound on the connections that are accepted
          MaxBatch,  \* bound on the events of one kevent
          OptionSet  \* the options that Serve may be called with

Options == [reusePort : BOOLEAN, balancer : Balancers]

ASSUME AcceptorAssumption ==
  /\ {MaxFd, MaxConns, MaxBatch} \subseteq Nat \ {0}
  /\ OptionSet \subseteq Options

Fds   == 1..MaxFd
Conns == 1..MaxConns   \* connections, in the order of accept
None  == 0             \* no connection
Stop  == 0             \* the job of stop
Main  == 0             \* the main reactor
ListenFd == 0

VARIABLES
  opts,        \* svr.opts
  set,         \* svr.subEventLoopSet
  connCount,   \* el.connCount
  accepted,    \* the number of connections accepted
  sock,        \* the kernel's descriptors: the connection that each is for
  fd, el,      \* c.fd and c.loop
  closes,      \* how often OnClosed has been called for each connection
  released,    \* releaseTCP has been called
  hand,        \* the connection accepted by the main reactor or a loop, in no map yet
  main,        \* where the main reactor is
  stopped,     \* stop has triggered errServerShutdown
  loop,        \* where each loop is
  connections, \* el.connections
  batch,       \* the events that are not handled yet
  jobs,        \* the jobs triggered
  taken,       \* those that ForEach has taken and not run
  opening,     \* the connection that loopOpen is at work on
  closing,     \* the connection that has been closed, with an outer close to come
  reading,     \* the connection closed by a failed reply of which loopRead has frames left
  fate         \* "alive", or the process has panicked

connVars   == <<accepted, sock, fd, el, closes, released>>
setVars    == <<set, connCount>>
mainVars   == <<hand, main, stopped>>
loopVars   == <<loop, connections, batch, jobs, taken, opening, closing, reading>>
vars == <<opts, setVars, connVars, mainVars, loopVars, fate>>

Events == [fd : Fds \cup {ListenFd}, conn : Conns \cup {None}]

Init ==
  /\ opts \in OptionSet
  /\ set = register(opts.balancer)
  /\ connCount = [l \in Loops |-> 0]
  /\ accepted = 0
  /\ sock = [f \in Fds |-> None]
  /\ fd = [c \in Conns |-> 0]
  /\ el = [c \in Conns |-> 0]
  /\ closes = [c \in Conns |-> 0]
  /\ released = [c \in Conns |-> FALSE]
  /\ hand = [a \in Loops \cup {Main} |-> None]
  /\ main = IF opts.reusePort THEN "ended" ELSE "polling"
  /\ stopped = FALSE
  /\ loop = [l \in Loops |-> "polling"]
  /\ connections = [l \in Loops |-> [f \in Fds |-> None]]
  /\ batch = [l \in Loops |-> <<>>]
  /\ jobs = [l \in Loops |-> <<>>]
  /\ taken = [l \in Loops |-> <<>>]
  /\ opening = [l \in Loops |-> None]
  /\ closing = [l \in Loops |-> None]
  /\ reading = [l \in Loops |-> None]
  /\ fate = "alive"

-----------------------------------------------------------------------------
(* The kernel's descriptors.                                               *)

Free == {f \in Fds : sock[f] = None}

\* unix.Accept gives the lowest free descriptor to the next connection.
Accept(c, f) ==
  /\ accepted < MaxConns
  /\ Free # {}
  /\ c = accepted + 1
  /\ f = Min(Free)
  /\ accepted' = c
  /\ sock' = [sock EXCEPT ![f] = c]
  /\ fd' = [fd EXCEPT ![c] = f]
  /\ UNCHANGED <<closes, released>>

-----------------------------------------------------------------------------
(* The main reactor.                                                       *)

MainAccept ==
  /\ main = "polling"
  /\ hand[Main] = None
  /\ \E c \in Conns, f \in Fds :
       /\ Accept(c, f)
       /\ hand' = [hand EXCEPT ![Main] = c]
  /\ UNCHANGED <<opts, setVars, el, main, stopped, loopVars, fate>>

\* acceptNewConnection: next, newTCPConn and Trigger.
acceptNewConnection ==
  /\ main = "polling"
  /\ hand[Main] # None
  /\ LET c == hand[Main]
     IN  \E n \in next(set, fd[c], connCount) :
           /\ set' = n.set
           /\ el' = [el EXCEPT ![c] = n.loop]
           /\ jobs' = [jobs EXCEPT ![n.loop] = Append(@, c)]
  /\ hand' = [hand EXCEPT ![Main] = None]
  /\ UNCHANGED <<opts, connCount, accepted, sock, fd, closes, released, main, stopped,
                 loop, connections, batch, taken, opening, closing, reading, fate>>

\* An error of accept or SetNonblock ends Polling; the connection in hand stays
\* open.
MainEnds ==
  /\ main = "polling"
  /\ main' = "ended"
  /\ UNCHANGED <<opts, setVars, connVars, hand, stopped, loopVars, fate>>

\* stop: errServerShutdown is triggered on every loop.
stop ==
  /\ ~stopped
  /\ stopped' = TRUE
  /\ jobs' = [l \in Loops |-> Append(jobs[l], Stop)]
  /\ UNCHANGED <<opts, setVars, connVars, hand, main, loop, connections, batch, taken, opening, closing,
                 reading, fate>>

-----------------------------------------------------------------------------
(* Closing.                                                                *)

Entries(l) == {c \in Conns : \E f \in Fds : connections[l][f] = c}

\* Mutant of Forget: the entry of the map is left.
Keep(l, c) == UNCHANGED connections

\* delete(el.connections, c.fd)
Forget(l, c) == connections' = [connections EXCEPT ![l][fd[c]] = None]

\* calibrateCallback(el, -1)
Uncount(l) ==
  /\ connCount' = [connCount EXCEPT ![l] = @ - 1]
  /\ set' = calibrate(set)

\* loopCloseConn after the flush, when unix.Close succeeds: OnClosed returns r,
\* and after Shutdown nothing is released.
CloseFd(l, c, r) ==
  /\ sock' = [sock EXCEPT ![fd[c]] = None]
  /\ Forget(l, c)
  /\ Uncount(l)
  /\ closes' = [closes EXCEPT ![c] = @ + 1]
  /\ released' = [released EXCEPT ![c] = @ \/ r = "None"]
  /\ UNCHANGED <<accepted, fd, el>>

\* What the loop does after a handler that returned an error or none.
Return(l, r) ==
  loop' = IF r = "Shutdown" /\ loop[l] = "polling" THEN [loop EXCEPT ![l] = "exit"] ELSE loop

\* loopCloseConn: without a flush that fails.
loopCloseConn(l, c) ==
  \E r \in {"None", "Shutdown"} :
    /\ CloseFd(l, c, r)
    /\ Return(l, r)
    /\ UNCHANGED closing

\* loopCloseConn: the write of the flush fails and closes, OnClosed's answer is
\* dropped, and the outer close is still to come.
FlushFails(l, c) ==
  \E r \in {"None", "Shutdown"} :
    /\ CloseFd(l, c, r)
    /\ closing' = [closing EXCEPT ![l] = c]
    /\ UNCHANGED loop

Close(l, c) == loopCloseConn(l, c) \/ FlushFails(l, c)

\* loopRead, when c has been closed under it: React's answer to the frame. With
\* None it goes on to the next frame if there is one, but not once releaseTCP
\* has cleared opened; Close closes c again, and meets its nil buffers if c is
\* gone.
AfterReply(l, c, gone) ==
  \E action \in {"None", "Close", "Shutdown"}, more \in BOOLEAN :
    /\ Return(l, action)
    /\ reading' = [reading EXCEPT ![l] = IF action = "None" /\ more /\ ~gone THEN c ELSE None]
    /\ closing' = [closing EXCEPT ![l] = IF action = "Close" /\ ~gone THEN c ELSE @]
    /\ fate' = IF action = "Close" /\ gone THEN "panicked" ELSE fate

\* write: a reply of loopRead fails and closes, and OnClosed's answer is dropped.
ReplyFails(l, c) ==
  \E r \in {"None", "Shutdown"} :
    /\ CloseFd(l, c, r)
    /\ AfterReply(l, c, r = "None")

\* The descriptor has been given to another connection.
Reused(c) == sock[fd[c]] # None

\* The outer close of FlushFails, or that which React has asked for: an error, or the descriptor of another
\* connection, which then goes through all of loopCloseConn again.
OuterClose(l) ==
  LET c == closing[l]
  IN  /\ c # None
      /\ closing' = [closing EXCEPT ![l] = None]
      /\ \/ /\ ~Reused(c)
            /\ UNCHANGED <<setVars, connVars, loop, connections, fate>>
         \/ /\ Reused(c)
            /\ \E r \in {"None", "Shutdown"} :
                 /\ CloseFd(l, c, r)
                 /\ Return(l, r)
                 /\ fate' = IF r = "None" /\ released[c] THEN "panicked" ELSE fate
      /\ UNCHANGED <<opts, mainVars, batch, jobs, taken, opening, reading>>

\* The next frame of a connection that a reply has closed: no reply, or a write
\* on a closed number, which changes nothing; or one that fails on the
\* descriptor of another connection, which is closed.
NextFrame(l) ==
  LET c == reading[l]
  IN  /\ c # None
      /\ \/ /\ AfterReply(l, c, FALSE)
            /\ UNCHANGED <<setVars, connVars, connections>>
         \/ /\ Reused(c)
            /\ ReplyFails(l, c)
      /\ UNCHANGED <<opts, mainVars, batch, jobs, taken, opening>>

-----------------------------------------------------------------------------
(* A loop: kevent, the events, the jobs.                                   *)

Polls(l) == loop[l] = "polling" /\ opening[l] = None /\ closing[l] = None /\ reading[l] = None

\* The descriptors that the kqueue reports; a closed one has left it.
Registered(l) == {f \in Fds : sock[f] # None /\ connections[l][f] = sock[f]}

Event(f) == [fd |-> f, conn |-> IF f = ListenFd THEN None ELSE sock[f]]

Watched(l) == Registered(l) \cup (IF opts.reusePort THEN {ListenFd} ELSE {})

\* A batch has an event for each filter, of which the listener has one and a
\* connection one or two.
Kevent(l) ==
  /\ Polls(l)
  /\ batch[l] = <<>> /\ taken[l] = <<>>
  /\ \E n \in 1..MaxBatch : \E fds \in [1..n -> Watched(l)] :
       /\ \A f \in Watched(l) :
            Cardinality({i \in 1..n : fds[i] = f}) <= (IF f = ListenFd THEN 1 ELSE 2)
       /\ batch' = [batch EXCEPT ![l] = [i \in 1..n |-> Event(fds[i])]]
  /\ UNCHANGED <<opts, setVars, connVars, mainVars, loop, connections, jobs, taken, opening, closing,
                 reading, fate>>

NextEvent(l) ==
  /\ Polls(l)
  /\ batch[l] # <<>>
  /\ batch' = [batch EXCEPT ![l] = Tail(@)]

\* The callback looks the descriptor up, and handles the connection it finds.
HandleEvent(l) ==
  /\ NextEvent(l)
  /\ LET f == Head(batch[l]).fd
         c == IF f = ListenFd THEN None ELSE connections[l][f]
     IN  /\ f # ListenFd
         /\ \/ UNCHANGED <<setVars, connVars, loop, connections, closing, reading, fate>>
            \/ /\ c # None
               /\ Close(l, c)
               /\ UNCHANGED <<reading, fate>>
            \/ c # None /\ ReplyFails(l, c)
            \/ /\ c # None
               /\ Return(l, "Shutdown")
               /\ UNCHANGED <<setVars, connVars, connections, closing, reading, fate>>
  /\ UNCHANGED <<opts, mainVars, jobs, taken, opening>>

\* Mutant of Register: the connection is not counted.
RegisterUncounted(l, c, f) ==
  /\ connections' = [connections EXCEPT ![l][f] = c]
  /\ UNCHANGED setVars

\* AddRead has succeeded: the map, calibrateCallback(el, 1), and loopOpen.
Register(l, c, f) ==
  /\ connections' = [connections EXCEPT ![l][f] = c]
  /\ connCount' = [connCount EXCEPT ![l] = @ + 1]
  /\ set' = calibrate(set)

\* The connection is registered, or AddRead fails: an error that ends the loop
\* and leaves the connection open.
AddRead(l, c, f) ==
  \/ /\ Register(l, c, f)
     /\ opening' = [opening EXCEPT ![l] = c]
     /\ UNCHANGED <<hand, loop>>
  \/ /\ hand' = [hand EXCEPT ![l] = c]
     /\ Return(l, "Shutdown")
     /\ UNCHANGED <<setVars, connections, opening>>

\* loopOpen: what OnOpened asks for.
loopOpen(l) ==
  LET c == opening[l]
  IN  /\ c # None
      /\ opening' = [opening EXCEPT ![l] = None]
      /\ \/ Close(l, c)
         \/ \E r \in {"None", "Shutdown"} :
              /\ Return(l, r)
              /\ UNCHANGED <<setVars, connVars, connections, closing>>
      /\ UNCHANGED <<opts, mainVars, batch, jobs, taken, reading, fate>>

\* loopAccept with SO_REUSEPORT: another loop may have been faster, or accept
\* fails.
loopAccept(l) ==
  /\ opts.reusePort
  /\ NextEvent(l)
  /\ Head(batch[l]).fd = ListenFd
  /\ \/ UNCHANGED <<setVars, connVars, hand, loop, connections, opening>>
     \/ \E c \in Conns, f \in Fds :
          /\ Accept(c, f)
          /\ el' = [el EXCEPT ![c] = l]
          /\ AddRead(l, c, f)
     \/ /\ Return(l, "Shutdown")
        /\ UNCHANGED <<setVars, connVars, hand, connections, opening>>
  /\ UNCHANGED <<opts, main, stopped, jobs, taken, closing, reading, fate>>

\* Mutant of WokenUp: the jobs are run when the wake-up is met in the batch.
WokenAtOnce(l) == TRUE

\* The jobs are run after the batch that the wake-up came with.
WokenUp(l) == batch[l] = <<>>

\* ForEach takes the jobs.
ForEach(l) ==
  /\ Polls(l)
  /\ WokenUp(l) /\ taken[l] = <<>>
  /\ jobs[l] # <<>>
  /\ taken' = [taken EXCEPT ![l] = jobs[l]]
  /\ jobs' = [jobs EXCEPT ![l] = <<>>]
  /\ UNCHANGED <<opts, setVars, connVars, mainVars, loop, connections, batch, opening, closing,
                 reading, fate>>

NextJob(l) ==
  /\ Polls(l)
  /\ taken[l] # <<>>
  /\ taken' = [taken EXCEPT ![l] = Tail(@)]

\* The job of acceptNewConnection.
OpenJob(l) ==
  /\ NextJob(l)
  /\ Head(taken[l]) # Stop
  /\ AddRead(l, Head(taken[l]), fd[Head(taken[l])])
  /\ UNCHANGED <<opts, connVars, main, stopped, batch, jobs, closing, reading, fate>>

StopJob(l) ==
  /\ NextJob(l)
  /\ Head(taken[l]) = Stop
  /\ Return(l, "Shutdown")
  /\ UNCHANGED <<opts, setVars, connVars, mainVars, connections, batch, jobs, opening, closing,
                 reading, fate>>

\* closeAllConns, one connection after the other, in any order; OnClosed's
\* answer is dropped.
closeAllConns(l) ==
  /\ loop[l] = "exit"
  /\ closing[l] = None
  /\ \E c \in Entries(l) : Close(l, c)
  /\ UNCHANGED <<opts, mainVars, batch, jobs, taken, opening, reading, fate>>

\* The loop has ended: its jobs will never be run.
EndLoop(l) ==
  /\ loop[l] = "exit"
  /\ closing[l] = None
  /\ Entries(l) = {}
  /\ loop' = [loop EXCEPT ![l] = "ended"]
  /\ batch' = [batch EXCEPT ![l] = <<>>]
  /\ UNCHANGED <<opts, setVars, connVars, mainVars, connections, jobs, taken, opening, closing,
                 reading, fate>>

-----------------------------------------------------------------------------
Next ==
  /\ fate = "alive"
  /\ \/ MainAccept \/ acceptNewConnection \/ MainEnds \/ stop
     \/ \E l \in Loops :
          \/ Kevent(l) \/ HandleEvent(l) \/ loopAccept(l) \/ ForEach(l) \/ OpenJob(l) \/ loopOpen(l)
          \/ StopJob(l) \/ OuterClose(l) \/ NextFrame(l) \/ closeAllConns(l) \/ EndLoop(l)

Spec == Init /\ [][Next]_vars

-----------------------------------------------------------------------------
(* Properties.                                                             *)

TypeOK ==
  /\ opts \in OptionSet
  /\ set \in Sets /\ set.kind = opts.balancer
  /\ connCount \in [Loops -> Int]
  /\ accepted \in 0..MaxConns
  /\ sock \in [Fds -> Conns \cup {None}]
  /\ fd \in [Conns -> Fds \cup {0}]
  /\ el \in [Conns -> Loops \cup {0}]
  /\ closes \in [Conns -> Nat]
  /\ released \in [Conns -> BOOLEAN]
  /\ hand \in [Loops \cup {Main} -> Conns \cup {None}]
  /\ main \in {"polling", "ended"}
  /\ stopped \in BOOLEAN
  /\ loop \in [Loops -> {"polling", "exit", "ended"}]
  /\ connections \in [Loops -> [Fds -> Conns \cup {None}]]
  /\ batch \in [Loops -> Seq(Events)]
  /\ jobs \in [Loops -> Seq(Conns \cup {Stop})]
  /\ taken \in [Loops -> Seq(Conns \cup {Stop})]
  /\ opening \in [Loops -> Conns \cup {None}]
  /\ closing \in [Loops -> Conns \cup {None}]
  /\ reading \in [Loops -> Conns \cup {None}]
  /\ fate \in {"alive", "panicked"}

\* No connection has been closed twice, and so no descriptor under another.
NoneClosedTwice == \A c \in Conns : closes[c] <= 1

\* The number of connections that the balancers compare is that of the map of
\* the loop, whatever the order of opening, failed flushes and closes
\* (eventloop_unix.go:42-44, acceptor_unix.go:25-26).
CountsMatch ==
  NoneClosedTwice => \A l \in Loops : connCount[l] = Cardinality(Entries(l))

\* Who will open or close c: the main reactor that is about to give it to a loop,
\* the loop that will run its job, the loop that has it in its map.
Owners(c) ==
  {<<"hand", a>> : a \in {b \in {Main} : main = "polling" /\ hand[b] = c}}
    \cup {<<"job", l>> : l \in {k \in Loops : loop[k] = "polling" /\ c \in Range(jobs[k] \o taken[k])}}
    \cup {<<"map", l>> : l \in {k \in Loops : c \in Entries(k)}}

\* Where nobody will: SetNonblock has failed and ended the main reactor
\* (acceptor_unix.go:15-17), AddRead has failed and ended the loop
\* (acceptor_unix.go:22-24, eventloop_unix.go:256-261), or the loop has ended
\* before it ran the job (queue.go:22-31).
Leaks(c) ==
  {<<"hand", a>> : a \in {b \in Loops \cup {Main} : ~(b = Main /\ main = "polling") /\ hand[b] = c}}
    \cup {<<"job", l>> : l \in {k \in Loops : loop[k] # "polling" /\ c \in Range(jobs[k] \o taken[k])}}

\* Every open descriptor has exactly one owner between accept, the job and the
\* map, or has been lost in exactly one of the ways of Leaks, which leave it open
\* although OnShutdown is promised to come after all connections have been closed
\* (gnet.go:111); and a map has no connection whose descriptor is closed or
\* another's (acceptor_unix.go:19-29, eventloop_unix.go:38-45).
SocketsAccounted ==
  NoneClosedTwice =>
    /\ \A f \in Fds : sock[f] # None =>
         /\ fd[sock[f]] = f
         /\ \/ Cardinality(Owners(sock[f])) = 1 /\ Leaks(sock[f]) = {}
            \/ Owners(sock[f]) = {} /\ Cardinality(Leaks(sock[f])) = 1
    /\ \A l \in Loops, f \in Fds :
         connections[l][f] # None => sock[f] = connections[l][f] /\ el[sock[f]] = l

\* With a main reactor, an event of a batch finds the connection it is for or
\* none, although descriptors are reused: the loop registers new connections
\* only between two batches (reactor_bsd.go:28-29, kqueue.go:136-139). Not so
\* with SO_REUSEPORT, where a loop accepts in the middle of a batch.
EventsForOwner ==
  NoneClosedTwice /\ ~opts.reusePort =>
    \A l \in Loops : loop[l] = "polling" =>
      \A i \in DOMAIN batch[l] :
        connections[l][batch[l][i].fd] \in {batch[l][i].conn, None}

\* The least-connections set answers with a loop that has fewer connections
\* than any other loop plus the number of loops, although the root it has
\* cached may be stale (load_balancing.go:126-136, 155-160).
NextNearMinimal ==
  [][ \A c \in Conns :
        opts.balancer = "LeastConnections" /\ ~opts.reusePort /\ el[c] = 0 /\ el'[c] # 0
          => \A l \in Loops : connCount[el'[c]] < connCount[l] + NumEventLoop ]_vars

=============================================================================
