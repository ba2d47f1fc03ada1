----------------------------- MODULE Connection ------------------------------
(***************************************************************************)
(* One TCP connection of gnet on its event loop                            *)
(* (src/gnet/connection_unix.go, eventloop_unix.go, reactor_bsd.go,        *)
(* codec.go): what the loop does with its events and with the jobs of      *)
(* AsyncWrite, Wake and Close, while the peer sends, receives and closes.  *)
(*                                                                         *)
(* The loop is one goroutine: a step is one event, one job or one frame of *)
(* loopRead. The ring buffers of the connection are the queues that        *)
(* ByteQueue specifies and RingBuffer implements.                          *)
(*                                                                         *)
(* The bytes that the peer sends are numbered 1, 2, ... in the order of    *)
(* the stream, and so are those that the server writes.                    *)
(***************************************************************************)
EXTENDS Integers, Sequences, FiniteSets, SequencesExt

CONSTANTS Codec,       \* "BuiltIn" or "Line"
          MaxSent,     \* the peer sends at most MaxSent bytes
          LineEnds,    \* those of them that are CRLFByte
          MaxIssued,   \* bound on the bytes that the server writes
          MaxReply,    \* bound on the bytes of one reply
          Packet,      \* len(el.packet)
          SendBuffer,  \* what the kernel holds for the peer
          Writers, Wakers, Closers,  \* calls of AsyncWrite, Wake and Close
          Actions      \* what the event handler may return

ASSUME ConnectionAssumption ==
  /\ Codec \in {"BuiltIn", "Line"}
  /\ {MaxSent, MaxIssued, MaxReply, Packet, SendBuffer} \subseteq Nat \ {0}
  /\ LineEnds \subseteq 1..MaxSent
  /\ Actions \subseteq {"None", "Close", "Shutdown"}
  /\ Writers \cap Wakers = {} /\ Writers \cap Closers = {} /\ Wakers \cap Closers = {}

VARIABLES
  conn,      \* the conn, its socket and what the kernel still has to send
  pc,        \* where the loop is
  batch,     \* the events of the connection that are not handled yet
  jobs,      \* the jobs that have been triggered and not run
  called,    \* the calls made so far
  sent,      \* how many bytes the peer has sent
  sock,      \* those that the kernel has received and the loop has not read
  eof,       \* the peer has closed its side
  reset,     \* the connection has been reset
  got,       \* the bytes that the peer has received
  consumed,  \* the bytes of the frames given to React, in order
  issued     \* how many bytes OnOpened, React and AsyncWrite have written

peerVars == <<sent, sock, eof, reset, got>>
vars == <<conn, pc, batch, jobs, called, peerVars, consumed, issued>>

Calls == Writers \cup Wakers \cup Closers

Places == {"accepted", "kevent", "events", "frames", "jobs", "exit", "returned", "panicked"}

\* newTCPConn, and AddRead by the job that acceptNewConnection triggered.
newTCPConn ==
  [fd |-> "open", opened |-> FALSE, released |-> FALSE,
   closes |-> 0,      \* calls of OnClosed
   reused |-> FALSE,  \* a close has met the next owner of the number
   buffer |-> <<>>, inbound |-> <<>>, outbound |-> <<>>,
   writing |-> FALSE,  \* EVFILT_WRITE is registered
   kernel |-> <<>>]    \* written and not received by the peer

Init ==
  /\ conn = newTCPConn
  /\ pc = "accepted"
  /\ batch = <<>>
  /\ jobs = <<>>
  /\ called = {}
  /\ sent = 0
  /\ sock = <<>>
  /\ eof = FALSE
  /\ reset = FALSE
  /\ got = <<>>
  /\ consumed = <<>>
  /\ issued = 0

Drop(s, n) == SubSeq(s, n + 1, Len(s))
Numbers(m, n) == [i \in 1..(n - m + 1) |-> m + i - 1]

-----------------------------------------------------------------------------
(* Writing and closing. These operators give the set of the outcomes of a  *)
(* call: the connection after it and what it returned.                     *)
(*                                                                         *)
(* c.fd keeps its number when the socket is closed. By then the number may *)
(* be that of a connection that another goroutine has accepted, and a      *)
(* write or close meets that one: what it sends goes to another peer.      *)

Outcome(c, r) == [conn |-> c, ret |-> r]
Failed == -1
Again == 0

\* What unix.Write of s returns: a count, EAGAIN or another error.
WriteResults(c, s) ==
  LET room == SendBuffer - Len(c.kernel)
  IN  IF c.fd = "closed" THEN {Failed, Again} \cup 1..Len(s)
      ELSE IF reset THEN {Failed}
      ELSE IF room = 0 THEN {Again}
      ELSE 1..(IF Len(s) < room THEN Len(s) ELSE room)

Sending(c, s, n) ==
  IF c.fd = "closed" THEN c ELSE [c EXCEPT !.kernel = @ \o SubSeq(s, 1, n)]

\* Mutant of releaseTCP: c.opened is left as it is.
releaseBuffers(c) ==
  [c EXCEPT !.released = TRUE, !.buffer = <<>>, !.inbound = <<>>, !.outbound = <<>>]

\* releaseTCP
releaseTCP(c) ==
  [c EXCEPT !.opened = FALSE, !.released = TRUE,
            !.buffer = <<>>, !.inbound = <<>>, !.outbound = <<>>]

\* unix.Close without an error, OnClosed, and releaseTCP, which is left out
\* when OnClosed returns Shutdown, and which panics on a released connection.
Closed(c) ==
  {IF c.released THEN Outcome(c, "panic") ELSE Outcome(releaseTCP(c), "nil")}
    \cup (IF "Shutdown" \in Actions THEN {Outcome(c, "shutdown")} ELSE {})

\* Mutant of closeFd: the result of unix.Close is not looked at.
closeFdAgain(c) == Closed([c EXCEPT !.fd = "closed", !.writing = FALSE, !.closes = @ + 1])

\* Poller.Delete, which does nothing, and unix.Close: on the number of a closed
\* connection it fails, or closes the socket of the next owner.
closeFd(c) ==
  IF c.fd = "open"
    THEN Closed([c EXCEPT !.fd = "closed", !.writing = FALSE, !.closes = @ + 1])
    ELSE {Outcome(c, "nil")} \cup Closed([c EXCEPT !.closes = @ + 1, !.reused = TRUE])

\* Mutant of TailFollows: the tail is written after any part of the head.
TailAlways(n, head) == n > 0

\* The tail is written only after the whole head.
TailFollows(n, head) == n = Len(head)

\* Mutant of Drained: the write event is kept.
NotDrained(c) == c

\* ModRead when nothing is left to write.
Drained(c) == IF c.outbound = <<>> THEN [c EXCEPT !.writing = FALSE] ELSE c

\* loopWrite: the head and the tail of outboundBuffer, which splits anywhere.
loopWrite(c) ==
  UNION {
    LET head == SubSeq(c.outbound, 1, k)
        tail == Drop(c.outbound, k)
    IN  UNION {
          IF n = Failed THEN closeFd(c)
          ELSE IF n = Again THEN {Outcome(c, "nil")}
          ELSE LET d == [Sending(c, head, n) EXCEPT !.outbound = Drop(@, n)]
               IN  IF ~(TailFollows(n, head) /\ tail # <<>>)
                   THEN {Outcome(Drained(d), "nil")}
                   ELSE UNION {
                     IF m = Failed THEN closeFd(d)
                     ELSE IF m = Again THEN {Outcome(d, "nil")}
                     ELSE LET e == [Sending(d, tail, m) EXCEPT !.outbound = Drop(@, m)]
                          IN  {Outcome(Drained(e), "nil")}
                     : m \in WriteResults(d, tail)}
          : n \in WriteResults(c, head)}
    : k \in 1..Len(c.outbound)}

\* loopCloseConn(c, nil) flushes what it can, and then closes the number even if
\* the flush already did; on a released connection outboundBuffer is nil.
loopCloseConn(c) ==
  IF c.released THEN {Outcome(c, "panic")}
  ELSE IF c.outbound = <<>> THEN closeFd(c)
  ELSE UNION {closeFd(o.conn) : o \in loopWrite(c)}

\* Mutant of Registered: ModReadWrite is forgotten.
NotRegistered(c) == c

Registered(c) == [c EXCEPT !.writing = TRUE]

\* write: what closing returns after an error is dropped.
write(c, s) ==
  IF c.released THEN {Outcome(c, "panic")}
  ELSE IF c.outbound # <<>> THEN {Outcome([c EXCEPT !.outbound = @ \o s], "nil")}
  ELSE UNION {
    IF n = Failed THEN {Outcome(o.conn, "nil") : o \in closeFd(c)}
    ELSE LET d == [Sending(c, s, n) EXCEPT !.outbound = Drop(s, n)]
         IN  {Outcome(IF n < Len(s) THEN Registered(d) ELSE d, "nil")}
    : n \in WriteResults(c, s)}

\* open and AddWrite: every error leaves all of s in outboundBuffer.
open(c, s) ==
  {LET d == IF n = Failed THEN [c EXCEPT !.outbound = s]
            ELSE [Sending(c, s, n) EXCEPT !.outbound = Drop(s, n)]
   IN  IF d.outbound = <<>> THEN d ELSE Registered(d)
   : n \in WriteResults(c, s)}

\* handleAction
handleAction(c, action) ==
  CASE action = "None"     -> {Outcome(c, "nil")}
    [] action = "Close"    -> loopCloseConn(c)
    [] action = "Shutdown" -> {Outcome(c, "shutdown")}

\* What the event handler writes in one call: the next numbers, or nothing.
Replies ==
  {Numbers(issued + 1, issued + k) :
     k \in 0..(IF MaxIssued - issued < MaxReply THEN MaxIssued - issued ELSE MaxReply)}

Wrote(c, s) == IF s = <<>> THEN {Outcome(c, "nil")} ELSE write(c, s)

\* The loop goes on at place unless the handler returned an error or died.
Return(o, place) ==
  /\ conn' = o.conn
  /\ pc' = CASE o.ret = "nil"      -> place
             [] o.ret = "shutdown" -> "exit"
             [] o.ret = "panic"    -> "panicked"

-----------------------------------------------------------------------------
(* Reading.                                                                *)

\* ShiftN(n), for n bytes that are there: when they are all of inboundBuffer
\* or more, nothing is taken from it.
ShiftN(c, n) ==
  LET l == Len(c.inbound)
  IN  IF l = 0 THEN [c EXCEPT !.buffer = Drop(@, n)]
      ELSE IF l > n THEN [c EXCEPT !.inbound = Drop(@, n)]
      ELSE [c EXCEPT !.buffer = Drop(@, n - l)]

\* Mutant of ResetBuffer: c.buffer is not reset.
ResetInboundOnly(c) == [c EXCEPT !.inbound = <<>>]

ResetBuffer(c) == [c EXCEPT !.buffer = <<>>, !.inbound = <<>>]

\* Read
ReadAll(c) == c.inbound \o c.buffer

\* How many bytes make the next frame; 0 when Decode returns nil.
FrameLength(buf) ==
  IF Codec = "BuiltIn" THEN Len(buf)
  ELSE LET ends == {i \in 1..Len(buf) : buf[i] \in LineEnds}
       IN  IF ends = {} THEN 0 ELSE CHOOSE i \in ends : \A j \in ends : i <= j

\* Decode has taken the n bytes of a frame.
Decoded(c, n) == IF Codec = "BuiltIn" THEN ResetBuffer(c) ELSE ShiftN(c, n)

-----------------------------------------------------------------------------
(* The loop.                                                               *)

\* loopOpen
loopOpen ==
  /\ pc = "accepted"
  /\ \E s \in Replies, action \in Actions :
       \E d \in IF s = <<>> THEN {conn} ELSE open(conn, s) :
         \E o \in handleAction([d EXCEPT !.opened = TRUE], action) : Return(o, "kevent")
       /\ issued' = issued + Len(s)
  /\ UNCHANGED <<batch, jobs, called, peerVars, consumed>>

\* The events that are ready; those with EV_EOF are given as EVFilterSock.
Ready ==
  (IF sock # <<>> \/ eof \/ reset
     THEN {<<"read", IF eof \/ reset THEN "sock" ELSE "read">>} ELSE {})
  \cup
  (IF conn.writing /\ (Len(conn.kernel) < SendBuffer \/ reset)
     THEN {<<"write", IF reset THEN "sock" ELSE "write">>} ELSE {})

Kevent ==
  /\ pc = "kevent"
  /\ \E events \in SetToSeqs(IF conn.fd = "open" THEN Ready ELSE {}) :
       /\ events # <<>> \/ jobs # <<>>
       /\ batch' = [i \in DOMAIN events |-> events[i][2]]
  /\ pc' = "events"
  /\ UNCHANGED <<conn, jobs, called, peerVars, consumed, issued>>

\* The next event of the batch is e.
Event(e) == pc = "events" /\ batch # <<>> /\ Head(batch) = e /\ batch' = Tail(batch)

\* loopRead: unix.Read, up to the loop over the frames. A read event means
\* bytes or an error: at the end of the stream it comes with EV_EOF.
ReadEvent ==
  /\ Event("read")
  /\ IF conn.fd = "open" /\ conn.outbound = <<>>
       THEN \/ /\ ~reset /\ sock # <<>>
               /\ \E n \in {IF Len(sock) < Packet THEN Len(sock) ELSE Packet} :
                    /\ conn' = [conn EXCEPT !.buffer = SubSeq(sock, 1, n)]
                    /\ sock' = Drop(sock, n)
               /\ pc' = "frames"
            \/ /\ reset
               /\ \E o \in closeFd(conn) : Return(o, "events")
               /\ UNCHANGED sock
       ELSE UNCHANGED <<conn, pc, sock>>
  /\ UNCHANGED <<jobs, called, sent, eof, reset, got, consumed, issued>>

\* loopRead: one frame, its React and what it asks for.
Frame ==
  /\ pc = "frames"
  /\ LET buf == ReadAll(conn)
         n == FrameLength(buf)
     IN  IF n = 0
         THEN /\ conn' = [conn EXCEPT !.inbound = @ \o conn.buffer]
              /\ pc' = "events"
              /\ UNCHANGED <<consumed, issued>>
         ELSE /\ \E s \in Replies, action \in Actions :
                   /\ \E w \in Wrote(Decoded(conn, n), s) :
                        \E o \in IF w.ret = "panic" THEN {w} ELSE handleAction(w.conn, action) :
                          Return(o, IF action = "None" /\ o.conn.opened THEN "frames" ELSE "events")
                   /\ issued' = issued + Len(s)
              /\ consumed' = consumed \o SubSeq(buf, 1, n)
  /\ UNCHANGED <<batch, jobs, called, peerVars>>

\* loopWrite, when there is something to write.
WriteEvent ==
  /\ Event("write")
  /\ IF conn.fd = "open" /\ conn.outbound # <<>>
       THEN \E o \in loopWrite(conn) : Return(o, "events")
       ELSE UNCHANGED <<conn, pc>>
  /\ UNCHANGED <<jobs, called, peerVars, consumed, issued>>

SockEvent ==
  /\ Event("sock")
  /\ IF conn.fd = "open"
       THEN \E o \in loopCloseConn(conn) : Return(o, "events")
       ELSE UNCHANGED <<conn, pc>>
  /\ UNCHANGED <<jobs, called, peerVars, consumed, issued>>

EventsDone ==
  /\ pc = "events"
  /\ batch = <<>>
  /\ pc' = "jobs"
  /\ UNCHANGED <<conn, batch, jobs, called, peerVars, consumed, issued>>

NextJob(calls) == pc = "jobs" /\ jobs # <<>> /\ Head(jobs) \in calls /\ jobs' = Tail(jobs)

\* The job of AsyncWrite, which writes nothing when MaxIssued is reached.
WriteJob ==
  /\ NextJob(Writers)
  /\ \E s \in IF issued < MaxIssued THEN Replies \ {<<>>} ELSE Replies :
       IF conn.opened
         THEN /\ \E o \in Wrote(conn, s) : Return(o, "jobs")
              /\ issued' = issued + Len(s)
         ELSE UNCHANGED <<conn, pc, issued>>
  /\ UNCHANGED <<batch, called, peerVars, consumed>>

\* The job of Wake: loopWake.
WakeJob ==
  /\ NextJob(Wakers)
  /\ \E s \in Replies, action \in Actions :
       /\ \E w \in Wrote(conn, s) :
            \E o \in IF w.ret = "panic" THEN {w} ELSE handleAction(w.conn, action) :
              Return(o, "jobs")
       /\ issued' = issued + Len(s)
  /\ UNCHANGED <<batch, called, peerVars, consumed>>

\* The job of Close.
CloseJob ==
  /\ NextJob(Closers)
  /\ \E o \in loopCloseConn(conn) : Return(o, "jobs")
  /\ UNCHANGED <<batch, called, peerVars, consumed, issued>>

JobsDone ==
  /\ pc = "jobs"
  /\ jobs = <<>>
  /\ pc' = "kevent"
  /\ UNCHANGED <<conn, batch, jobs, called, peerVars, consumed, issued>>

\* Polling has returned: closeAllConns.
closeAllConns ==
  /\ pc = "exit"
  /\ \E o \in IF conn.fd = "open" THEN loopCloseConn(conn) ELSE {Outcome(conn, "nil")} :
       /\ conn' = o.conn
       /\ pc' = IF o.ret = "panic" THEN "panicked" ELSE "returned"
  /\ UNCHANGED <<batch, jobs, called, peerVars, consumed, issued>>

-----------------------------------------------------------------------------
(* Other goroutines and the peer.                                          *)

\* AsyncWrite, Wake or Close by any goroutine that has the Conn.
Call(j) ==
  /\ pc # "accepted"
  /\ j \notin called
  /\ called' = called \cup {j}
  /\ jobs' = Append(jobs, j)
  /\ UNCHANGED <<conn, pc, batch, peerVars, consumed, issued>>

Send ==
  /\ ~eof /\ ~reset
  /\ sent < MaxSent
  /\ sent' = sent + 1
  /\ sock' = IF conn.fd = "open" THEN Append(sock, sent + 1) ELSE sock
  /\ UNCHANGED <<conn, pc, batch, jobs, called, eof, reset, got, consumed, issued>>

Receive ==
  /\ ~reset
  /\ conn.kernel # <<>>
  /\ got' = Append(got, Head(conn.kernel))
  /\ conn' = [conn EXCEPT !.kernel = Tail(@)]
  /\ UNCHANGED <<pc, batch, jobs, called, sent, sock, eof, reset, consumed, issued>>

Finish ==
  /\ ~eof
  /\ eof' = TRUE
  /\ UNCHANGED <<conn, pc, batch, jobs, called, sent, sock, reset, got, consumed, issued>>

Abort ==
  /\ ~reset
  /\ reset' = TRUE
  /\ UNCHANGED <<conn, pc, batch, jobs, called, sent, sock, eof, got, consumed, issued>>

-----------------------------------------------------------------------------
Loop ==
  \/ loopOpen \/ Kevent \/ ReadEvent \/ Frame \/ WriteEvent \/ SockEvent \/ EventsDone
  \/ WriteJob \/ WakeJob \/ CloseJob \/ JobsDone \/ closeAllConns

Peer == Send \/ Receive \/ Finish \/ Abort

Next == Loop \/ (\E j \in Calls : Call(j)) \/ Peer

Spec == Init /\ [][Next]_vars

\* The goroutine of the loop is never blocked for ever but in Kevent, and the
\* peer of the liveness properties reads what it is sent.
LiveSpec == Spec /\ WF_vars(Loop) /\ WF_vars(Receive)
-----------------------------------------------------------------------------
(* Properties.                                                             *)

TypeOK ==
  /\ conn \in [fd : {"open", "closed"}, opened : BOOLEAN, released : BOOLEAN, closes : Nat,
               reused : BOOLEAN, buffer : Seq(1..MaxSent), inbound : Seq(1..MaxSent),
               outbound : Seq(1..MaxIssued), writing : BOOLEAN, kernel : Seq(1..MaxIssued)]
  /\ pc \in Places
  /\ batch \in Seq({"read", "write", "sock"})
  /\ jobs \in Seq(Calls)
  /\ called \subseteq Calls
  /\ sent \in 0..MaxSent
  /\ sock \in Seq(1..MaxSent)
  /\ eof \in BOOLEAN /\ reset \in BOOLEAN
  /\ got \in Seq(1..MaxIssued)
  /\ consumed \in Seq(1..MaxSent)
  /\ issued \in 0..MaxIssued
  /\ Len(conn.kernel) <= SendBuffer
  /\ conn.released => ~conn.opened /\ conn.fd = "closed"

\* What the peer receives is what OnOpened, React and AsyncWrite wrote, in the
\* order of their writes, through partial writes, full socket buffers and the
\* two parts of outboundBuffer (connection_unix.go:76-111,
\* eventloop_unix.go:62-92); while the socket is open nothing is missing.
OutputInOrder ==
  /\ IsPrefix(got \o conn.kernel, Numbers(1, issued))
  /\ conn.fd = "open" => got \o conn.kernel \o conn.outbound = Numbers(1, issued)

\* React is given the peer's bytes in order, each once: no frame has bytes of an
\* earlier one (eventloop_unix.go:195-215, codec.go:70-78).
GivenInOrder == IsPrefix(consumed, Numbers(1, sent))

\* And while the socket is open none is missing: those that React was not given
\* are in the buffers of the connection or of the socket
\* (eventloop_unix.go:184-215, codec.go:55-62).
InputInOrder ==
  /\ GivenInOrder
  /\ conn.fd = "open" =>
       consumed \o conn.inbound \o (IF pc = "frames" THEN conn.buffer ELSE <<>>) \o sock
         = Numbers(1, sent)

\* The write event is registered exactly while outboundBuffer has data
\* (connection_unix.go:101, 109, eventloop_unix.go:88, 177), although write
\* relies on an earlier call to have done so: less, and the data stays; more,
\* and the loop spins.
WriteRegistered ==
  conn.fd = "open" => (conn.writing <=> conn.outbound # <<>>)

\* OnClosed is called when the socket is closed, and once, although a close whose
\* flush fails goes through loopCloseConn twice and React or Close may ask for
\* another (eventloop_unix.go:35-50): it is called again only if such a close
\* met the next owner of the number, whose socket it has closed then.
ClosedOnce ==
  /\ conn.closes > 0 <=> conn.fd = "closed"
  /\ conn.closes > 1 => conn.reused

\* Buffered output leaves the server when the peer reads, or the connection
\* is closed.
OutputFlows ==
  conn.outbound # <<>> ~> (conn.outbound = <<>> \/ conn.fd = "closed" \/ pc = "panicked")

\* The peer's bytes are read in the end: ignoring reads while output is
\* pending (reactor_bsd.go:33-45) never stops them for good.
InputIsRead ==
  sock # <<>> ~> (sock = <<>> \/ conn.fd = "closed" \/ pc = "panicked")

=============================================================================
