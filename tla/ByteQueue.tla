------------------------------ MODULE ByteQueue ------------------------------
(***************************************************************************)
(* What a ring buffer promises to the connection that owns it: a queue of  *)
(* bytes without a limit.  RingBuffer implements it.                       *)
(***************************************************************************)
EXTENDS Integers, Sequences

CONSTANTS Byte,      \* the values of a byte
          Payloads,  \* what may be written or appended at once
          Lengths    \* how many bytes a reader may ask for

VARIABLES content,   \* the bytes that can be read, oldest first
          result     \* what the last operation returned

vars == <<content, result>>

\* The bytes returned, and the error.
Returned(bytes, err) == [bytes |-> bytes, err |-> err]
Nothing == Returned(<<>>, "nil")

\* The first n bytes of s and the rest: all of s and nothing when it is shorter.
First(s, n) == SubSeq(s, 1, IF n > Len(s) THEN Len(s) ELSE n)
Rest(s, n) == SubSeq(s, n + 1, Len(s))

Init ==
  /\ content = <<>>
  /\ result = Nothing

Write(p) ==
  /\ content' = content \o p
  /\ result' = Nothing

\* Bytes are handed out in order, once; an empty queue is an error, unless
\* nothing is asked for.
Read(n) ==
  /\ content' = Rest(content, n)
  /\ result' = IF n > 0 /\ content = <<>> THEN Returned(<<>>, "ErrIsEmpty")
                                          ELSE Returned(First(content, n), "nil")

Shift(n) ==
  /\ content' = Rest(content, n)
  /\ result' = Nothing

Reset ==
  /\ content' = <<>>
  /\ result' = Nothing

\* A copy of the first n bytes, or of all of them and a payload.
Peek(n) ==
  /\ content' = content
  /\ result' = Returned(First(content, n), "nil")

PeekAllWith(p) ==
  /\ content' = content
  /\ result' = Returned(content \o p, "nil")

Next ==
  \/ \E p \in Payloads : Write(p) \/ PeekAllWith(p)
  \/ \E n \in Lengths : Read(n) \/ Shift(n) \/ Peek(n)
  \/ Reset

Spec == Init /\ [][Next]_vars

=============================================================================
