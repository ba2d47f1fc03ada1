----------------------------- MODULE RingBuffer ------------------------------
(***************************************************************************)
(* The ring buffer of src/gnet/ringbuffer/ring_buffer.go, in which a       *)
(* connection keeps the bytes it has received and those it could not send. *)
(* Arrays are indexed from 0, as in the code.                              *)
(***************************************************************************)
EXTENDS Integers, Sequences

CONSTANTS Byte,             \* the values of a byte
          Zero,             \* the value of the bytes make() returns
          Payloads,         \* what may be written at once
          Lengths,          \* how many bytes a reader may ask for
          StartSizes,       \* the arguments New may be given
          InitSize,         \* initSize: 4096 in the code
          PowerAtLeast(_),  \* internal.CeilToPowerOfTwo
          MaxSize           \* bound: the buffer grows to this size at most

ASSUME RingAssumption ==
  /\ Zero \in Byte
  /\ Payloads \subseteq Seq(Byte)
  /\ Lengths \subseteq Nat
  /\ 1 \in Lengths
  /\ StartSizes \subseteq 0..MaxSize
  /\ MaxSize \in Nat
  /\ InitSize \in Nat \ {0}
  /\ \A n \in 0..MaxSize :
       PowerAtLeast(n) \in Nat /\ PowerAtLeast(n) >= n /\ PowerAtLeast(n) >= 2

VARIABLES
  buf,      \* r.buf
  size,     \* r.size
  mask,     \* r.mask
  r,        \* r.r: where the next byte is read
  w,        \* r.w: where the next byte is written
  isEmpty,  \* r.isEmpty, which tells a full buffer from an empty one
  result    \* what the last operation returned

vars == <<buf, size, mask, r, w, isEmpty, result>>

Returned(bytes, err) == [bytes |-> bytes, err |-> err]
Nothing == Returned(<<>>, "nil")

Least(m, n) == IF m < n THEN m ELSE n

\* The slice buf[i:j].
Slice(i, j) == [k \in 1..(j - i) |-> buf[i + k - 1]]

New(n) ==
  LET s == IF n = 0 THEN 0 ELSE PowerAtLeast(n) IN
  /\ s <= MaxSize
  /\ size = s
  /\ mask = IF n = 0 THEN 0 ELSE s - 1
  /\ buf = [i \in 0..(s - 1) |-> Zero]

Init ==
  /\ \E n \in StartSizes : New(n)
  /\ r = 0
  /\ w = 0
  /\ isEmpty = TRUE
  /\ result = Nothing

Length ==
  IF r = w THEN IF isEmpty THEN 0 ELSE size
           ELSE IF w > r THEN w - r ELSE size - r + w

\* Mutant of Free: a full buffer passes for an empty one.
FreeIfEqual == IF w < r THEN r - w ELSE size - w + r

Free ==
  IF r = w THEN IF isEmpty THEN size ELSE 0
           ELSE IF w < r THEN r - w ELSE size - w + r

\* x & r.mask: mask + 1 is a power of two.
Masked(x) == x % (mask + 1)

\* The next n bytes when the buffer is not empty, as Read and LazyRead take
\* them: in one piece, or with what is at the front of the array.
Taken(n) == IF w > r \/ r + n < size THEN Slice(r, r + n)
                                     ELSE Slice(r, size) \o Slice(0, n - (size - r))

\* How many there are to take, for a caller that asks for len.
Available(len) == Least(IF w > r THEN w - r ELSE size - r + w, len)

\* LazyReadAll: head and tail in turn.
All == IF isEmpty THEN <<>>
       ELSE IF w > r THEN Slice(r, w)
       ELSE Slice(r, size) \o Slice(0, w)

-----------------------------------------------------------------------------
(* Reading.                                                                *)

LazyRead(len) ==
  /\ result' = Returned(IF isEmpty \/ len <= 0 THEN <<>>
                        ELSE Taken(Available(len)), "nil")
  /\ UNCHANGED <<buf, size, mask, r, w, isEmpty>>

\* ByteBuffer and WithByteBuffer, and LazyReadAll with nothing to append.
WithByteBuffer(b) ==
  /\ result' = Returned(All \o b, "nil")
  /\ UNCHANGED <<buf, size, mask, r, w, isEmpty>>

\* Read into a slice of len bytes.
Read(len) ==
  /\ UNCHANGED <<buf, size, mask, w>>
  /\ IF len = 0 \/ isEmpty
       THEN /\ result' = Returned(<<>>, IF len = 0 THEN "nil" ELSE "ErrIsEmpty")
            /\ UNCHANGED <<r, isEmpty>>
       ELSE /\ result' = Returned(Taken(Available(len)), "nil")
            /\ r' = IF w > r THEN r + Available(len) ELSE Masked(r + Available(len))
            /\ isEmpty' = (r' = w)

\* ReadByte tells apart the empty buffer like Read(1) and wraps without mask.
ReadByte ==
  /\ UNCHANGED <<buf, size, mask, w>>
  /\ IF isEmpty
       THEN /\ result' = Returned(<<>>, "ErrIsEmpty")
            /\ UNCHANGED <<r, isEmpty>>
       ELSE /\ result' = Returned(<<buf[r]>>, "nil")
            /\ r' = IF r + 1 = size THEN 0 ELSE r + 1
            /\ isEmpty' = (r' = w)

Reset ==
  /\ r' = 0
  /\ w' = 0
  /\ isEmpty' = TRUE
  /\ result' = Nothing
  /\ UNCHANGED <<buf, size, mask>>

Shift(n) ==
  \/ /\ n <= 0
     /\ result' = Nothing
     /\ UNCHANGED <<buf, size, mask, r, w, isEmpty>>
  \/ /\ n > 0
     /\ n < Length
     /\ r' = Masked(r + n)
     /\ isEmpty' = IF r' = w THEN TRUE ELSE isEmpty
     /\ result' = Nothing
     /\ UNCHANGED <<buf, size, mask, w>>
  \/ /\ n > 0
     /\ n >= Length
     /\ Reset

-----------------------------------------------------------------------------
(* Writing.                                                                *)

\* malloc(cap): the new size.
NewCap(cap) == IF size = 0 /\ InitSize >= cap THEN InitSize
                                              ELSE PowerAtLeast(size + cap)

\* Mutant of Copied: the bytes stay where they were in the array.
CopiedInPlace(newCap) ==
  [i \in 0..(newCap - 1) |-> IF i < size THEN buf[i] ELSE Zero]

\* malloc: what Read has copied to the front of the new array.
Copied(newCap) ==
  [i \in 0..(newCap - 1) |-> IF i < Length THEN All[i + 1] ELSE Zero]

\* The array b of s bytes after p is copied at position at, what does not fit
\* at the end going to the front when the reader is not in between.
Stored(b, s, from, at, p) ==
  [i \in 0..(s - 1) |->
     IF i >= at /\ i - at < Len(p) THEN p[i - at + 1]
     ELSE IF at >= from /\ i < Len(p) - (s - at) THEN p[s - at + i + 1]
     ELSE b[i]]

\* Mutant of Advanced: the end of the array is not the front again.
AdvancedPast(s, from, at, n) ==
  IF at >= from /\ s - at < n THEN n - (s - at) ELSE at + n

\* Where the next byte goes then.
Advanced(s, from, at, n) ==
  LET end == IF at >= from /\ s - at < n THEN n - (s - at) ELSE at + n
  IN IF end = s THEN 0 ELSE end

\* Write, of which WriteString and WriteByte (a single byte) are special cases.
Write(p) ==
  /\ result' = Nothing
  /\ \/ /\ p = <<>>
        /\ UNCHANGED <<buf, size, mask, r, w, isEmpty>>
     \/ /\ p # <<>>
        /\ Len(p) <= Free
        /\ buf' = Stored(buf, size, r, w, p)
        /\ w' = Advanced(size, r, w, Len(p))
        /\ isEmpty' = FALSE
        /\ UNCHANGED <<size, mask, r>>
     \/ /\ Len(p) > Free
        /\ size + Len(p) - Free <= MaxSize
        /\ size' = NewCap(Len(p) - Free)
        /\ size' <= MaxSize
        /\ mask' = size' - 1
        /\ buf' = Stored(Copied(size'), size', 0, Length, p)
        /\ r' = 0
        /\ w' = Advanced(size', 0, Length, Len(p))
        /\ isEmpty' = FALSE

Next ==
  \/ \E p \in Payloads : Write(p) \/ WithByteBuffer(p)
  \/ \E n \in Lengths : LazyRead(n) \/ Read(n) \/ Shift(n)
  \/ ReadByte
  \/ Reset

Spec == Init /\ [][Next]_vars

-----------------------------------------------------------------------------
(* Properties.                                                             *)

\* The indexes stay inside the array, the mask fits the size, and a buffer
\* that says it is empty has its indexes equal.
TypeOK ==
  /\ size \in 0..MaxSize
  /\ buf \in [0..(size - 1) -> Byte]
  /\ mask = IF size = 0 THEN 0 ELSE size - 1
  /\ IF size = 0 THEN r = 0 /\ w = 0 /\ isEmpty
                 ELSE r \in 0..(size - 1) /\ w \in 0..(size - 1)
  /\ isEmpty \in BOOLEAN
  /\ isEmpty => r = w

\* Whatever is read, shifted, wrapped around or moved to a larger array, the
\* buffer is a queue of bytes without a limit: each operation returns what the
\* queue does.
Queue == INSTANCE ByteQueue WITH content <- All
QueueSpec == Queue!Spec

\* The accessors agree with what can be read: connection code uses Length() to
\* decide whether a frame is complete, and Write trusts Free().
AccessorsAgree == Len(All) = Length /\ Length + Free = size

=============================================================================
