------------------------------- MODULE Frames --------------------------------
(***************************************************************************)
(* The codecs of gnet (src/gnet/codec.go) over the two buffers of a        *)
(* connection (Read, ReadN, ShiftN and ResetBuffer of connection_unix.go,  *)
(* and loopRead of eventloop_unix.go): messages are encoded at one end and *)
(* the stream is cut into packets, which the other end decodes.            *)
(*                                                                         *)
(* A byte has Radix values, 256 in the code; a smaller radix has the same  *)
(* length fields overflow at smaller lengths.                              *)
(***************************************************************************)
EXTENDS Integers, Sequences, SequencesExt

CONSTANTS Radix,       \* the values of a byte
          Messages,    \* the messages, sequences of bytes
          MaxMessages, \* bound on the messages sent
          Codecs       \* the codecs and their configurations

Bytes == 0..(Radix - 1)

ASSUME FramesAssumption ==
  /\ Radix \in Nat \ {0, 1}
  /\ Messages \subseteq Seq(Bytes)
  /\ MaxMessages \in Nat

VARIABLES
  codec,    \* the codec of both ends
  sent,     \* the messages sent
  wire,     \* the frames sent and not read, the first may have been read in part
  whole,    \* every packet has ended with a frame
  inbound,  \* c.inboundBuffer
  buffer,   \* c.buffer
  reading,  \* loopRead is at work
  got       \* the frames given to React

vars == <<codec, sent, wire, whole, inbound, buffer, reading, got>>

Init ==
  /\ codec \in Codecs
  /\ sent = <<>>
  /\ wire = <<>>
  /\ whole = TRUE
  /\ inbound = <<>>
  /\ buffer = <<>>
  /\ reading = FALSE
  /\ got = <<>>

Drop(s, n) == SubSeq(s, n + 1, Len(s))
Take(s, n) == SubSeq(s, 1, n)

-----------------------------------------------------------------------------
(* The buffers of a connection: a record of inbound and buffer.            *)

Buffers(i, b) == [inbound |-> i, buffer |-> b]

\* ResetBuffer
ResetBuffer(c) == Buffers(<<>>, <<>>)

\* Read
Read(c) == c.inbound \o c.buffer

\* ReadN: what there is when that is less than n.
ReadN(c, n) ==
  IF Len(Read(c)) < n \/ n <= 0 THEN Read(c) ELSE Take(Read(c), n)

\* ShiftN: over the border of the two buffers, the inbound one is left as it is.
ShiftN(c, n) ==
  IF Len(Read(c)) < n \/ n <= 0 THEN ResetBuffer(c)
  ELSE IF Len(c.inbound) > n THEN Buffers(Drop(c.inbound, n), c.buffer)
  ELSE Buffers(c.inbound, Drop(c.buffer, n - Len(c.inbound)))

-----------------------------------------------------------------------------
(* Length fields.                                                          *)

\* The weight of a digit, for the widths there are.
Pow[i \in 0..8] == IF i = 0 THEN 1 ELSE Pow[i - 1] * Radix

\* PutUint16, writeUint24, PutUint32 and PutUint64, modulo the field's width.
PutUint(order, n, v) ==
  LET big == [i \in 1..n |-> (v \div Pow[n - i]) % Radix]
  IN  IF order = "BigEndian" THEN big ELSE Reverse(big)

\* The number with these digits, the highest first.
Number(b) ==
  LET value[i \in 0..Len(b)] == IF i = 0 THEN 0 ELSE value[i - 1] * Radix + b[i]
  IN  value[Len(b)]

\* Mutant of Uint: readUint24 takes every order for big-endian.
UintBig(order, b) == Number(b)

\* Uint16, readUint24, Uint32 and Uint64.
Uint(order, b) == Number(IF order = "BigEndian" THEN b ELSE Reverse(b))

Supported == {1, 2, 3, 4, 8}
Checked   == {1, 2, 3}  \* the widths whose overflow Encode checks

-----------------------------------------------------------------------------
(* Encode: the frame, or an error.                                         *)

Error == [ok |-> FALSE, bytes |-> <<>>]
Ok(s) == [ok |-> TRUE, bytes |-> s]

BuiltInEncode(m) == Ok(m)

DelimiterEncode(delimiter, m) == Ok(Append(m, delimiter))

FixedLengthEncode(frameLength, m) ==
  IF Len(m) % frameLength # 0 THEN Error ELSE Ok(m)

\* The value of the length field.
EncodedLength(ec, m) ==
  Len(m) + ec.LengthAdjustment
    + (IF ec.LengthIncludesLengthFieldLength THEN ec.LengthFieldLength ELSE 0)

LengthFieldEncode(ec, m) ==
  LET length == EncodedLength(ec, m)
      n      == ec.LengthFieldLength
  IN  IF length < 0 \/ n \notin Supported \/ (n \in Checked /\ length >= Pow[n])
        THEN Error
        ELSE Ok(PutUint(ec.ByteOrder, n, length) \o m)

Encode(cc, m) ==
  CASE cc.kind = "BuiltIn"     -> BuiltInEncode(m)
    [] cc.kind = "Delimiter"   -> DelimiterEncode(cc.delimiter, m)
    [] cc.kind = "FixedLength" -> FixedLengthEncode(cc.frameLength, m)
    [] cc.kind = "LengthField" -> LengthFieldEncode(cc.encoder, m)

-----------------------------------------------------------------------------
(* Decode: the frame and the buffers after it; no frame leaves them alone. *)

NoFrame(c)   == [ok |-> FALSE, frame |-> <<>>, conn |-> c]
Frame(f, c)  == [ok |-> TRUE, frame |-> f, conn |-> c]

BuiltInDecode(c) ==
  IF Read(c) = <<>> THEN NoFrame(c) ELSE Frame(Read(c), ResetBuffer(c))

\* LineBasedFrameCodec is this with CRLFByte.
DelimiterDecode(delimiter, c) ==
  LET buf == Read(c)
      at  == {i \in 1..Len(buf) : buf[i] = delimiter}
      idx == CHOOSE i \in at : \A j \in at : i <= j
  IN  IF at = {} THEN NoFrame(c) ELSE Frame(Take(buf, idx - 1), ShiftN(c, idx))

\* A frame may be shorter than frameLength.
FixedLengthDecode(frameLength, c) ==
  LET buf == ReadN(c, frameLength)
  IN  IF buf = <<>> THEN NoFrame(c) ELSE Frame(buf, ShiftN(c, Len(buf)))

\* innerBuffer.readN succeeds.
CanReadN(s, n) == n > 0 /\ n <= Len(s)

\* The length field is read behind the header, and the message behind it.
LengthFieldDecode(dc, c) ==
  LET in        == Read(c)
      start     == dc.LengthFieldOffset
      n         == dc.LengthFieldLength
      body      == Drop(in, start + n)
      msgLength == Uint(dc.ByteOrder, SubSeq(in, start + 1, start + n)) + dc.LengthAdjustment
      full      == start + n + msgLength
  IN  IF /\ start > 0 => CanReadN(in, start)
         /\ n \in Supported /\ CanReadN(Drop(in, start), n)
         /\ CanReadN(body, msgLength)
        THEN Frame(Drop(Take(in, full), dc.InitialBytesToStrip), ShiftN(c, full))
        ELSE NoFrame(c)

Decode(cc, c) ==
  CASE cc.kind = "BuiltIn"     -> BuiltInDecode(c)
    [] cc.kind = "Delimiter"   -> DelimiterDecode(cc.delimiter, c)
    [] cc.kind = "FixedLength" -> FixedLengthDecode(cc.frameLength, c)
    [] cc.kind = "LengthField" -> LengthFieldDecode(cc.decoder, c)

-----------------------------------------------------------------------------
(* The configurations.  What one end encodes, the other decodes.            *)

\* The decoder takes away from the length field what the encoder put there, and
\* strips no more than what is before the message; the widths that Encode does
\* not check hold the lengths of the messages.
Matching(ec, dc) ==
  /\ dc.ByteOrder = ec.ByteOrder
  /\ dc.LengthFieldLength = ec.LengthFieldLength
  /\ ec.LengthAdjustment \in Int
  /\ dc.LengthAdjustment =
       -ec.LengthAdjustment
         - (IF ec.LengthIncludesLengthFieldLength THEN ec.LengthFieldLength ELSE 0)
  /\ dc.LengthFieldOffset \in Nat
  /\ dc.InitialBytesToStrip \in 0..(dc.LengthFieldOffset + dc.LengthFieldLength)
  /\ ec.LengthFieldLength \in Supported \ Checked =>
       \A m \in Messages : EncodedLength(ec, m) < Pow[ec.LengthFieldLength]

ASSUME CodecsAssumption ==
  \A cc \in Codecs :
    \/ cc.kind = "BuiltIn"
    \/ cc.kind = "Delimiter" /\ cc.delimiter \in Bytes
    \/ cc.kind = "FixedLength" /\ cc.frameLength \in Nat \ {0}
    \/ cc.kind = "LengthField" /\ Matching(cc.encoder, cc.decoder)

-----------------------------------------------------------------------------
(* The two ends.                                                           *)

\* The sender puts a header before the length field where the decoder skips one.
Header(cc) ==
  IF cc.kind = "LengthField" THEN [i \in 1..cc.decoder.LengthFieldOffset |-> 0] ELSE <<>>

\* Messages of a delimited stream do not hold the delimiter.
Sendable(cc, m) == cc.kind = "Delimiter" => cc.delimiter \notin Range(m)

Send(m) ==
  /\ Len(sent) < MaxMessages
  /\ Sendable(codec, m)
  /\ Encode(codec, m).ok
  /\ sent' = Append(sent, m)
  /\ wire' = Append(wire, Header(codec) \o Encode(codec, m).bytes)
  /\ UNCHANGED <<codec, whole, inbound, buffer, reading, got>>

\* loopRead: a packet of some frames and a part of the one that follows them.
ReadPacket(n, k) ==
  /\ ~reading
  /\ buffer' = FlattenSeq(Take(wire, n)) \o (IF k = 0 THEN <<>> ELSE Take(wire[n + 1], k))
  /\ buffer' # <<>>
  /\ wire' = IF k = 0 THEN Drop(wire, n) ELSE <<Drop(wire[n + 1], k)>> \o Drop(wire, n + 1)
  /\ whole' = (whole /\ k = 0)
  /\ reading' = TRUE
  /\ UNCHANGED <<codec, sent, inbound, got>>

\* loopRead: a frame for React.
React ==
  /\ reading
  /\ LET d == Decode(codec, Buffers(inbound, buffer))
     IN  /\ d.ok
         /\ got' = Append(got, d.frame)
         /\ inbound' = d.conn.inbound
         /\ buffer' = d.conn.buffer
  /\ UNCHANGED <<codec, sent, wire, whole, reading>>

\* loopRead: no frame is left, and the rest is kept; c.buffer stays set.
KeepRest ==
  /\ reading
  /\ ~Decode(codec, Buffers(inbound, buffer)).ok
  /\ inbound' = inbound \o buffer
  /\ reading' = FALSE
  /\ UNCHANGED <<codec, sent, wire, whole, buffer, got>>

\* Where a packet may end after n frames.
Cuts(n) == {0} \cup (IF n < Len(wire) THEN 1..(Len(wire[n + 1]) - 1) ELSE {})

Next ==
  \/ \E m \in Messages : Send(m)
  \/ \E n \in 0..Len(wire) : \E k \in Cuts(n) : ReadPacket(n, k)
  \/ React \/ KeepRest

Spec == Init /\ [][Next]_vars

-----------------------------------------------------------------------------
(* Properties.                                                             *)

\* The frame that a message ought to come out as.
FrameOf(cc, m) ==
  IF cc.kind = "LengthField"
    THEN Drop(Header(cc) \o Encode(cc, m).bytes, cc.decoder.InitialBytesToStrip)
    ELSE m

Expected == [i \in DOMAIN sent |-> FrameOf(codec, sent[i])]

\* The stream that was sent.
Stream == FlattenSeq([i \in DOMAIN sent |-> Header(codec) \o Encode(codec, sent[i]).bytes])

Unread == inbound \o (IF reading THEN buffer ELSE <<>>) \o FlattenSeq(wire)

\* The decoder of a length field takes a message of no bytes for an incomplete
\* one, and waits.
NoneEmpty == codec.kind = "LengthField" => \A i \in DOMAIN sent : sent[i] # <<>>

\* What the codecs promise. The two that cut by size lose, repeat and reorder
\* no byte, however the packets are cut (codec.go:55-62, 115-122). As long as
\* every packet ends with a frame, the others give React the messages, in
\* order and all of them, for each width and order of the length field and for
\* adjustments and stripping that match (codec.go:70-78, 91-99, 159-246), and
\* every frame of a fixed length has it.
RoundTrip ==
  /\ codec.kind \in {"BuiltIn", "FixedLength"} => FlattenSeq(got) \o Unread = Stream
  /\ codec.kind = "FixedLength" /\ whole => \A i \in DOMAIN got : Len(got[i]) = codec.frameLength
  /\ codec.kind \in {"Delimiter", "LengthField"} /\ whole /\ NoneEmpty =>
       /\ IsPrefix(got, Expected)
       /\ ~reading /\ wire = <<>> => got = Expected /\ inbound = <<>>

=============================================================================
