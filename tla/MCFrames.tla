------------------------------ MODULE MCFrames -------------------------------
(* Small instances of Frames for TLC. *)
EXTENDS Frames

AllMessages == {<<>>, <<1>>, <<0, 1>>, <<1, 2, 0>>, <<2, 1, 0, 2>>}

\* An encoder, and the decoder that undoes it, with and without the header and
\* the length field.
LengthFields ==
  { [kind |-> "LengthField",
     encoder |-> [ByteOrder |-> order, LengthFieldLength |-> n, LengthAdjustment |-> adjust,
                  LengthIncludesLengthFieldLength |-> includes],
     decoder |-> [ByteOrder |-> order, LengthFieldOffset |-> offset, LengthFieldLength |-> n,
                  LengthAdjustment |-> -adjust - (IF includes THEN n ELSE 0),
                  InitialBytesToStrip |-> strip * (offset + n)]] :
    order \in {"BigEndian", "LittleEndian"}, n \in {1, 2, 3, 4, 8}, adjust \in {-1, 1},
    includes \in BOOLEAN, offset \in {0, 1}, strip \in {0, 1} }

AllCodecs ==
  {[kind |-> "BuiltIn"]}
    \cup {[kind |-> "Delimiter", delimiter |-> d] : d \in {0, 2}}
    \cup {[kind |-> "FixedLength", frameLength |-> n] : n \in 1..3}
    \cup LengthFields
=============================================================================
