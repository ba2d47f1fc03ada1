---------------------------- MODULE MCRingBuffer -----------------------------
(* Small instances of RingBuffer for TLC. *)
EXTENDS RingBuffer, Powers

\* Payloads of each length up to three, of bytes that show when they are
\* swapped; lengths that stop before the end of the array, at it or after it.
SomePayloads == {<<>>, <<1>>, <<0, 1>>, <<1, 1, 0>>}

SomeLengths == {0, 1, 2, 3, 5, MaxSize}

\* CeilToPowerOfTwo(n) is the least power of two that is at least n and 2, and
\* FloorToPowerOfTwo(n) the largest that is at most n, or 2 (math.go:14-35).
ASSUME PowersAssumption ==
  LET PowersOfTwo == {2 ^ k : k \in 1..12}
      Ceil(n) == CHOOSE m \in PowersOfTwo :
                   m >= n /\ \A o \in PowersOfTwo : o >= n => m <= o
  IN \A n \in 0..1025 :
       /\ CeilToPowerOfTwo(n) = Ceil(n)
       /\ n >= 2 => FloorToPowerOfTwo(n) = IF Ceil(n) = n THEN n ELSE Ceil(n) \div 2
       /\ n > 0 => (IsPowerOfTwo(n) <=> n \in PowersOfTwo \cup {1})

=============================================================================
