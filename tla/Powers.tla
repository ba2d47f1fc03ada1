------------------------------- MODULE Powers --------------------------------
(***************************************************************************)
(* src/gnet/internal/math.go: powers of two by filling in the bits below   *)
(* the highest.                                                            *)
(***************************************************************************)
EXTENDS Integers, Bitwise

\* fillBits: n |= n >> k for k = 1, 2, 4, ..., 32.
Fill(n, k) == n | shiftR(n, k)
fillBits(n) == Fill(Fill(Fill(Fill(Fill(Fill(n, 1), 2), 4), 8), 16), 32)

IsPowerOfTwo(n) == n & (n - 1) = 0

\* For arguments of at most 2^62, on larger ones the code panics.
CeilToPowerOfTwo(n) == IF n <= 2 THEN 2 ELSE fillBits(n - 1) + 1

FloorToPowerOfTwo(n) == IF n <= 2 THEN 2 ELSE shiftR(fillBits(n), 1) + 1

=============================================================================
