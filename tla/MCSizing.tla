----------------------------- MODULE MCSizing ------------------------------
(***************************************************************************)
(* The instance of Sizing for TLC: words of 6 bits, blocks of up to 12.    *)
(***************************************************************************)
EXTENDS Sizing

\* Around the multiples of Align and of the units, and around the largest size
\* five buffers can have
SomeRequests == {1, 3, 4, 5, 8, 12, 13, 24, 25, 41, 52}

SomeRates == {1, 7, 17, 26, 50}
============================================================================
