----------------------------- MODULE MCSessions -----------------------------
(***************************************************************************)
(* An instance of Sessions for TLC.                                        *)
(***************************************************************************)
EXTENDS Sessions, TLC

CONSTANTS p1, p2, p3

P3 == {p1, p2, p3}

\* Every process may do the same, so nothing but their names tells them apart
Symmetric == Permutations(P3)
=============================================================================
