----------------------------- MODULE MCSendFlow -----------------------------
(* Two names, so that an answer may be for the other one, and two sheets,  *)
(* so that a transfer of the first may end while the second is open.       *)
EXTENDS SendFlow, TLC

CONSTANTS n1, n2
MCNames == {n1, n2}
Symmetry == Permutations(MCNames)
===============================================================================
