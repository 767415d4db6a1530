------------------------------- MODULE MCScreen -------------------------------
(* Two wallets are enough for one to take the place of the other, one to   *)
(* be deleted, and answers for either to come late.                        *)
EXTENDS Screen, TLC

CONSTANTS w1, w2
MCWallets == {w1, w2}
Symmetry == Permutations(MCWallets)
===============================================================================
