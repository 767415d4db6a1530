------------------------------ MODULE MCPayment ------------------------------
(***************************************************************************)
(* Instances of Payment for TLC: one wallet, payments with up to two       *)
(* transactions each.                                                      *)
(***************************************************************************)
EXTENDS Payment, TLC

CONSTANTS k1, t1, t2, t3, p1, i1, i2, h1, h2

PaysThree == t1 :> k1 @@ t2 :> k1 @@ t3 :> k1

PaysOne == t1 :> k1 @@ t2 :> k1
IntentsOne == k1 :> i1

Bodies == {Body(Pays[t], t) : t \in Txs}

Symmetry == Permutations(Handlers)
===============================================================================
