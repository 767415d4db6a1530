------------------------------- MODULE MCSubmit -------------------------------
(***************************************************************************)
(* Instances of Submit for TLC.                                            *)
(***************************************************************************)
EXTENDS Submit, TLC

CONSTANTS k1, k2, k3, k4, t1, forged, garbled, p1, i1, i2, h1, h2

(* Blind retries: k1 and k2 carry the same bytes (the same transfer built  *)
(* twice within one blockhash), k3 a payload whose signature does not      *)
(* verify, k4 one that is not base64.                                      *)
BlindRetries ==
    {[key |-> k1, tx |-> t1, pubkey |-> p1, intent |-> i1],
     [key |-> k2, tx |-> t1, pubkey |-> None, intent |-> i1],
     [key |-> k3, tx |-> forged, pubkey |-> p1, intent |-> i2],
     [key |-> k4, tx |-> garbled, pubkey |-> p1, intent |-> i2]}

ASSUME BlindRetry

Symmetry == Permutations(Handlers)
===============================================================================
