------------------------------ MODULE MCHistory ------------------------------
(***************************************************************************)
(* Four rows in pages of two: a tie may straddle a page.  The conversions  *)
(* of Codecs are checked on every input up to a length, with radices small *)
(* enough for that and in the proportions of the real ones: a behaviour    *)
(* either pages through the history or converts one input.                 *)
(***************************************************************************)
EXTENDS History, Conversions, TLC

CONSTANTS r1, r2, r3, r4
MCRows == {r1, r2, r3, r4}
Symmetry == Permutations(MCRows)

(* Any function of the entropy would do for a checksum. *)
MCCounts == {3, 6}
MCChecksum(entropy) ==
    LET n == Number(entropy, 4) IN <<(n \div 3) % 2, (n \div 7) % 2, n % 2>>

Texts(digits, length) == UNION {[1..n -> digits] : n \in 0..length}

MCInputs ==
    [kind : {"bytes"}, of : Texts(0..Radix - 1, 5)]
      \cup [kind : {"digits"}, of : Texts(0..Base - 1, 6)]
      \cup [kind : {"entropy"}, of : [1..4 -> 0..3] \cup [1..8 -> 0..1]]
      \cup [kind : {"words"}, of : [1..3 -> Dictionary]]
      \cup [kind : {"typed"}, of : [1..4 -> 0..1], spaces : [1..2 -> 1..2]]
      \cup [kind : {"transaction"}, of : UNION {[1..n -> {<<0, 3>>, <<2, 1>>}] : n \in 1..5},
            message : Texts(0..Radix - 1, 2)]
      \cup [kind : {"amount"}, of : 0..200, decimals : 0..3]
      \cup [kind : {"text"}, of : Texts(0..Dot, 4), decimals : 0..3]

MCInit == HistoryInit /\ ConvertInit

Walk == input = Nothing /\ HistoryNext /\ UNCHANGED input
ConvertOne == HistoryInit /\ Convert /\ UNCHANGED historyVars

MCSpec == MCInit /\ [][Walk \/ ConvertOne]_<<historyVars, input>>
===============================================================================
