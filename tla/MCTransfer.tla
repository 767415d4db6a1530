------------------------------ MODULE MCTransfer ------------------------------
(* Two sends among a sender, a recipient and a paymaster: lamports, tokens *)
(* and a name that changes hands, and every reason build has to refuse.    *)
EXTENDS Transfer

CONSTANTS Alice, Bob, Paymaster, Mint, c1, c2

MCWallets == {Alice, Bob, Paymaster}
MCDecimals == [m \in {Mint} |-> 2]
MCElsewhere == [h \in MCWallets \X {Mint} |-> IF h[1] = Alice THEN 2 ELSE 0]

(* Enough for one token account and three fees, or for two transfers and   *)
(* their fees, but not for all of it.                                      *)
MCOpening ==
    [sol |-> [w \in MCWallets |->
                CASE w = Alice -> 7 [] w = Bob -> 2 [] w = Paymaster -> 8],
     ata |-> [h \in MCWallets \X {Mint} |-> IF h[1] = Alice THEN 2 ELSE None],
     ok |-> TRUE]

Name(label, suffix) == [label |-> label, suffix |-> suffix]
Ask(from, to, amount, mint) == [from |-> from, to |-> to, amount |-> amount, mint |-> mint]

MCIntents ==
    {Ask(Alice, Bob, 2, None), Ask(Alice, Bob, 1, Mint),
     Ask(Alice, Name("gift", ".sol"), 2, None), Ask(Alice, Name("gift", ".sol"), 2, Mint),
     Ask(Bob, Alice, 2, None), Ask(Alice, Bob, 17, None), Ask(Alice, Bob, 16, Mint),
     Ask(Alice, Garbage, 1, None), Ask(Alice, Bob, 1, Bob), Ask(Alice, Bob, 1, Garbage),
     Ask(Alice, Name("gift", ".SOL"), 1, None), Ask(Alice, Name("dotted", ".sol"), 1, None)}
===============================================================================
