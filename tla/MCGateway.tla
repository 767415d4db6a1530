------------------------------ MODULE MCGateway ------------------------------
EXTENDS Gateway, TLC
CONSTANTS q1, q2, x
Key == [scheme |-> "Bearer", key |-> "k", padded |-> TRUE]
Wrong == [scheme |-> "Basic", key |-> "k", padded |-> FALSE]
MCCallers == {Anonymous, Key, Wrong}
MCEnvs == {<<[key |-> "", padded |-> FALSE]>>,
           <<[key |-> "", padded |-> FALSE], [key |-> "k", padded |-> TRUE]>>}
Symmetry == Permutations(Requests)
===============================================================================
