--------------------------- MODULE IdempotentSubmit ---------------------------
(***************************************************************************)
(* What POST /v1/tx/submit promises, free of handlers, awaits and faults   *)
(* (the contract stated in handlers/tx.rs 4-7 and 107-110 and in the head  *)
(* of migrations/0002_transactions.sql): a key is claimed for good, only a *)
(* transaction the network has taken is recorded under it, once and under  *)
(* that key alone, and an answer is always the recorded signature.         *)
(***************************************************************************)

CONSTANTS Keys, Txs, Callers, None

VARIABLES
    claimed,   \* keys that have been claimed
    recorded,  \* the signature recorded under each key, or None
    relayed,   \* transactions the network has taken
    answer     \* the signature each caller has been given, or None

vars == <<claimed, recorded, relayed, answer>>

Init ==
    /\ claimed = {}
    /\ recorded = [k \in Keys |-> None]
    /\ relayed = {}
    /\ answer = [c \in Callers |-> None]

Claim(k) ==
    /\ claimed' = claimed \cup {k}
    /\ UNCHANGED <<recorded, relayed, answer>>

Relay(t) ==
    /\ relayed' = relayed \cup {t}
    /\ UNCHANGED <<claimed, recorded, answer>>

(* The caller may or may not learn of it. *)
Record(c, k, t) ==
    /\ k \in claimed
    /\ t \in relayed
    /\ recorded[k] \in {None, t}
    /\ \A j \in Keys \ {k} : recorded[j] # t
    /\ recorded' = [recorded EXCEPT ![k] = t]
    /\ answer' \in {answer, [answer EXCEPT ![c] = t]}
    /\ UNCHANGED <<claimed, relayed>>

Answer(c, k) ==
    /\ recorded[k] # None
    /\ answer' = [answer EXCEPT ![c] = recorded[k]]
    /\ UNCHANGED <<claimed, recorded, relayed>>

Release(c) ==
    /\ answer' = [answer EXCEPT ![c] = None]
    /\ UNCHANGED <<claimed, recorded, relayed>>

Next ==
    \/ \E k \in Keys : Claim(k)
    \/ \E t \in Txs : Relay(t)
    \/ \E c \in Callers, k \in Keys, t \in Txs : Record(c, k, t)
    \/ \E c \in Callers, k \in Keys : Answer(c, k)
    \/ \E c \in Callers : Release(c)

Spec == Init /\ [][Next]_vars
===============================================================================
