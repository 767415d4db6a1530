--------------------------- MODULE TransactionStore ---------------------------
(***************************************************************************)
(* The `transactions` table of the backend (store/transactions.rs and      *)
(* migrations/0002_transactions.sql) as a function from idempotency keys   *)
(* to rows.  The table has one row per key because the key is UNIQUE, and  *)
(* each operator below is one SQL statement: Postgres runs it atomically.  *)
(*                                                                         *)
(* A signature is identified with the signed transaction it comes from:    *)
(* Ed25519 is deterministic, so equal bytes have equal signatures, and two *)
(* different messages have different ones.  A wallet id is identified with *)
(* the public key it was given for.                                        *)
(***************************************************************************)

CONSTANTS
    Keys,     \* idempotency keys
    Txs,      \* signed transactions, and the on-chain signatures they carry
    Wallets,  \* public keys that may be registered
    Intents,  \* what a transfer moves: recipient, amount and mint
    None      \* SQL NULL

ASSUME NoneAssumption == None \notin Txs \cup Wallets \cup Intents

Statuses == {"absent", "pending", "submitted"}

Row == [wallet    : Wallets \cup {None},
        intent    : Intents \cup {None},
        signature : Txs \cup {None},
        status    : Statuses]

(* The value of a key that has no row. *)
NoRow == [wallet |-> None, intent |-> None, signature |-> None, status |-> "absent"]

EmptyTable == [k \in Keys |-> NoRow]

Exists(table, k) == table[k].status # "absent"

(* The recorded signature is the only field the handler branches on. *)
Recorded(table, k) == table[k].signature # None

Pending(wallet, intent) ==
    [wallet |-> wallet, intent |-> intent, signature |-> None, status |-> "pending"]

(* Variant of the insert: two columns are bound in the wrong order.        *)
SwappedBinds(table, k, wallet, intent) ==
    IF Exists(table, k) THEN table ELSE [table EXCEPT ![k] = Pending(intent, wallet)]

(* insert ... on conflict (idempotency_key) do nothing *)
InsertPending(table, k, wallet, intent) ==
    IF Exists(table, k) THEN table ELSE [table EXCEPT ![k] = Pending(wallet, intent)]

(* A variant of the schema without the UNIQUE index. *)
NoUniqueIndex(table, k, sig) == FALSE

(* The UNIQUE index on signature: the update is refused when another row   *)
(* already carries the signature.                                          *)
SignatureTaken(table, k, sig) ==
    \E j \in Keys \ {k} : table[j].signature = sig

(* update ... set signature, status where idempotency_key = k; the row's   *)
(* previous signature is not looked at.                                    *)
MarkSubmitted(table, k, sig) ==
    IF Exists(table, k)
      THEN [table EXCEPT ![k] = [@ EXCEPT !.signature = sig, !.status = "submitted"]]
      ELSE table
===============================================================================
