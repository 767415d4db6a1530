------------------------------- MODULE History -------------------------------
(***************************************************************************)
(* GET /v1/wallets/:pubkey/transactions (handlers/wallet.rs, history;      *)
(* store/transactions.rs, list_for_wallet) as XendWallet.history pages     *)
(* through it with the createdAt of the last row seen, while other sends   *)
(* claim and mark rows.                                                    *)
(*                                                                         *)
(* created_at is now() of the claim, which another session sees a moment   *)
(* later; equal times are possible.                                        *)
(***************************************************************************)
EXTENDS Naturals, FiniteSets, FiniteSetsExt

CONSTANTS
    Rows,       \* rows of the ledger
    Limit,      \* the limit asked for, after the clamp
    Delay,      \* how late a claim may become visible
    Horizon,    \* bound: the last tick
    None

ASSUME HistoryBounds == Limit \in Nat \ {0} /\ Delay \in Nat /\ Horizon \in Nat
ASSUME CursorIsNoTime == None \notin Nat
ASSUME FiniteLedger == IsFiniteSet(Rows)

VARIABLES
    time,        \* the clock of the database
    registered,  \* the wallet is in the wallets table
    created,     \* created_at, None before the row is claimed
    mine,        \* rows whose wallet_id is the wallet's
    signed,      \* rows with a signature
    walk,        \* where the app is: before, within or after its pages
    cursor,      \* before
    seen,        \* rows the app has been given
    due,         \* history: rows that were listed when the walk began
    again        \* history: rows given twice

ledger == <<time, registered, created, mine, signed>>
pages == <<walk, cursor, seen, due, again>>
historyVars == <<ledger, pages>>

HistoryInit ==
    /\ time = 0 /\ registered = FALSE
    /\ created = [r \in Rows |-> None] /\ mine = {} /\ signed = {}
    /\ walk = "before" /\ cursor = None /\ seen = {} /\ due = {} /\ again = {}

RegisterPayer ==
    /\ ~registered /\ registered' = TRUE
    /\ UNCHANGED <<time, created, mine, signed, pages>>

(* insert_pending: a wallet that is not registered yet leaves no trace. *)
ClaimRow(r) ==
    /\ created[r] = None
    /\ \E t \in 0..time :
         /\ time - t <= Delay
         /\ created' = [created EXCEPT ![r] = t]
    /\ mine' = IF registered THEN mine \cup {r} ELSE mine
    /\ UNCHANGED <<time, registered, signed, pages>>

(* mark_submitted leaves created_at alone. *)
MarkRow(r) ==
    /\ created[r] # None /\ r \notin signed
    /\ signed' = signed \cup {r}
    /\ UNCHANGED <<time, registered, created, mine, pages>>

NextTick ==
    /\ time < Horizon /\ time' = time + 1
    /\ UNCHANGED <<registered, created, mine, signed, pages>>

(* The where clause.  The variant includes the row of the cursor.          *)
UpTo(r) == created[r] <= cursor
Before(r) == created[r] < cursor
Listed == {r \in Rows : registered /\ r \in mine \cap signed}

(* order by created_at desc limit n: rows of one time come in any order. *)
Page(rows) ==
    {p \in kSubset(IF Cardinality(rows) < Limit THEN Cardinality(rows) ELSE Limit, rows) :
       \A r \in p, s \in rows \ p : created[r] >= created[s]}

(* The createdAt of the last row.  The variant has lost its lowest digit.  *)
Oldest(p) == CHOOSE t \in {created[r] : r \in p} : \A r \in p : t <= created[r]
Coarse(p) == (Oldest(p) \div 2) * 2
NextCursor(p) == Oldest(p)

(* The app asks for a page; a short one is the last. *)
FetchPage ==
    /\ walk \in {"before", "within"}
    /\ due' = IF walk = "before" THEN Listed ELSE due
    /\ \E p \in Page({r \in Listed : cursor = None \/ Before(r)}) :
         /\ seen' = seen \cup p
         /\ again' = again \cup (seen \cap p)
         /\ cursor' = IF p = {} THEN cursor ELSE NextCursor(p)
         /\ walk' = IF Cardinality(p) < Limit THEN "after" ELSE "within"
    /\ UNCHANGED ledger

HistoryNext ==
    \/ RegisterPayer \/ NextTick \/ FetchPage
    \/ \E r \in Rows : ClaimRow(r) \/ MarkRow(r)

HistorySpec == HistoryInit /\ [][HistoryNext]_historyVars

-------------------------------------------------------------------------------
(* No row is given twice, whatever is claimed and marked between two pages.*)
NoRowTwice == again = {}

(* "page through older records" (xend_wallet.dart 350-352): a walk misses  *)
(* no row that was there when it began, except one of the very time of a   *)
(* row it did give: the cursor is strict.                                  *)
OnlyTiesAreSkipped ==
    walk = "after" =>
      \A r \in due \ seen : \E s \in seen : created[s] = created[r]
===============================================================================
