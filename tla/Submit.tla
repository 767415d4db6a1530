-------------------------------- MODULE Submit --------------------------------
(***************************************************************************)
(* POST /v1/tx/submit (handlers/tx.rs) run by several requests at a time   *)
(* over one ledger and one Solana RPC node.                                *)
(*                                                                         *)
(* A handler is an async function; it is interrupted at every await: the   *)
(* lookup of the key, the lookup of the wallet, the insert, the RPC round  *)
(* trip and the update.  Each action below is the code from one await to   *)
(* the next.  Axum drops the future of a handler whose client disconnects, *)
(* so a handler may vanish at any await; the death of the process is that  *)
(* happening to all of them.  The ledger survives, and a sendTransaction   *)
(* request that has left for the node may still arrive.                    *)
(***************************************************************************)
EXTENDS TransactionStore

CONSTANTS
    Handlers,  \* requests the server can be running at a time
    Requests,  \* request bodies the clients send
    Garbled,   \* payloads that are not base64
    Forged     \* payloads that do not parse or whose signatures do not verify

(* `signed`, `idempotency_key`, `pubkey` and the recorded to/amount/mint. *)
SubmitRequest == [key : Keys, tx : Txs, pubkey : Wallets \cup {None}, intent : Intents]

ASSUME RequestsAssumption == Requests \subseteq SubmitRequest
ASSUME PayloadsAssumption == Garbled \subseteq Txs /\ Forged \subseteq Txs

VARIABLES
    rows,        \* the transactions table
    registered,  \* the wallets table: the public keys it holds
    pc,          \* where each handler is suspended
    req,         \* the request each handler serves
    walletId,    \* the wallet_id a handler has looked up
    reply,       \* what the node answered to a handler's sendTransaction
    resp,        \* the answer a handler gives its client
    chain,       \* what the network knows of each transaction
    expired,     \* transactions whose blockhash has left the validity window
    orphans,     \* sendTransaction requests on the wire that no handler awaits
    late         \* history: handlers whose key was recorded when they began

db == <<rows, registered>>
local == <<req, walletId, reply>>
network == <<chain, expired, orphans>>
vars == <<rows, registered, pc, req, walletId, reply, resp, chain, expired, orphans, late>>

AwaitingDb == {"find", "wallet", "claim", "mark"}
Working == AwaitingDb \cup {"relay", "sent", "replied"}
Locations == {"idle", "done"} \cup Working

(* AppError as seen by the client, and the refusals of map_send_error. *)
Refusals == {"blockhash_expired", "insufficient_funds", "chain_rejected"}
Errors == Refusals \cup {"bad_request", "internal", "network"}

NoRequest == [key |-> None, tx |-> None, pubkey |-> None, intent |-> None]
NoResponse == [kind |-> "none", signature |-> None]
Responses == {NoResponse} \cup [kind : {"ok"}, signature : Txs]
                          \cup [kind : Errors, signature : {None}]

Seen(t) == chain[t] # "unseen"

-------------------------------------------------------------------------------
Init ==
    /\ rows = EmptyTable
    /\ registered = {}
    /\ pc = [h \in Handlers |-> "idle"]
    /\ req = [h \in Handlers |-> NoRequest]
    /\ walletId = [h \in Handlers |-> None]
    /\ reply = [h \in Handlers |-> "none"]
    /\ resp = [h \in Handlers |-> NoResponse]
    /\ chain = [t \in Txs |-> "unseen"]
    /\ expired = {}
    /\ orphans = {}
    /\ late = {}

Goto(h, l) == pc' = [pc EXCEPT ![h] = l] /\ UNCHANGED resp

Ok(h, sig) ==
    /\ pc' = [pc EXCEPT ![h] = "done"]
    /\ resp' = [resp EXCEPT ![h] = [kind |-> "ok", signature |-> sig]]

Err(h, kind) ==
    /\ pc' = [pc EXCEPT ![h] = "done"]
    /\ resp' = [resp EXCEPT ![h] = [kind |-> kind, signature |-> None]]

(* POST /v1/wallets: upsert, so registering twice changes nothing. *)
Register(p) ==
    /\ p \notin registered
    /\ registered' = registered \cup {p}
    /\ UNCHANGED <<rows, pc, local, resp, network, late>>

(* A request comes in and its payload is decoded; no await before this. *)
Receive(h, r) ==
    /\ pc[h] = "idle"
    /\ req' = [req EXCEPT ![h] = r]
    /\ late' = IF Recorded(rows, r.key) THEN late \cup {h} ELSE late
    /\ IF r.tx \in Garbled THEN Err(h, "bad_request") ELSE Goto(h, "find")
    /\ UNCHANGED <<db, walletId, reply, network>>

(* Variants of the lookup: without the fast path, without the claim, and   *)
(* one that waits for whoever claimed the key first.                       *)
AlwaysBroadcast(h) ==
    /\ pc[h] = "find"
    /\ Goto(h, IF Exists(rows, req[h].key) THEN "relay" ELSE "wallet")
    /\ UNCHANGED <<db, local, network, late>>
SkipClaim(h) ==
    /\ pc[h] = "find"
    /\ IF Recorded(rows, req[h].key)
         THEN Ok(h, rows[req[h].key].signature)
         ELSE Goto(h, "relay")
    /\ UNCHANGED <<db, local, network, late>>

WaitForClaimer(h) ==
    /\ pc[h] = "find"
    /\ \/ Recorded(rows, req[h].key) /\ Ok(h, rows[req[h].key].signature)
       \/ ~Exists(rows, req[h].key) /\ Goto(h, "wallet")
    /\ UNCHANGED <<db, local, network, late>>

(* find_by_idempotency and the branch on its result *)
Find(h) ==
    LET k == req[h].key IN
    /\ pc[h] = "find"
    /\ \/ Recorded(rows, k) /\ Ok(h, rows[k].signature)
       \/ Exists(rows, k) /\ ~Recorded(rows, k) /\ Goto(h, "relay")
       \/ ~Exists(rows, k) /\ Goto(h, "wallet")
    /\ UNCHANGED <<db, local, network, late>>

(* A variant of the wallet lookup that trusts the request. *)
TrustPubkey(h) ==
    /\ pc[h] = "wallet"
    /\ walletId' = [walletId EXCEPT ![h] = req[h].pubkey]
    /\ Goto(h, "claim")
    /\ UNCHANGED <<db, req, reply, network, late>>

(* find_id_by_pubkey; a request without a pubkey has no wallet either *)
FindWallet(h) ==
    /\ pc[h] = "wallet"
    /\ walletId' = [walletId EXCEPT
                      ![h] = IF req[h].pubkey \in registered THEN req[h].pubkey ELSE None]
    /\ Goto(h, "claim")
    /\ UNCHANGED <<db, req, reply, network, late>>

(* insert_pending; the connection may break after the insert took effect *)
Claim(h) ==
    /\ pc[h] = "claim"
    /\ rows' = InsertPending(rows, req[h].key, walletId[h], req[h].intent)
    /\ Goto(h, "relay") \/ Err(h, "internal")
    /\ UNCHANGED <<registered, local, network, late>>

(* A variant that relays without looking at the signatures. *)
RelayUnchecked(h) ==
    /\ pc[h] = "relay"
    /\ Goto(h, "sent")
    /\ UNCHANGED <<db, local, network, late>>

(* validate_signed, then broadcast posts sendTransaction to the node *)
Relay(h) ==
    /\ pc[h] = "relay"
    /\ IF req[h].tx \in Forged THEN Err(h, "bad_request") ELSE Goto(h, "sent")
    /\ UNCHANGED <<db, local, network, late>>

-------------------------------------------------------------------------------
(* The node and the network: external. *)

(* What the network holds of a transaction once a node has taken it. *)
Admit(t) == IF Seen(t) THEN chain ELSE [chain EXCEPT ![t] = "relayed"]

(* The node simulates the transaction, takes it and returns its signature. *)
NodeAccepts(h) ==
    /\ pc[h] = "sent"
    /\ req[h].tx \notin expired
    /\ chain' = Admit(req[h].tx)
    /\ reply' = [reply EXCEPT ![h] = "ok"]
    /\ Goto(h, "replied")
    /\ UNCHANGED <<db, req, walletId, expired, orphans, late>>

(* The node refuses: an old blockhash is reported as not found whatever    *)
(* became of the transaction; within the window it may be short of funds,  *)
(* fail its simulation, or have been processed already.                    *)
NodeRefuses(h) ==
    /\ pc[h] = "sent"
    /\ \E why \in Refusals :
         /\ why = "blockhash_expired" <=> req[h].tx \in expired
         /\ reply' = [reply EXCEPT ![h] = why]
    /\ Goto(h, "replied")
    /\ UNCHANGED <<db, req, walletId, network, late>>

(* The request a handler leaves on the wire when it stops waiting for it. *)
LeftOnWire(h) == IF pc[h] = "sent" THEN orphans \cup {req[h].tx} ELSE orphans

(* A request nobody waits for reaches the node, which takes it, or is lost *)
OrphanArrives(t) ==
    /\ t \in orphans
    /\ orphans' = orphans \ {t}
    /\ \/ t \notin expired /\ chain' = Admit(t)
       \/ UNCHANGED chain
    /\ UNCHANGED <<db, pc, local, resp, expired, late>>

(* A relayed transaction is executed, with success or with an error, while *)
(* its blockhash is valid.                                                 *)
Execute(t) ==
    /\ chain[t] = "relayed"
    /\ t \notin expired
    /\ \E outcome \in {"landed", "failed"} : chain' = [chain EXCEPT ![t] = outcome]
    /\ UNCHANGED <<db, pc, local, resp, expired, orphans, late>>

(* Only a payload that parses and verifies has a blockhash that matters. *)
Expire(t) ==
    /\ t \notin expired \cup Garbled \cup Forged
    /\ expired' = expired \cup {t}
    /\ UNCHANGED <<db, pc, local, resp, chain, orphans, late>>

-------------------------------------------------------------------------------
(* broadcast reads the node's answer and map_send_error classifies it *)
ReadReply(h) ==
    /\ pc[h] = "replied"
    /\ IF reply[h] = "ok" THEN Goto(h, "mark") ELSE Err(h, reply[h])
    /\ UNCHANGED <<db, local, network, late>>

(* The RPC round trip breaks, before or after the node saw the request *)
RpcFails(h) ==
    /\ pc[h] \in {"sent", "replied"}
    /\ Err(h, "network")
    /\ orphans' = LeftOnWire(h)
    /\ UNCHANGED <<db, local, chain, expired, late>>

(* A variant that answers without the update. *)
AnswerUnmarked(h) ==
    /\ pc[h] = "mark"
    /\ Ok(h, req[h].tx)
    /\ UNCHANGED <<db, local, network, late>>

(* mark_submitted and the answer.  The unique index may refuse the update, *)
(* and the connection may break after the update took effect.              *)
Mark(h) ==
    LET k == req[h].key
        t == req[h].tx
    IN  /\ pc[h] = "mark"
        /\ \/ /\ SignatureTaken(rows, k, t)
              /\ Err(h, "internal")
              /\ UNCHANGED rows
           \/ /\ ~SignatureTaken(rows, k, t)
              /\ rows' = MarkSubmitted(rows, k, t)
              /\ Ok(h, t) \/ Err(h, "internal")
        /\ UNCHANGED <<registered, local, network, late>>

(* A statement fails before it took effect. *)
DbFails(h) ==
    /\ pc[h] \in AwaitingDb
    /\ Err(h, "internal")
    /\ UNCHANGED <<db, local, network, late>>

Forget(h) ==
    /\ pc' = [pc EXCEPT ![h] = "idle"]
    /\ req' = [req EXCEPT ![h] = NoRequest]
    /\ walletId' = [walletId EXCEPT ![h] = None]
    /\ reply' = [reply EXCEPT ![h] = "none"]
    /\ resp' = [resp EXCEPT ![h] = NoResponse]
    /\ late' = late \ {h}

(* The future of a running handler is dropped. *)
Drop(h) ==
    /\ pc[h] \in Working
    /\ Forget(h)
    /\ orphans' = LeftOnWire(h)
    /\ UNCHANGED <<db, chain, expired>>

(* The answer has left, whether or not the client still listens. *)
Close(h) ==
    /\ pc[h] = "done"
    /\ Forget(h)
    /\ UNCHANGED <<db, network>>

-------------------------------------------------------------------------------
HandlerStep(h) ==
    \/ Find(h) \/ FindWallet(h) \/ Claim(h) \/ Relay(h) \/ ReadReply(h) \/ Mark(h)

NodeReplies(h) == NodeAccepts(h) \/ NodeRefuses(h)

Fault(h) == DbFails(h) \/ RpcFails(h) \/ Drop(h)

Network(t) == OrphanArrives(t) \/ Execute(t) \/ Expire(t)

(* Everything the server and the node do once the requests are in. *)
Serve ==
    \/ \E h \in Handlers : HandlerStep(h) \/ NodeReplies(h) \/ Fault(h)
    \/ \E t \in Txs : Network(t)

Next ==
    \/ \E p \in Wallets : Register(p)
    \/ \E h \in Handlers, r \in Requests : Receive(h, r)
    \/ \E h \in Handlers : Close(h)
    \/ Serve

Spec == Init /\ [][Next]_vars

-------------------------------------------------------------------------------
(* A blind retry repeats the request: one key, one body. *)
BlindRetry == \A r1, r2 \in Requests : r1.key = r2.key => r1 = r2

(* The state of every variable: the ledger holds rows of the schema, a     *)
(* handler is at a place where the code suspends.                          *)
TypeOK ==
    /\ rows \in [Keys -> Row]
    /\ registered \subseteq Wallets
    /\ pc \in [Handlers -> Locations]
    /\ req \in [Handlers -> Requests \cup {NoRequest}]
    /\ walletId \in [Handlers -> Wallets \cup {None}]
    /\ reply \in [Handlers -> {"none", "ok"} \cup Refusals]
    /\ resp \in [Handlers -> Responses]
    /\ chain \in [Txs -> {"unseen", "relayed", "landed", "failed"}]
    /\ expired \subseteq Txs
    /\ orphans \subseteq Txs
    /\ late \subseteq Handlers

(* A signature in the ledger is that of a transaction a node has taken:    *)
(* mark_submitted runs only after broadcast returned it (tx.rs 147-148),   *)
(* whatever requests, faults and other handlers came in between.           *)
RecordedWasRelayed ==
    \A k \in Keys : Recorded(rows, k) => Seen(rows[k].signature)

(* The key is claimed before the network hears of the transaction (tx.rs   *)
(* 119-142): whatever a node has seen or may still receive is the payload  *)
(* of a request whose key has a row, also when the handler is gone.        *)
ClaimPrecedesBroadcast ==
    \A t \in Txs :
      (Seen(t) \/ t \in orphans) =>
        \E r \in Requests : r.tx = t /\ Exists(rows, r.key)

(* Nothing malformed or unsigned reaches the network (tx.rs 144), on the   *)
(* first attempt, on a retry that finds its row, or after a drop.          *)
OnlyVerifiedRelayed ==
    \A t \in Txs : (Seen(t) \/ t \in orphans) => t \notin Garbled \cup Forged

(* A row belongs to a wallet that is registered and that a request with    *)
(* its key named: history shows nobody else's transfers.                   *)
AttributionSound ==
    \A k \in Keys :
      rows[k].wallet # None =>
        /\ rows[k].wallet \in registered
        /\ \E r \in Requests : r.key = k /\ r.pubkey = rows[k].wallet

(* "If the same key already produced a signature ... nothing is broadcast" *)
(* (tx.rs 109-110): a request that begins when its key is recorded never   *)
(* gets past the lookup.                                                   *)
LateRetryNeverBroadcasts ==
    \A h \in late : pc[h] \in {"find", "done"}

(* A client that is told a signature finds it in the ledger: what the      *)
(* answer says survives a crash of the server right after it.  Holds when  *)
(* a key always comes with the same body.                                  *)
OkMeansRecorded ==
    \A h \in Handlers :
      resp[h].kind = "ok" => rows[req[h].key].signature = resp[h].signature

(* A recorded signature never changes, although mark_submitted does not    *)
(* look at the one it overwrites.  Holds when a key always comes with the  *)
(* same body.                                                              *)
SignatureStable ==
    [][\A k \in Keys : Recorded(rows, k) => rows'[k] = rows[k]]_vars

(* The metadata of a row is claimed by one request and its signature       *)
(* recorded by another; when a key always comes with the same body the two *)
(* describe the same transfer.                                             *)
RowDescribesItsTransaction ==
    \A k \in Keys :
      Exists(rows, k) =>
        \E r \in Requests :
          /\ r.key = k
          /\ rows[k].intent = r.intent
          /\ rows[k].signature \in {None, r.tx}
          /\ rows[k].wallet \in {None, r.pubkey}

(* What the endpoint promises, see IdempotentSubmit. *)
Promise == INSTANCE IdempotentSubmit WITH
    Callers  <- Handlers,
    claimed  <- {k \in Keys : Exists(rows, k)},
    recorded <- [k \in Keys |-> rows[k].signature],
    relayed  <- {t \in Txs : Seen(t)},
    answer   <- [h \in Handlers |-> resp[h].signature]

KeepsPromise == Promise!Spec
===============================================================================
