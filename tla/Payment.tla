------------------------------- MODULE Payment -------------------------------
(***************************************************************************)
(* XendWallet.send (packages/xend/lib/src/xend_wallet.dart) calling the    *)
(* endpoint of Submit.  A payment is one thing the user wants done; the    *)
(* app gives it an idempotency key and calls send again with that key when *)
(* a call fails in a way it considers worth retrying (RetryOn).  Each call *)
(* builds a transaction anew, has the user approve it on the device and    *)
(* posts it; the call is tied to the handler that serves it by a           *)
(* connection that either side may lose.                                   *)
(*                                                                         *)
(* A key and the payment it stands for are identified.  The transactions   *)
(* that can be built for different payments are different; two calls for   *)
(* one payment build the same one while the blockhash they get is the same.*)
(***************************************************************************)
EXTENDS Submit, Naturals

CONSTANTS
    Pays,         \* the payment each transaction is built for
    IntentOf,     \* the recipient, amount and mint of each payment
    Sender,       \* the wallet's address
    RetryOn,      \* the errors after which the app calls send again
    MaxAttempts   \* bound: calls of send per payment

(* Variant of _mapError: every other failure is taken for a refusal at the *)
(* gateway.                                                                *)
TransientForAll(kind) == IF kind \in Refusals THEN kind ELSE "rate_limited"

(* XendError as send throws it.  _mapError knows the codes of the backend  *)
(* that concern the chain and turns every other one into a NetworkError.   *)
Thrown == Refusals \cup {"network", "rate_limited", "user_cancelled"}
MapError(kind) == IF kind \in Refusals THEN kind ELSE "network"

(* What submitTransaction posts for transaction t of payment k. *)
Body(k, t) == [key |-> k, tx |-> t, pubkey |-> Sender, intent |-> IntentOf[k]]

ASSUME PaysAssumption == Pays \in [Txs -> Keys] /\ IntentOf \in [Keys -> Intents]
ASSUME PolicyAssumption == RetryOn \subseteq Thrown /\ MaxAttempts \in Nat \ {0}
ASSUME SenderAssumption == Sender \in Wallets
ASSUME BodiesAssumption == \A t \in Txs : Body(Pays[t], t) \in Requests

VARIABLES
    stage,     \* where send is for each payment
    built,     \* the transaction the current call has built
    line,      \* the handler serving the current call, while connected
    outcome,   \* what the last call returned or threw
    attempts,  \* calls of send so far
    made,      \* transactions that have been built
    approved   \* transactions the user has signed

client == <<stage, built, line, outcome, attempts, made, approved>>
payVars == <<vars, client>>

Stages == {"new", "build", "sign", "post", "wait", "returned", "threw"}

-------------------------------------------------------------------------------
PayInit ==
    /\ Init
    /\ stage = [k \in Keys |-> "new"]
    /\ built = [k \in Keys |-> None]
    /\ line = [k \in Keys |-> None]
    /\ outcome = [k \in Keys |-> NoResponse]
    /\ attempts = [k \in Keys |-> 0]
    /\ made = {}
    /\ approved = {}

(* The app calls send, for the first time or because the last call threw   *)
(* an error it retries.                                                    *)
Send(k) ==
    /\ \/ stage[k] = "new"
       \/ stage[k] = "threw" /\ outcome[k].kind \in RetryOn
    /\ attempts[k] < MaxAttempts
    /\ attempts' = [attempts EXCEPT ![k] = @ + 1]
    /\ stage' = [stage EXCEPT ![k] = "build"]
    /\ outcome' = [outcome EXCEPT ![k] = NoResponse]
    /\ UNCHANGED <<vars, built, line, made, approved>>

Throw(k, kind) ==
    /\ stage' = [stage EXCEPT ![k] = "threw"]
    /\ outcome' = [outcome EXCEPT ![k] = [kind |-> kind, signature |-> None]]
    /\ built' = [built EXCEPT ![k] = None]
    /\ line' = [line EXCEPT ![k] = None]

(* resolveName and buildTransfer: a new message, or the one of an earlier  *)
(* call when the latest blockhash has not changed since.                   *)
Build(k) ==
    /\ stage[k] = "build"
    /\ \E t \in Txs \ expired :
         /\ Pays[t] = k
         /\ built' = [built EXCEPT ![k] = t]
         /\ made' = made \cup {t}
    /\ stage' = [stage EXCEPT ![k] = "sign"]
    /\ UNCHANGED <<vars, line, outcome, attempts, approved>>

(* A variant that posts without asking the user. *)
ApproveSilently(k) ==
    /\ stage[k] = "sign"
    /\ stage' = [stage EXCEPT ![k] = "post"]
    /\ UNCHANGED <<vars, built, line, outcome, attempts, made, approved>>

(* signMessage after the biometric prompt *)
Approve(k) ==
    /\ stage[k] = "sign"
    /\ approved' = approved \cup {built[k]}
    /\ stage' = [stage EXCEPT ![k] = "post"]
    /\ UNCHANGED <<vars, built, line, outcome, attempts, made>>

(* A variant that can still be cancelled once the transaction is posted. *)
CancelLate(k) ==
    /\ stage[k] \in {"sign", "post", "wait"}
    /\ Throw(k, "user_cancelled")
    /\ UNCHANGED <<vars, attempts, made, approved>>

Cancel(k) ==
    /\ stage[k] = "sign"
    /\ Throw(k, "user_cancelled")
    /\ UNCHANGED <<vars, attempts, made, approved>>

(* The request reaches the server, which starts a handler for it. *)
Arrive(k) ==
    /\ stage[k] = "post"
    /\ \E h \in Handlers :
         /\ \A j \in Keys : line[j] # h
         /\ Receive(h, Body(k, built[k]))
         /\ line' = [line EXCEPT ![k] = h]
    /\ stage' = [stage EXCEPT ![k] = "wait"]
    /\ UNCHANGED <<built, outcome, attempts, made, approved>>

(* The rate limiter turns the request away, before any handler. *)
TurnedAway(k) ==
    /\ stage[k] \in {"build", "post"}
    /\ Throw(k, "rate_limited")
    /\ UNCHANGED <<vars, attempts, made, approved>>

(* A request breaks off, the device cannot sign (mapNativeError), or the   *)
(* process of the app dies; the server may notice (Drop) or finish.        *)
LoseConnection(k) ==
    /\ stage[k] \in {"build", "sign", "post", "wait"}
    /\ Throw(k, "network")
    /\ UNCHANGED <<vars, attempts, made, approved>>

(* A variant that takes a rejection as processed already for success. *)
TrustBuilt(k) ==
    /\ stage[k] = "wait"
    /\ pc[line[k]] = "done"
    /\ LET answer == resp[line[k]] IN
         IF answer.kind \in {"ok", "chain_rejected"}
           THEN /\ stage' = [stage EXCEPT ![k] = "returned"]
                /\ outcome' = [outcome EXCEPT ![k] = [kind |-> "ok", signature |-> built[k]]]
                /\ built' = [built EXCEPT ![k] = None]
                /\ line' = [line EXCEPT ![k] = None]
           ELSE Throw(k, MapError(answer.kind))
    /\ Close(line[k])
    /\ UNCHANGED <<attempts, made, approved>>

(* The answer arrives: a TxHandle, or the error it is mapped to. *)
Answered(k) ==
    /\ stage[k] = "wait"
    /\ pc[line[k]] = "done"
    /\ LET answer == resp[line[k]] IN
         IF answer.kind = "ok"
           THEN /\ stage' = [stage EXCEPT ![k] = "returned"]
                /\ outcome' = [outcome EXCEPT ![k] = answer]
                /\ built' = [built EXCEPT ![k] = None]
                /\ line' = [line EXCEPT ![k] = None]
           ELSE Throw(k, MapError(answer.kind))
    /\ Close(line[k])
    /\ UNCHANGED <<attempts, made, approved>>

-------------------------------------------------------------------------------
(* A handler whose client is gone finishes for nobody. *)
CloseUnheard(h) ==
    /\ \A k \in Keys : line[k] # h
    /\ Close(h)
    /\ UNCHANGED client

ServerStep(h) ==
    /\ HandlerStep(h) \/ NodeReplies(h) \/ Fault(h)
    /\ UNCHANGED client

(* Only what has been built has a blockhash that can expire. *)
NetworkStep(t) ==
    /\ t \in made
    /\ Network(t)
    /\ UNCHANGED client

ClientStep(k) ==
    \/ Send(k) \/ Build(k) \/ Approve(k) \/ Cancel(k) \/ Arrive(k)
    \/ TurnedAway(k) \/ LoseConnection(k) \/ Answered(k)

(* The wallet's address is registered when the wallet is created. *)
RegisterSender == Register(Sender) /\ UNCHANGED client

PayNext ==
    \/ \E k \in Keys : ClientStep(k)
    \/ \E h \in Handlers : ServerStep(h) \/ CloseUnheard(h)
    \/ \E t \in Txs : NetworkStep(t)
    \/ RegisterSender

PaySpec == PayInit /\ [][PayNext]_payVars

(* The app goes on when an await ends; the user answers the prompt; the    *)
(* request to build is answered or breaks off, the other one is delivered. *)
(* A client that waits for its answer has no timeout (backend_client.dart  *)
(* 147): only the server ends that, by an answer or, when the handler is   *)
(* gone, by closing the connection.  The runtime polls a ready handler,    *)
(* the database answers, and the node answers or the connection to it      *)
(* breaks: solana.rs has no timeout either, so that this last assumption   *)
(* is about the network.                                                   *)
Proceeds(k) ==
    \/ Build(k) \/ Approve(k) \/ Cancel(k) \/ Arrive(k) \/ Answered(k)
    \/ stage[k] = "build" /\ LoseConnection(k)
    \/ stage[k] = "wait" /\ pc[line[k]] = "idle" /\ LoseConnection(k)

Quietly(A) == A /\ UNCHANGED client

FairPaySpec ==
    /\ PaySpec
    /\ \A k \in Keys : WF_payVars(Proceeds(k))
    /\ \A h \in Handlers :
         /\ WF_payVars(Quietly(HandlerStep(h)))
         /\ WF_payVars(Quietly(NodeReplies(h) \/ RpcFails(h)))
         /\ WF_payVars(CloseUnheard(h))

-------------------------------------------------------------------------------
Executed(t) == chain[t] = "landed"

(* "exactly one on-chain tx, or none. Never two" (docs/00-PRD.md 32): of   *)
(* the transactions built for one payment at most one is executed, over    *)
(* all its retries and whatever fails.                                     *)
AtMostOneExecuted ==
    \A t1, t2 \in Txs :
      Executed(t1) /\ Executed(t2) /\ Pays[t1] = Pays[t2] => t1 = t2

(* Nothing reaches the network that the user has not approved on the       *)
(* device, on any call and over any handler left behind.                   *)
RelayedWasApproved ==
    \A t \in Txs : Seen(t) \/ t \in orphans => t \in approved

(* A TxHandle names a transaction of this payment that a node has taken    *)
(* and that the ledger holds under the payment's key.                      *)
HandleIsRecorded ==
    \A k \in Keys :
      stage[k] = "returned" =>
        LET sig == outcome[k].signature IN
        Pays[sig] = k /\ Seen(sig) /\ rows[k].signature = sig

(* "Nothing was signed or submitted and no funds moved" (errors.dart       *)
(* 42-45): when send ends with UserCancelledAuth, no transaction of the    *)
(* payment is with the network, from this call or an earlier one.          *)
CancelledMovedNothing ==
    \A k \in Keys :
      outcome[k].kind = "user_cancelled" =>
        \A t \in Txs : Pays[t] = k => ~Seen(t) /\ t \notin orphans

(* Every call of send ends, with a handle or an error, also when it finds  *)
(* the row that an earlier call of its key has claimed and left pending:   *)
(* no request waits for the one that claimed it.                           *)
SendEnds ==
    \A k \in Keys :
      stage[k] \in {"build", "sign", "post", "wait"} ~> stage[k] \in {"returned", "threw"}
===============================================================================
