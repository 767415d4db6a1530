------------------------------- MODULE Transfer -------------------------------
(***************************************************************************)
(* A transfer from the intent to the accounts: XendWallet.send and the     *)
(* command-line client bin/gasless_client.rs resolve a .sol name           *)
(* (handlers/resolve.rs), have the backend build a message (handlers/tx.rs,*)
(* build; chain/solana.rs, build_transfer), sign it on the device, put the *)
(* signatures together and submit.  The cluster executes what a node has   *)
(* taken, in any order, while names change hands and blockhashes age.      *)
(*                                                                         *)
(* Submit has the awaits of the endpoint that submits, Payment the retries *)
(* under one key; here every call is answered at most once.                *)
(***************************************************************************)
EXTENDS Accounts, FiniteSets

CONSTANTS
    Calls,      \* calls of send, and runs of the command-line client
    Scripts,    \* the latter
    Labels,     \* the labels of .sol names, upper and lower case apart
    Intents,    \* what is asked for
    FeePayer,   \* XEND_PAYMASTER_SECRET's address, where there is one
    Opening,    \* the ledger at the start
    Lifetime,   \* blocks for which a blockhash is accepted
    MaxHeight,  \* bound: blocks
    MaxSales,   \* bound: how often a name changes hands
    Garbage     \* text that is no public key

(* A name is what ends in .sol in either case (isSolName); a label is      *)
(* empty, dotted or one of Labels.                                         *)
Names == [label : Labels \cup {"", "dotted"}, suffix : {".sol", ".SOL"}]

DomainKey(label) == <<label, "sol">>
Domains == {DomainKey(label) : label \in Labels}

(* A mint is None for SOL; Wallets are public keys that are no mint.       *)
TransferIntent ==
    [from : Wallets, to : Wallets \cup Names \cup {Garbage}, amount : Nat,
     mint : Mints \cup Wallets \cup {None, Garbage}]

(* A signature is over the very message; a transaction has both. *)
Signatures == [by : Wallets, over : Message]
SignedTx == [signatures : Seq(Signatures), message : Message]

ASSUME IntentAssumption == Intents \subseteq TransferIntent
ASSUME ScriptAssumption == Scripts \subseteq Calls
ASSUME AddressAssumption ==
    /\ FeePayer \in Wallets /\ Wallets \cap Mints = {}
    /\ Garbage \notin Wallets \cup Mints \cup {None}
    /\ "" \notin Labels /\ "dotted" \notin Labels
ASSUME OpeningAssumption ==
    /\ Opening \in Ledgers /\ Opening.ok
    /\ \A w \in Wallets : Exempt(Opening.sol[w])
ASSUME WireAssumption == None \notin Signatures \cup SignedTx
ASSUME BlockAssumption == {Lifetime, MaxHeight, MaxSales} \subseteq Nat

(* A paymaster that sends is a sender that pays its own fees; it co-signs  *)
(* what it is asked to send.  The properties are about other senders.      *)
ASSUME PaymasterAssumption == \A i \in Intents : i.from # FeePayer

VARIABLES
    ledger,     \* the accounts
    sponsor,    \* the configured fee payer, or None
    owner,      \* whose each name is, or None
    sales,      \* how often a name has changed hands
    height,     \* blocks so far
    pool,       \* messages a node has taken and no block has
    executed,   \* messages in a block
    failed,     \* those of them whose instructions failed
    stage,      \* where each call is
    intent,     \* what it was asked
    recipient,  \* the address it resolved
    scale,      \* the decimals the backend has read
    unsigned,   \* what build returned
    wire,       \* the signed transaction
    row,        \* what it gave the backend to record
    answer,     \* how it ended
    held        \* history: who held the name since the call began

chain == <<ledger, height, pool, executed, failed>>
names == <<owner, sales, held>>
calls == <<stage, intent, recipient, scale, unsigned, wire, row, answer>>
transferVars == <<chain, sponsor, names, calls>>

Stages == {"new", "resolve", "build", "decimals", "anchor", "sign", "relay", "sent", "ended"}
Answers == {"none", "ok", "network", "bad_request", "invalid_recipient", "user_cancelled",
            "blockhash_expired", "insufficient_funds", "chain_rejected"}

(* XEND_PAYMASTER_SECRET is set or not when the backend starts. *)
FeePayers == {FeePayer, None}

TransferInit ==
    /\ ledger = Opening /\ height = 0
    /\ pool = {} /\ executed = {} /\ failed = {}
    /\ sponsor \in FeePayers
    /\ owner \in [Domains -> Wallets \cup {None}]
    /\ sales = 0
    /\ stage = [c \in Calls |-> "new"]
    /\ intent = [c \in Calls |-> None]
    /\ recipient = [c \in Calls |-> None]
    /\ scale = [c \in Calls |-> None]
    /\ unsigned = [c \in Calls |-> None]
    /\ wire = [c \in Calls |-> None]
    /\ row = [c \in Calls |-> None]
    /\ answer = [c \in Calls |-> "none"]
    /\ held = [c \in Calls |-> {}]

Goto(c, s) == stage' = [stage EXCEPT ![c] = s] /\ UNCHANGED answer
End(c, kind) ==
    /\ stage' = [stage EXCEPT ![c] = "ended"]
    /\ answer' = [answer EXCEPT ![c] = kind]

-------------------------------------------------------------------------------
(* resolve_name strips the suffix as it is spelled and takes single labels *)
(* only; sns_domain_owner wants the name's account to be there.  The       *)
(* variant takes the account for granted.                                  *)
SnsDomainOwner(name) == owner[DomainKey(name.label)]
WellFormed(name) == name.suffix = ".sol" /\ name.label \in Labels
Registered(name) ==
    /\ name.suffix = ".sol" /\ name.label \in Labels
    /\ SnsDomainOwner(name) # None

OwnerNow(name) ==
    IF name.label \in Labels THEN {SnsDomainOwner(name)} ELSE {}

(* send, up to its first await: an address passes through.  The client     *)
(* sends SOL only, and parses the lamports into 64 bits.                   *)
Start(c, i) ==
    /\ stage[c] = "new"
    /\ intent' = [intent EXCEPT ![c] = i]
    /\ IF i.to \in Names
         THEN /\ Goto(c, "resolve")
              /\ held' = [held EXCEPT ![c] = OwnerNow(i.to)]
              /\ UNCHANGED recipient
         ELSE /\ Goto(c, "build")
              /\ recipient' = [recipient EXCEPT ![c] = i.to]
              /\ held' = [held EXCEPT ![c] = {i.to}]
    /\ UNCHANGED <<chain, sponsor, owner, sales, scale, unsigned, wire, row>>
Begin(c, i) == c \notin Scripts /\ i.amount > 0 /\ Start(c, i)
RunScript(c, i) ==
    /\ c \in Scripts /\ i.mint = None /\ i.amount <= MaxAmount
    /\ Start(c, i)

(* A variant that remembers what another call has found for the name. *)
ResolveOnce(c) ==
    /\ stage[c] = "resolve"
    /\ LET name == intent[c].to
           known == {recipient[d] : d \in {d \in Calls :
                       intent[d] # None /\ intent[d].to = name /\ recipient[d] # None}}
       IN  IF Registered(name)
             THEN /\ recipient' \in {[recipient EXCEPT ![c] = w] :
                       w \in IF known = {} THEN OwnerNow(name) ELSE known}
                  /\ Goto(c, "build")
             ELSE End(c, "invalid_recipient") /\ UNCHANGED recipient
    /\ UNCHANGED <<chain, sponsor, names, intent, scale, unsigned, wire, row>>

(* GET /v1/resolve: the owner field of the account of the name. *)
Resolve(c) ==
    /\ stage[c] = "resolve"
    /\ LET name == intent[c].to IN
         IF Registered(name)
           THEN /\ recipient' = [recipient EXCEPT ![c] = SnsDomainOwner(name)]
                /\ Goto(c, "build")
           ELSE End(c, "invalid_recipient") /\ UNCHANGED recipient
    /\ UNCHANGED <<chain, sponsor, names, intent, scale, unsigned, wire, row>>

(* build_transfer before it awaits: each argument in turn. *)
Rejection(i, to) ==
    CASE to = Garbage -> "invalid_recipient"
      [] to # Garbage /\ (i.mint = Garbage \/ ~ ToU64(i.amount).fits) -> "bad_request"
      [] OTHER -> "none"

(* POST /v1/tx/build; an amount beyond 128 bits is refused alike. *)
Check(c) ==
    /\ stage[c] = "build"
    /\ LET rejection == Rejection(intent[c], recipient[c]) IN
         IF rejection # "none" THEN End(c, rejection)
         ELSE Goto(c, IF intent[c].mint = None THEN "anchor" ELSE "decimals")
    /\ UNCHANGED <<chain, sponsor, names, intent, recipient, scale, unsigned, wire, row>>

(* mint_decimals: the supply of what is no mint has none. *)
ReadDecimals(c) ==
    /\ stage[c] = "decimals"
    /\ LET mint == intent[c].mint IN
         IF mint \in Mints
           THEN /\ scale' = [scale EXCEPT ![c] = Decimals[mint]]
                /\ Goto(c, "anchor")
           ELSE End(c, "bad_request") /\ UNCHANGED scale
    /\ UNCHANGED <<chain, sponsor, names, intent, recipient, unsigned, wire, row>>

Payer(c) == IF sponsor = None THEN intent[c].from ELSE sponsor

(* Who funds the recipient's token account.  The variant has the sender    *)
(* fund it, fees sponsored or not.                                         *)
FundedBySender(c) == intent[c].from
Funder(c) == Payer(c)

Instructions(c) ==
    LET i == intent[c]
        to == recipient[c]
        amount == ToU64(i.amount).lamports
        source == AssociatedTokenAddress(i.from, i.mint)
        destination == AssociatedTokenAddress(to, i.mint)
    IN  IF i.mint = None
          THEN <<SystemTransfer(i.from, to, amount)>>
          ELSE <<CreateAtaIdempotent(Funder(c), to, i.mint, destination),
                 TokenTransferChecked(source, i.mint, destination, i.from, amount, scale[c])>>

(* The finalized blockhash, counted in blocks. *)
LatestBlockhash == height

UnsignedTx(m, signature) == [message |-> m, cosignature |-> signature]
Signature(w, m) == [by |-> w, over |-> m]

(* latest_blockhash answers; the message is put together, and co-signed if *)
(* fees are sponsored.                                                     *)
Anchor(c) ==
    /\ stage[c] = "anchor"
    /\ LET m == [payer |-> Payer(c), instructions |-> Instructions(c),
                 blockhash |-> LatestBlockhash]
       IN  unsigned' = [unsigned EXCEPT ![c] =
             UnsignedTx(m, IF sponsor = None THEN None ELSE Signature(sponsor, m))]
    /\ Goto(c, "sign")
    /\ UNCHANGED <<chain, sponsor, names, intent, recipient, scale, wire, row>>

(* The signatures in signer order: the fee payer's, if there is one, then  *)
(* the sender's.  The variant puts the sender's first.                     *)
SenderFirst(built, signature) ==
    IF built.cosignature = None THEN <<signature>> ELSE <<signature, built.cosignature>>
Assembled(built, signature) ==
    IF built.cosignature = None THEN <<signature>> ELSE <<built.cosignature, signature>>

(* What submit records: the address the name was resolved to.  The variant *)
(* records what the user typed.                                            *)
RecordedAsTyped(c) ==
    [pubkey |-> intent[c].from, to |-> intent[c].to, amount |-> intent[c].amount,
     mint |-> intent[c].mint]
RecordedAs(c) ==
    [pubkey |-> intent[c].from, to |-> recipient[c], amount |-> intent[c].amount,
     mint |-> intent[c].mint]

Signed(c) ==
    /\ stage[c] = "sign"
    /\ LET built == unsigned[c] IN
         wire' = [wire EXCEPT ![c] =
           [signatures |-> Assembled(built, Signature(intent[c].from, built.message)),
            message |-> built.message]]
    /\ Goto(c, "relay")
    /\ UNCHANGED <<chain, sponsor, names, intent, recipient, scale, unsigned>>

(* The device signs what it was given, once the user approves; the client  *)
(* signs with the secret it was started with, and names no mint.           *)
Sign(c) ==
    /\ c \notin Scripts /\ Signed(c)
    /\ row' = [row EXCEPT ![c] = RecordedAs(c)]
SignInScript(c) ==
    /\ c \in Scripts /\ Signed(c)
    /\ row' = [row EXCEPT ![c] = [RecordedAs(c) EXCEPT !.mint = None]]

Dismiss(c) ==
    /\ c \notin Scripts /\ stage[c] = "sign"
    /\ End(c, "user_cancelled")
    /\ UNCHANGED <<chain, sponsor, names, intent, recipient, scale, unsigned, wire, row>>

-------------------------------------------------------------------------------
(* Transaction::verify: each signature there is belongs to the account in  *)
(* its place.  That none is missing is left to the node.                   *)
Verifies(tx) ==
    \A j \in DOMAIN tx.signatures :
      /\ j <= Len(Signers(tx.message))
      /\ tx.signatures[j] = Signature(Signers(tx.message)[j], tx.message)

Alive(m) == height - m.blockhash <= Lifetime

(* What a node finds wrong with a message when it tries it out. *)
Preflight(m) ==
    CASE ~ Alive(m) -> "blockhash"
      [] Alive(m) /\ m \in executed -> "processed"
      [] OTHER -> Outcome(ledger, m).cause

(* map_send_error over the words of the node: "Blockhash not found",       *)
(* "Insufficient funds for fee", "insufficient funds for rent"; of a payer  *)
(* that has nothing it says "no record of a prior credit", and of a        *)
(* program that fails "custom program error", also for want of funds.      *)
MapSendError(cause) ==
    CASE cause = "blockhash" -> "blockhash_expired"
      [] cause \in {"fee", "payer_rent", "rent"} -> "insufficient_funds"
      [] cause \in {"absent", "instruction", "processed"} -> "chain_rejected"

(* POST /v1/tx/submit, see Submit for its awaits. *)
Relay(c) ==
    /\ stage[c] = "relay"
    /\ LET m == wire[c].message
           cause == Preflight(m)
       IN  IF ~ Verifies(wire[c]) THEN End(c, "bad_request") /\ UNCHANGED pool
           ELSE IF cause = "none"
                THEN /\ pool' = pool \cup {m}
                     /\ stage' = [stage EXCEPT ![c] = "sent"]
                     /\ answer' = [answer EXCEPT ![c] = "ok"]
                ELSE End(c, MapSendError(cause)) /\ UNCHANGED pool
    /\ UNCHANGED <<ledger, height, executed, failed, sponsor, names,
                   intent, recipient, scale, unsigned, wire, row>>

(* AppError::Network: a name service or RPC call breaks off. *)
CallBreaks(c) ==
    /\ stage[c] \in {"resolve", "decimals", "anchor"}
    /\ End(c, "network")
    /\ UNCHANGED <<chain, sponsor, names, intent, recipient, scale, unsigned, wire, row>>

-------------------------------------------------------------------------------
(* GET /v1/wallets/:pubkey/balance of a ledger: the address must decode to *)
(* 32 bytes, the mint be a key; the node does not sum a mint that is none. *)
ValidPubkey(text) == text \in Wallets \cup Mints
ReadBalance(l, address, mint) ==
    CASE ~ ValidPubkey(address) \/ mint = Garbage -> [error |-> "bad_request", amount |-> 0]
      [] ValidPubkey(address) /\ mint \in Wallets -> [error |-> "network", amount |-> 0]
      [] OTHER -> [error |-> "none", amount |-> Balance(l, address, mint)]

-------------------------------------------------------------------------------
(* The cluster and the name service: external.  A message whose payer can  *)
(* no longer pay gets into no block.                                       *)
Execute(m) ==
    /\ m \in pool /\ Alive(m)
    /\ LET outcome == Outcome(ledger, m) IN
         /\ ledger' = outcome.ledger
         /\ executed' = IF outcome.cause \in {"absent", "fee", "payer_rent"} THEN executed ELSE executed \cup {m}
         /\ failed' = IF outcome.cause \in {"rent", "instruction"} THEN failed \cup {m} ELSE failed
    /\ pool' = pool \ {m}
    /\ UNCHANGED <<height, sponsor, names, calls>>

NewBlock ==
    /\ height < MaxHeight
    /\ height' = height + 1
    /\ UNCHANGED <<ledger, pool, executed, failed, sponsor, names, calls>>

Sell(l, w) ==
    /\ sales < MaxSales /\ owner[DomainKey(l)] # w
    /\ sales' = sales + 1
    /\ owner' = [owner EXCEPT ![DomainKey(l)] = w]
    /\ held' = [c \in Calls |->
                  IF stage[c] = "resolve" /\ intent[c].to.label = l
                    THEN held[c] \cup {w} ELSE held[c]]
    /\ UNCHANGED <<chain, sponsor, calls>>

CallStep(c) ==
    \/ \E i \in Intents : Begin(c, i) \/ RunScript(c, i)
    \/ Resolve(c) \/ Check(c) \/ ReadDecimals(c) \/ Anchor(c)
    \/ Sign(c) \/ SignInScript(c) \/ Dismiss(c) \/ Relay(c) \/ CallBreaks(c)

TransferNext ==
    \/ \E c \in Calls : CallStep(c)
    \/ \E m \in pool : Execute(m)
    \/ NewBlock
    \/ \E l \in Labels, w \in Wallets : Sell(l, w)

TransferSpec == TransferInit /\ [][TransferNext]_transferVars

-------------------------------------------------------------------------------
Addresses == Wallets \cup {Garbage, None}
Messages == {wire[c].message : c \in {c \in Calls : wire[c] # None}}

(* Every variable has its type; nothing a node has taken or a block holds  *)
(* was signed by nobody, and no account falls below zero.                  *)
TransferTypeOK ==
    /\ ledger \in Ledgers /\ ledger.ok
    /\ sponsor \in FeePayers
    /\ owner \in [Domains -> Wallets \cup {None}]
    /\ sales \in 0..MaxSales /\ height \in 0..MaxHeight
    /\ failed \subseteq executed
    /\ pool \cup executed \subseteq Messages
    /\ stage \in [Calls -> Stages] /\ answer \in [Calls -> Answers]
    /\ intent \in [Calls -> Intents \cup {None}]
    /\ recipient \in [Calls -> Addresses]
    /\ \A c \in Calls : stage[c] \notin {"new", "resolve", "ended"} => recipient[c] # None
    /\ scale \in [Calls -> Nat \cup {None}]
    /\ wire \in [Calls -> SignedTx \cup {None}]
    /\ held \in [Calls -> SUBSET Addresses]

(* A name is paid to someone who owned it while send resolved it: never to *)
(* an owner from before the call, however many sends name it               *)
(* (xend_wallet.dart, send: "Resolve a `.sol` name to its address up       *)
(* front, so building, signing, and the recorded recipient all use the     *)
(* same address").                                                         *)
NameOwnerPaid ==
    \A c \in Calls : wire[c] # None =>
      \A j \in DOMAIN wire[c].message.instructions :
        LET i == wire[c].message.instructions[j] IN
          /\ i.op = "transfer" => i.to \in held[c]
          /\ i.op = "checked" => i.destination \in held[c] \X Mints

(* The funds suffice for an intent: the payer for its fees and the rent of *)
(* a token account that is not there, the sender for the amount, and       *)
(* nobody is left with less than a wallet may hold.                        *)
Due(i, to, payer) ==
    [w \in Wallets |->
        (IF w = payer THEN Fee * Cardinality({payer, i.from}) ELSE 0)
      + (IF w = payer /\ i.mint # None /\ ledger.ata[<<to, i.mint>>] = None THEN AtaRent ELSE 0)
      + (IF w = i.from /\ i.mint = None THEN i.amount ELSE 0)]
Covered(i, to, payer) ==
    LET due == Due(i, to, payer)
        fees == Fee * Cardinality({payer, i.from})
        gain(w) == IF w = to /\ i.mint = None THEN i.amount ELSE 0
    IN  /\ ledger.sol[payer] > fees /\ Exempt(ledger.sol[payer] - fees)
        /\ \A w \in Wallets : /\ due[w] <= ledger.sol[w]
                              /\ Exempt(ledger.sol[w] - due[w] + gain(w))
        /\ i.mint # None => /\ ledger.ata[<<i.from, i.mint>>] # None
                            /\ ledger.ata[<<i.from, i.mint>>] >= i.amount

PayerOf(c) == IF sponsor = None THEN intent[c].from ELSE FeePayer

(* A transfer whose funds suffice when it is tried, or when its block      *)
(* comes, does not fail: not because another transfer has opened the       *)
(* recipient's token account in between ("a no-op if the account already   *)
(* exists", solana.rs), not because of a wrong mint scale or signer.       *)
LacksFunds(c) ==
    LET covered == Covered(intent[c], recipient[c], PayerOf(c)) IN
      /\ (stage[c] = "relay" /\ answer'[c] \in {"bad_request", "insufficient_funds", "chain_rejected"})
           => (~ covered \/ wire[c].message \in executed)
      /\ (wire[c] # None /\ wire[c].message \in failed' \ failed) => ~ covered
FailsOnlyForFunds == [][\A c \in Calls : LacksFunds(c)]_transferVars

(* Lamports and tokens leave a wallet only when a transfer gets into a     *)
(* block that names it as sender, by what the intent asked, or as the      *)
(* payer, by the fees and one account's rent: a sponsored sender pays      *)
(* nothing but the amount, and the paymaster never the amount (solana.rs,  *)
(* SolanaAdapter: "only authorizes paying the network fee").               *)
Spent(w) == ledger.sol[w] - ledger'.sol[w]
Gone(w, mint) == Associated(ledger, w, mint) - Associated(ledger', w, mint)
Included(c) == wire[c] # None /\ wire[c].message \in pool \ pool'
AuthorizedBy(c, w) ==
    /\ Included(c) /\ w \in {intent[c].from, PayerOf(c)}
    /\ Spent(w) <=
         (IF w = intent[c].from /\ intent[c].mint = None THEN intent[c].amount ELSE 0)
       + (IF w = PayerOf(c) THEN Fee * Cardinality({w, intent[c].from}) ELSE 0)
       + (IF w = PayerOf(c) /\ intent[c].mint # None THEN AtaRent ELSE 0)
Authorized(w) ==
    /\ Spent(w) > 0 => \E c \in Calls : AuthorizedBy(c, w)
    /\ \A mint \in Mints : Gone(w, mint) > 0 =>
         \E c \in Calls : /\ Included(c) /\ intent[c].from = w /\ intent[c].mint = mint
                          /\ Gone(w, mint) = intent[c].amount
DebitsAreAuthorized == [][\A w \in Wallets : Authorized(w)]_transferVars

(* What the backend was given to record is what moves: when the message of *)
(* a call takes effect, the balance the row's recipient reads grows by the *)
(* row's amount of the row's mint.                                         *)
MovesAsRecorded(c) ==
    LET r == row[c]
        before == ReadBalance(ledger, r.to, r.mint)
        after == ReadBalance(ledger', r.to, r.mint)
    IN  (Included(c) /\ wire[c].message \in executed' \ failed') =>
          /\ before.error = "none" /\ after.error = "none"
          /\ r.to \notin {r.pubkey, PayerOf(c)} => after.amount = before.amount + r.amount
RowSaysWhatMoved == [][\A c \in Calls : MovesAsRecorded(c)]_transferVars
===============================================================================
