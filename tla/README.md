# Xend, specified

TLA+ models of Xend: a Flutter SDK whose wallet keys live in the Secure Enclave
and the keychain of an iPhone, an example app, and a Rust service that builds,
verifies, records and broadcasts Solana transactions. The modules follow the code
function by function. TLC checks them on small instances; TLAPS proves for every
size each safety and action property of the state machines that TLC finds to hold.
Paths below are relative to the repository.

## 1. The system

| Component | State | Operations | Where it is hard | What makes it right |
|---|---|---|---|---|
| Transactions ledger (`backend/src/store/transactions.rs`, migration 0002) | one row per idempotency key: status, signature, wallet, recipient, amount, time of the claim | look up, claim, mark, list | statements of several requests interleave; unique indexes; the history cursor | a recorded row never changes; pages neither repeat nor lose rows |
| Submit endpoint (`handlers/tx.rs`) | where each request is suspended, what it read before | lookup, wallet lookup, claim, relay, mark | concurrent requests with one key, dropped futures, failing statements, lost replies | the ledger and the network agree at every await |
| Wallets table (`store/wallets.rs`, `handlers/wallet.rs`) | registered public keys | upsert, lookup, balance, history | registration may come after the first transfer | rows belong to the wallet that was named |
| Solana adapter (`chain/solana.rs`, `handlers/resolve.rs`) | none | build, validate, broadcast, status, balance, names | up to three parties to a transfer, messages that execute in any order, names that change hands; no timeout; refusals that say little | nothing unverified is relayed; nobody pays what they did not agree to; the owner of the name is paid |
| Rate limiter (`gateway/rate_limit.rs`) | a window per authorization header, behind a mutex | enforce | the clock is read before the mutex is held | bounded bursts; `Retry-After` suffices |
| Router, API keys, request ids (`app.rs`, `gateway/auth.rs`, `request_id.rs`) | the accepted keys | id, limit, authenticate, answer | the order of the layers; answers come from any of them | a handler sees only authenticated requests; every answer bears the id of its request |
| Command-line client (`bin/gasless_client.rs`) | none | one transfer of SOL | the same as `send` | the same as `send` |
| SDK `XendWallet` (`packages/xend/lib`) | none across calls | create, load, restore, delete, send, watch, history, balance | retries with one key; a stream over answers that go backwards | one payment moves money once; the stream tells the truth and ends |
| Key vault (`ios/Classes/SecureSigner.swift`) | enclave key, three keychain items, recovery seed on the device and in iCloud | create, restore, recover, sign, delete | no transaction around keychain calls, deletions nobody checks, overlapping native calls, kills, re-enrolled biometrics, other devices | a wallet is whole or absent; what signs is what is shown |
| Pure conversions (`Base58.swift`, `Mnemonic.swift`, `wire.dart`, `_parseUnits`/`_formatUnits`) | none | encode and decode | boundaries | round trips |
| Example app, wallet screen (`example/lib/main.dart`) | wallet, figures, spinners, dialogs | load, create, restore, delete, refresh | every await leaves the screen usable | the screen shows the wallet there is |
| Example app, sending | a sheet with a live name preview, a dialog with a stream | type, look up, send, watch | answers out of order, a sheet that is pulled away | what is sent is what is shown |

How they meet: `send` builds through `POST /v1/tx/build`, has the device sign,
posts to `POST /v1/tx/submit`; every such request passes the limiter, the API-key
check and then a handler; the handler talks to Postgres and to one RPC node, which
talks to the cluster; `watch` polls `GET /v1/tx/:signature`; create, load and
restore call the vault and then `POST /v1/wallets`; the app awaits all of these
side by side. `PROJECT.json` lists every hazard at its line.

## 2. Modules

| Module | Models | Correspondence |
|---|---|---|
| `TransactionStore` | the statements over `transactions` | one operator per function of `store/transactions.rs`; a statement is atomic |
| `Submit` | `submit` with `validate_signed`, `broadcast`, `map_send_error` and the error mapping, run by many handlers | one action from an await to the next: `Receive`, `Find`, `FindWallet`, `Claim`, `Relay`, `ReadReply`, `Mark`; `DbFails`, `RpcFails` and `Drop` are the faults; the node and the network (`NodeAccepts`, `NodeRefuses`, `OrphanArrives`, `Execute`, `Expire`) are external |
| `IdempotentSubmit` | what the endpoint promises | keys are claimed, transactions relayed, signatures recorded once; `Submit` implements it through a refinement mapping (`KeepsPromise`) |
| `PaymentProofs`, `VaultProofs`, `GatewayProofs`, `TransferProofs`, `FlowProofs`, `ScreenProofs`, `NumbersProofs`, `ClientProofs` | theorems about `Submit` and `Payment` over it; `Vault`; `RateLimit` and `Gateway`; `Accounts` and `Transfer`; `SendSheet` and `Watch` as `SendFlow` composes them; `Screen`; the numbers and amounts of `Codecs`; `History` and `Conversions` | section 6 |
| `Payment` | `XendWallet.send`, the app's retries, the connection | extends `Submit`; `stage` is the await `send` is at, `line` the handler serving it; `RetryOn` is the app's policy |
| `Vault` | `SecureSigner` on several devices with iCloud | each keychain or enclave call is a step of one of the native calls under way (`call` is a set: the plugin's queue is concurrent); `Kill` may come between any two; any deletion may be refused, which the code does not look at; a read of the address or of a seed may fail though there is one, which `loadOrRecover` takes for none |
| `RateLimit` | `enforce` and `record` | `Enter` reads the clock, `Record` is the critical section |
| `Gateway` | the router with request ids, limiter and key check | extends `RateLimit`: `Arrive` is the id and the header, `Pass` the limiter and, as nothing awaits in between, the key check; `Health` goes round both; `Answer` stands for any handler |
| `Accounts` | the instructions of `build_transfer` and balances | an instruction is a record of what its bytes and accounts say; what the programs make of it (`Run*`, `Outcome`) is external |
| `Transfer` | `XendWallet.send` and `gasless_client` through `resolve_name`, `build_transfer`, the signatures and what is recorded, to the execution of the message | a call stops at each await: `Begin` or `RunScript`, `Resolve`, `Check`, `ReadDecimals`, `Anchor`, `Sign`, `Relay`; `Execute`, `NewBlock` and `Sell` (a name changes hands) are external |
| `Watch` | `XendWallet.watch`, the status endpoint and the dialog | `Poll` is one turn of the loop; the cluster forks and its nodes lag |
| `SendSheet` | `_SendSheet` with its debounce timer and lookups | `Edit`, `LookUp`, `Resolved`, `Tap`, and the sends of sheets that are gone; `Unreadable` is an answer that is no JSON object, which `_get` throws past every catch of `_resolve` |
| `SendFlow` | `_openSend`: `SendSheet`, then `Watch` | composes the two |
| `Screen` | `_WalletScreenState` | every method is split at its awaits; a vault call is one step here, but for a load: `LoadNative` is its reads, which may fail, and `LoadRecovers` the rebuilding of a wallet that may follow, beside a create |
| `History` | `history` and `list_for_wallet`, paged as `XendWallet.history` describes | `FetchPage` between claims and marks; a claim may become visible late |
| `Codecs` | base58, recovery phrases, signed transactions, amounts | recursive functions and folds; the radices are constants |
| `Conversions` | one conversion of `Codecs` on one of its `Inputs` | the properties of the conversions, and what their callers may pass (`WellFormed`); `Fits` is what `generate` and `encode` make a phrase of |

`MC*` modules give the constants values. In the modules, a definition whose
comment calls it a variant is a plausible wrong form of the definition next to it;
nothing uses it in a run.

Abstractions. A signature is identified with the transaction it signs, a key with
the payment it is for, a wallet with its seed, an address of a name with the name.
Transactions, recipients and payloads are model values; `Garbled` and `Forged`
single out payloads that do not decode or do not verify. History variables are
marked in their declarations; they guard nothing but the freshness of a new seed
(`known` in `Vault` and `Screen`). Some of them name the exceptions of a property:
`torn` and `crossed` in `Vault` (a wallet cut off halfway; calls that have overlapped),
`thrown` in `SendSheet` (an answer that could not be read), `hasty`, `failed` and
`refused` in `Screen` (a user who did not wait; a call that failed; a secret the keychain
did not give, or did not delete).

## 3. Runs

| Run | Question and result | Instance |
|---|---|---|
| `submit` | Do the ledger, the network and the answers agree at every await, and does the endpoint keep its promise? Yes, if a key always comes with one body. | two handlers, four keys: two share their bytes, one is forged, one garbled; 750 000 states |
| `payment` | Does one payment move money once, with every hop failing, and does every call end? Yes, if the app retries only errors after which nothing was relayed | one key, three transactions, three calls, two handlers |
| `payment_retry` | *violated* when `NetworkError` is retried, as its documentation allows | two transactions |
| `vault` | Is a wallet whole or absent, does it sign as shown, does an unfinished one never spread? Yes, the first two on devices that are not torn and whose calls have not overlapped, the last on all | two devices, two seeds, three enclave keys, two writing calls; 495 000 states |
| `vault_fast` | *violated*: an address without a usable key is taken for a provisioned device | one device, two calls |
| `gateway` | Who gets past the layers, how large is a burst, is `Retry-After` enough, and is anyone refused for others? Only who may; at most twice the limit; yes; no | two requests at a time, four in all, with a key, under another scheme and without a header, keys configured or not, limit 1, window of 3 ticks, 4 ticks; 3.9 million states |
| `transfer` | Who is paid and who pays, whatever the order of execution? The name's owner of the time of the call; the sender the amount, the payer fees and rent; a covered transfer does not fail; rows say what moved | one call of the SDK and one of the client, with and without a paymaster, twelve intents, one token, one sale of a name, blockhashes that live for one of two blocks; 562 000 states |
| `send_flow` | Preview, spinner, transfer and stream under any order of answers. All hold, but that a spinner is owed nothing once an answer could not be read | two names, two sheets, three edits, four polls, two forks; 25 000 states |
| `screen` | Does the screen show the device's wallet and its balance, and is one wallet provisioned at a time? Yes, for a user who waits and a keychain that refuses nothing; of creates and restores there is one at a time for every user, beside which a load may recover a wallet | two wallets, two requests of a kind, a deletion; 4.5 million states |
| `screen_erase` | *violated*: Create is offered while a wallet is loading or has failed to load, and overwrites it, with a keychain that refuses nothing | the same |
| `history` | Do pages repeat or lose rows? They never repeat, and lose only ties of the cursor. Do the conversions round-trip? Yes | four rows, pages of two, three ticks; every input of the lengths in `MCHistory` |
| `phrase_spaces` | *violated*: a phrase with a doubled space is valid and opens another wallet | phrases of three words |

Why the bounds are enough for what they are used for. Two handlers are every
interleaving of two requests with a key, and a third adds no new kind of pair: the
proofs cover any number. Three calls allow a retry after a retry, and three
transactions let each build its own. Two writing calls on two devices
are a create with a replacement, a deletion or another create beside it, or with a
recovery elsewhere, and loads that write nothing are not counted. Two names and two sheets are
what an answer for the other one needs. A limit of 1 in windows of 3 ticks lets
the burst at the end of one window and the start of the next happen with four
requests within the 4 ticks, half a second of `Retry-After` being lost to rounding. Two
transfers are what a token account opened by someone else in between, a name sold
between two sends, and funds spent twice need; amounts go to 15, so that 16 and 17 do
not fit, and the balances cover some of the transfers but not all. Four polls hold a
first observation, two changes and one more. Four rows in pages of two let a tie
straddle a page. Radices are small but keep the proportions the code relies on: 33
bits of a phrase are three words, and 32 of them whole bytes; the first holds in the
instance as `(Ratio + 1) % WordBits = 0`. The other two facts about the widths that
`Codecs` assumes (`Groups`) are that 32 bits are whole bytes and that each of the word
counts 12, 15, 18, 21 and 24 is a multiple of 33 bits; `Radices` has it that there are
no fewer bytes than digits of an address.

Deadlock checking is off where the modelled thing may stop: a payment or transfer
that is over, a vault whose calls are used up, a gateway nobody calls any more, a
screen or a flow the user has left, a walk that is finished. `submit` checks it: a
server can always take another request.

`Submit`, `Vault`, `Gateway` and `Transfer` state a type invariant; the other modules
state only what relates their variables. `DebitsAreAuthorized`, `FailsOnlyForFunds` and
`RowSaysWhatMoved` are about steps. They compare the ledger before and after a block
with the intent the user gave, not with the message that was built from it, so that
every hop in between is checked: `FailsOnlyForFunds` spells out in `Covered` what an
intent costs whom, independently of the instructions. They assume that the
paymaster's own account sends nothing (`PaymasterAssumption`), since it would then pay
its own fees, and that accounts start rent-exempt, as accounts on the cluster are.
The types of `Transfer` say of the wire that what a call has signed is a transaction
whose signatures are over messages; `WireAssumption` is that "nothing signed yet" is
not one.

## 4. Fairness

Only `Payment` and `Watch` have liveness properties.

* `SendEnds`: handlers that can run do run (the runtime polls ready futures), a
  statement ends or fails, the node answers **or the connection breaks**. The last
  is an assumption about the network: `reqwest::Client::new()` and the Dart client
  set no timeout, so a peer that keeps a connection open without answering blocks a
  handler, its client and the spinner for as long as it likes. On the client, each
  await that has ended is followed up, and one that waits for an answer ends with
  the server's answer or, when the handler is gone, with its closed connection -
  never because a client timer fires, which the code does not have. No fairness is
  assumed for retries, for new calls, for faults or for execution on the chain.
* `WatchEnds`: the poll ends and the timer of `Future.delayed` fires. The deadline
  is in the code; it is what ends the stream when the transaction is never
  executed.

## 5. What disagrees

* **One payment can be executed twice** (`payment_retry`). The idempotency key
  protects a *recorded* transaction. `send` builds a new message on every call, so
  a retry after a lost answer carries other bytes, and it is broadcast as long as
  the row has no signature. `errors.dart:30` calls `NetworkError` "Safe to retry".
  `payment` shows the policy under which the promise holds.
* **The fast path trusts the address alone** (`vault_fast`): after an interrupted
  delete or replacement, or re-enrolled biometrics, a device reports a wallet it
  cannot sign for, and does not try the recovery seed.
* **Create can overwrite a wallet** (`screen_erase`): loading is neither awaited
  nor are its errors caught, and the empty state offers Create meanwhile.
* **A phrase with two spaces restores another wallet** (`phrase_spaces`):
  validation splits the text, key derivation does not.

Seen while modelling, without a run of their own: a retry of bytes that were
executed is told `blockhash_expired` or `chain_rejected`, which `solana.rs:519`
comments with "rebuild" and "give up"; two concurrent requests of one
key both broadcast (migration 0002 says they race "instead of broadcasting
twice"; with equal bytes that is harmless, with unequal ones it is the first item
above); the limiter admits up to twice its maximum around a reset; `watch` may
emit an earlier commitment than the one before, although its comment says
"advances"; `main.dart:52` says busy covers delete, which never sets it; a
transfer made before its wallet is registered is never in its history; deleting
a wallet leaves its history on the screen, and is reported done whatever the keychain
refused (`SecureSigner.swift:259`, `268`, `464`); a lookup of a name that is answered by
something that is no JSON object leaves the spinner turning until the field changes
(`_resolve` catches `XendError` only); a wallet whose address cannot be read is told as
none, or rebuilt from the seed over it; a load that recovers a wallet and a create run
beside each other in the vault; a token transfer without enough tokens, or
one of SOL beyond the balance, ends in "custom program error" and so in
`chain_rejected`, where `errors.dart:36` has `InsufficientFunds` for it; a balance sums
all token accounts of the owner, a transfer spends only the associated one; the SDK
takes `.SOL` for a name, the backend strips `.sol` only; two equal sends on one
blockhash are one transaction; `valid_until` is read by no client; `validate_signed`
checks the signatures that are present, not that the transaction is "consistent with
the intent" (`adapter.rs:63`).

## 6. Proofs

The first part of `PaymentProofs` is about `Submit` for any sets of handlers, keys, transactions,
wallets and requests, from the two assumptions that module states (requests are
well typed, garbled and forged payloads are payloads).

* `TypeCorrect`: with `Serving` (a busy handler serves a request, an answered one
  holds the answer), the type invariant is inductive.
* `Inductive`: `IInv` adds what a handler has established at each await (its key is
  claimed once it may relay, its payload is verified once it is sent, its
  transaction was seen once the node has accepted it), that a row's signature was
  seen and its wallet registered, and that whatever is on the network or on the
  wire was verified and claimed. None of the properties is inductive without it:
  `Mark` writes a signature because of what happened two awaits before, and a
  dropped handler leaves a request behind that arrives later. From it follow
  `RecordedIsRelayed`, `ClaimedFirst`, `VerifiedOnly` and `AttributionIsSound`.
* `LateRetryIsIdle`: a request that begins after its key was recorded stays at the
  lookup or is done, since a recorded row stays recorded (`RowsGrow`).
* Under `BlindRetry` (requests with one key are equal), `BlindInv` ties every row
  to the one request of its key. It gives `AnswersAreRecorded`,
  `RowsDescribeTransfers`, `SignaturesAreStable` and `ImplementsPromise`: every
  step of `Submit` is a step of `IdempotentSubmit` or a stutter. Without the
  hypothesis these are false: a second body under the same key overwrites the
  signature, which is what `payment_retry` exploits.

The lemmas `OneMover`, `OneServed`, `RowsStep`, `RowsGrow` and `NetworkGrows` say once
what a step may do to handlers, rows and network; the theorems split on them, not on
the actions. TLC checks every property named in the theorems in the run `submit`.

Its second part goes on to the clients: a step of `Payment` is a step of `Submit` or
leaves the server alone, so `IInv` carries over, and a request of the SDK is well typed
(`BodiesAssumption`; the sender is a wallet, `SenderAssumption`).

* `PaymentInductive`: `PayInv` says that what `send` holds on to at each await, what a
  handler was asked to relay and what a row records is a transaction built and approved
  for the payment of that key. `RelayedIsApproved` follows, under any policy of retries.
* `FateInductive`: unless the app calls `send` again after a `NetworkError`, a payment is
  *silent* until it is posted (no handler serves it, nothing of it is on the network or
  on its way), and from then on everything the server and the network hold of it is
  about one transaction (`Fate`); it is silent again after every other error. What has
  to be carried through the awaits of the handler is that nothing was heard of the
  request as long as it may end in such an error (`Unheard`): this is what fails if the
  endpoint answers a refusal for something it has relayed. From it follow
  `OneIsExecuted`, `HandlesAreRecorded` and `CancellingMovesNothing`. The hypothesis
  `"network" \notin RetryOn` is not for the proof's sake: without it the first is false,
  as the run `payment_retry` shows, and a cancelled retry may follow a lost answer.

`VaultProofs` proves every property of the run `vault`, for any devices, seeds, enclave
keys and number of calls, with deletions that are refused at every place. `VaultInv` has
three parts. Of every call, whichever others are at work: its seed is known, and complete
somewhere once the last item has been written (`CallInv`). Of every device: all it shows,
keeps as a seed or has opened is of a wallet that was complete (`SeedsInv`); this carries
`SeedsFollowWallets`, which needs no exception. Of a device whose calls have never
overlapped (`LoneInv`, `LoneCall`): what the one call has established at each of its steps.
The items behind it (`Behind(todo)`) are of its seed and under its enclave key; unless the
device is torn there is no address before the last of them and no other enclave key.
Between calls such a device, if it shows an address, can unwrap key and phrase of that very
address, unless it was torn. That the address is written last, and so never stands over
another wallet's items, is where `AddressMeansWhole` comes from; `SignaturesMatch` adds
that the open wallet is the one in the keychain.

Both leave out the devices in `torn` and `crossed`, and have to: two native calls that
overlap can write the address of one wallet beside the key of another, and a deletion that
is refused leaves an address without a key. A device leaves `torn` when a wallet has been
written whole under the only enclave key, or when a deletion has left no address.

`GatewayProofs` proves every property of the run `gateway`, for any callers, requests,
limit and horizon, from the assumptions of `RateLimit` (a window of whole seconds, a
stall of at most a second between the clock and the mutex: what a window leaves of a
second and a stall are together no longer than a second) and of `Gateway`.

* `LimiterSafety`: `LimiterInv` adds to the types that no request waits longer than
  `Stall`, that what a window has counted it has let through since it started, and
  that a refusal lasts until the end of the window that was spent. The last is where
  the rounding of `Retry-After` goes in (`SecondsCover`). The types alone do not have
  it, as a window can be opened after the time a request is judged by. It gives
  `WaitingSuffices` and `RefusalsAreEarned`.
* `BurstsAreBounded`: `BurstInv` says of the grants of a caller which of them can be in
  the current window, in the one before and in older ones; `GrantSpreads` and
  `OpeningSpreads` are what a grant and a new window do to a sequence.
* `GatewayIsLimiter`: every step of the gateway is one of the limiter or leaves it
  alone, so that what is proved of the limiter holds behind the other layers.
* `GatewayTypes` and `AnswersFit`: a request carries its header from the limiter to the
  key check and its id to the answer (`Carried`), and a window once there has counted
  someone (`Counted`).

`TransferProofs` proves every property of the run `transfer`, for any number of calls,
names, sales, tokens and blocks, and any amounts, fees and rents.

* `OwnerIsPaid`: `PaidInv` follows the address from await to await. While a name is
  looked up its owner of the moment is among the holders, from then on the address is
  one of theirs, then the message pays it, then what is signed is that message.
* `TransferInductive` and `TransferTypes`: `TransferInv` says of a call at each await what
  its checks have ruled out (`Asked`), and of a message that its instructions, payer and
  signatures are those its intent asks for (`Composed`).
* An execution folds the instructions of a message over the ledger; a message has one
  or two, so `FoldOne` and `FoldTwo` unroll the fold. `TransferRuns`, `CreateRuns` and
  `CheckedRuns` say what an instruction does to accounts and when it fails; `OutcomeIs`
  puts them together into what a message of this backend does (`Effect`), and
  `CoveredSucceeds` says that it succeeds when the funds suffice. `Covered` does not
  mention instructions, so this is where it shows that what is built is neither too much
  nor too little: a missing account opening, a payer who does not sign or a debit from
  the wrong account breaks this step.
* `FundsSuffice`, `OnlyTheAuthorizedPay` and `RowsAreTrue` are the action properties, by
  cases of who executes. They rest on `PaymasterAssumption` and `OpeningAssumption` as
  in section 3; wallets and tokens are different accounts (`AddressAssumption`).

`FlowProofs` proves every safety property of the run `send_flow`, for any names, edits,
sheets, timeout and number of forks.

* `PreviewIsHonest`, `SpinnersAreOwed`, `SheetSendsOnce`: `SheetInv` adds that a timer
  under way is of the name in the field, that only an open sheet has a spinner or a
  button that is off, and that no transfer under way is of a sheet yet to be opened,
  so that a new sheet cannot take the answer of an old one for its own. A spinner
  without a timer or a lookup has had an answer that could not be read (`thrown`).
* `StreamTellsChanges`, `StreamTellsTruth`: `WatchInv` says of the cluster that what is
  finalized stays and a transaction without a record has not failed, and of the loop
  that what it compares with (`last`) is what it emitted last, and that it is under
  way only while that is no final state. The last is what keeps the stream from going
  on after a failure, of which `last` keeps nothing.

`ScreenProofs` proves every property of the run `screen`, for any wallets and any bound on
requests and deletions. `BusyInv` is about every user: `busy` says whether a create or a
restore is under way, and the dialog of a restore is open only while none is, so that the
set of those under way has at most one member. `PatientInv` is about one who waits: at most
one of load, create or restore, and deletion is under way, so that no load recovers a wallet
beside a create (`ProvisionsOne`), and requests are for the wallet shown
(`ShowsOwnBalance`). `HeldInv` adds that what is about to be shown is what the device holds
while nothing has failed and the keychain has refused nothing (`ShowsTheDevice`): an address
that could not be read and a deletion that was not carried out are the two ways for the
screen to show no wallet where there is one.

`ClientProofs` and `NumbersProofs` prove the four properties of the run `history`.

Of a walk through the history, for any finite table, page size and times: `WalkInv` says
that all that was given is not older than the cursor and all that is due is older, or of
the time of something given; a claim that becomes visible late cannot be due, and a mark
does not change the time of its row. That a page, cut off by its limit, leaves nothing
younger behind takes the finiteness of the table (`FiniteLedger`) and the least member of
a set of times (`LeastNat`).

Of the conversions, for every input and any radices and widths of which `Radices`,
`Widths` and `Groups` hold, as they do of the real ones. The definitions are recursive
functions and folds, and what they compute for every input takes an induction. The
library's induction theorems have a predicate for a parameter, which the provers cannot
instantiate, so `NumbersProofs` states induction with a set in its place, where it is a
first-order fact:

* `AllNumbers`, `AllSmaller`, `AllSequences`: a set that holds what induction asks for
  holds every number, or every sequence. Each follows from the least member of a set.
* `Recursion`: a function that `CHOOSE` picks for `f = [x \in D |-> ...]` satisfies that
  equation, if the calls it makes are nearer to the end by some measure. It gives
  `NumeralEquation`, `PassesEquation` (a pass of the base58 division shortens its input
  or makes it a smaller number), `SpillEquation` and `ShortVecEquation`.
* `FoldSequence`: `FoldLeft`, which the library defines by such a function over sets of
  indices, starts with its base and takes one step for each member appended.
* `NumberConcat`, `NumberBound`, `NumberSame`, `CanonicalSame`: digits without a leading
  zero are determined by the number they spell. The round trips go through numbers: what
  is encoded and what is decoded spell the same one.

On these stand, for every input:

* `AddressReadsBack`, `AddressIsUnique`: `DivideOf` and `CarryOf` say that the in-place
  division and multiplication lose nothing; each quotient fits in the byte it replaces
  (`DivideDigitOf`, where Base58.swift:28 would trap), and the zeros in front are counted
  apart. `Base <= Radix` is where 58 and 256 come in.
* `PhraseReadsBack`, `PhraseIsUnique`, `SpelledRestores`: a row of bits is the same taken
  by 8 and by 11 (`GroupedBits`, `BitsGrouped`), and 33 bits are one of the checksum.
  Nothing is assumed of the checksum but that it has bits enough.
* `TransactionReadsBack`: in the count every byte but the last has its high bit set, so
  that a node reads just the count whatever follows (`CountRead`), and then finds each
  signature at its place (`FlattenChunks`, `WireAt`).
* `AmountReadsBack`, `TextIsExact`: trimming zeros on the right and padding them again
  leaves a fraction alone (`TrimmedOf`, `PadRightOf`), and a text that parses is worth its
  digits without the dot, over as many tens as digits stand behind it.

`WrittenReadsBack` and `AmountsStayExact` put them together into the two properties, whose
inputs are `WellFormed`; TLC evaluates that assumption on those of the run.

Every invariant was first checked by TLC on the instance of its run. What the theorems
do not cover:

* `SendEnds` and `WatchEnds` are liveness under fairness, which the prover does not do.
* `KeepsPromise` is proved under `BlindRetry` and checked by TLC on an instance that
  satisfies it.
* The four properties that do not hold (section 5).

In the modules an update of two fields of one entry is written
`[f EXCEPT ![x] = [@ EXCEPT !.a = .., !.b = ..]]`: the prover's translation of two updates
at one index in a single `EXCEPT` is wrong. For a like reason `Codecs` writes `Power` and
`DotAt` out: the provers know nothing of `^`, and nothing of `SelectSeq`.

## 7. Not modelled

* The byte layouts of instructions, messages and records, the program addresses and
  the derivation of account addresses: `Accounts` has an injective tuple for each.
  The parsing of answers.
* SHA-256, PBKDF2, HMAC, Ed25519, ECIES: functions without collisions.
* The pool of connections and the migrations: a statement waits or fails, which
  `Submit` has. Logging, CORS and the deployment files.
* What two overlapping native calls leave of one device, beyond the types and
  `SeedFollowsWallet`. They do overlap: the plugin's queue is concurrent and
  `main.dart:59` does not await the load, which `screen_erase` relies on. `Vault` runs
  them step by step beside each other, but nothing in the code promises a whole wallet
  after that.
* `paymaster_keygen`, which prints a key.
* The label of a wallet, which is stored and never read.

## 8. Plan

The order was: the endpoint and its promise, the payment over it, the vault, the
limiter, the app, history and conversions; then the accounts, the transfer from the
intent to the block, and the gateway; then the proofs, component by component, until
every safety property had one, the conversions last. What is left:

1. The lemmas about instructions and accounts (`OutcomeIs`, `CoveredSucceeds`) are stated
   for the messages of this backend. A specification of a transfer by its effect alone,
   which `Transfer` implements, would say the same of a whole call.
2. The same for `Vault`: that between native calls it implements a device that has a
   wallet or has none.
3. What `History` and `Codecs` leave to each other: that a cursor written and parsed again
   is the same time (`before` of `XendWallet.history`), which takes the format of a
   timestamp.
