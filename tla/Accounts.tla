------------------------------- MODULE Accounts -------------------------------
(***************************************************************************)
(* The instructions chain/solana.rs puts into a transfer and what the      *)
(* cluster makes of them.  The encoding of an instruction is left out: an  *)
(* instruction is a record of what its bytes and its accounts say, and     *)
(* `signer` is the one account it marks as a signer.                       *)
(*                                                                         *)
(* A ledger holds the lamports of every wallet and the tokens in every     *)
(* associated token account, None where there is no such account; `ok` is  *)
(* FALSE once an instruction has failed.                                   *)
(***************************************************************************)
EXTENDS Integers, Sequences, SequencesExt

CONSTANTS
    Wallets,    \* addresses that own lamports and tokens
    Mints,      \* token mints
    Decimals,   \* the decimals of each mint
    Elsewhere,  \* tokens a wallet holds in accounts that are not the associated one
    MaxAmount,  \* u64::MAX
    Fee,        \* lamports per signature
    AtaRent,    \* lamports a token account is opened with
    RentMin,    \* the least a wallet may hold if it holds anything
    None

ASSUME MintAssumption ==
    /\ Decimals \in [Mints -> Nat]
    /\ Elsewhere \in [Wallets \X Mints -> Nat]
ASSUME CostAssumption == {MaxAmount, Fee, AtaRent, RentMin} \subseteq Nat
ASSUME NoneIsNoAccount == None \notin Nat \cup Wallets \cup Mints

Ledgers == [sol : [Wallets -> Nat],
            ata : [Wallets \X Mints -> Nat \cup {None}],
            ok  : BOOLEAN]

-------------------------------------------------------------------------------
(* The address is derived from the owner and the mint, and from them only. *)
AssociatedTokenAddress(owner, mint) == <<owner, mint>>

(* u64::try_from(amount); the variant is `as u64`. *)
Wrapped(amount) == [fits |-> TRUE, lamports |-> amount % (MaxAmount + 1)]
ToU64(amount) == [fits |-> amount <= MaxAmount, lamports |-> amount]

SystemTransfer(from, to, amount) ==
    [op |-> "transfer", signer |-> from, to |-> to, amount |-> amount]

(* Data byte 1, and the variant with data byte 0: create, and fail if the  *)
(* account exists.                                                         *)
CreateAta(funder, owner, mint, ata) ==
    [op |-> "create", signer |-> funder, owner |-> owner, mint |-> mint, ata |-> ata,
     idempotent |-> FALSE]
CreateAtaIdempotent(funder, owner, mint, ata) ==
    [op |-> "create", signer |-> funder, owner |-> owner, mint |-> mint, ata |-> ata,
     idempotent |-> TRUE]

TokenTransferChecked(source, mint, destination, owner, amount, decimals) ==
    [op |-> "checked", signer |-> owner, source |-> source, mint |-> mint,
     destination |-> destination, amount |-> amount, decimals |-> decimals]

Instruction ==
    [op : {"transfer"}, signer : Wallets, to : Wallets, amount : Nat]
      \cup [op : {"create"}, signer : Wallets, owner : Wallets, mint : Mints,
            ata : Wallets \X Mints, idempotent : BOOLEAN]
      \cup [op : {"checked"}, signer : Wallets, source : Wallets \X Mints, mint : Mints,
            destination : Wallets \X Mints, amount : Nat, decimals : Nat]
Message == [payer : Wallets, instructions : Seq(Instruction), blockhash : Nat]

-------------------------------------------------------------------------------
(* What the programs do: external. *)
Fail(l) == [l EXCEPT !.ok = FALSE]

(* From one account to another, which may be the same. *)
Move(accounts, from, to, amount) ==
    LET less == [accounts EXCEPT ![from] = @ - amount]
    IN  [less EXCEPT ![to] = @ + amount]

RunTransfer(l, i) ==
    IF l.sol[i.signer] >= i.amount
      THEN [l EXCEPT !.sol = Move(@, i.signer, i.to, i.amount)]
      ELSE Fail(l)

RunCreate(l, i) ==
    IF l.ata[i.ata] # None THEN IF i.idempotent THEN l ELSE Fail(l)
    ELSE IF l.sol[i.signer] >= AtaRent /\ i.ata = <<i.owner, i.mint>>
         THEN [l EXCEPT !.sol[i.signer] = @ - AtaRent, !.ata[i.ata] = 0]
         ELSE Fail(l)

RunChecked(l, i) ==
    IF /\ None \notin {l.ata[i.source], l.ata[i.destination]}
       /\ i.source = <<i.signer, i.mint>>
       /\ l.ata[i.source] >= i.amount
       /\ i.decimals = Decimals[i.mint]
      THEN [l EXCEPT !.ata = Move(@, i.source, i.destination, i.amount)]
      ELSE Fail(l)

Run(l, i) ==
    CASE ~l.ok -> l
      [] l.ok /\ i.op = "transfer" -> RunTransfer(l, i)
      [] l.ok /\ i.op = "create" -> RunCreate(l, i)
      [] l.ok /\ i.op = "checked" -> RunChecked(l, i)

(* The accounts that must sign a message, in the order of its header: the  *)
(* payer first.                                                            *)
Signers(m) ==
    LET marked == {m.instructions[j].signer : j \in DOMAIN m.instructions}
    IN  <<m.payer>> \o SetToSeq(marked \ {m.payer})

Fees(m) == Fee * Len(Signers(m))
Exempt(lamports) == lamports = 0 \/ lamports >= RentMin

(* The payer is charged first, and keeps being charged when an instruction *)
(* fails or leaves a wallet with too little; all else is then undone.      *)
Outcome(l, m) ==
    LET charged == [l EXCEPT !.sol[m.payer] = @ - Fees(m)]
        after == FoldLeft(Run, charged, m.instructions)
    IN  CASE l.sol[m.payer] = 0 -> [cause |-> "absent", ledger |-> l]
          [] 0 < l.sol[m.payer] /\ l.sol[m.payer] < Fees(m) -> [cause |-> "fee", ledger |-> l]
          [] l.sol[m.payer] > 0 /\ l.sol[m.payer] >= Fees(m) /\ ~ Exempt(charged.sol[m.payer]) ->
               [cause |-> "payer_rent", ledger |-> l]
          [] OTHER ->
               IF ~ after.ok THEN [cause |-> "instruction", ledger |-> charged]
               ELSE IF \E w \in Wallets : ~ Exempt(after.sol[w])
                    THEN [cause |-> "rent", ledger |-> charged]
                    ELSE [cause |-> "none", ledger |-> after]

-------------------------------------------------------------------------------
(* balance: lamports, or the sum over all token accounts of the owner and  *)
(* the mint.  The sum is taken in 128 bits, so that it cannot overflow.    *)
Associated(l, w, mint) ==
    LET tokens == l.ata[AssociatedTokenAddress(w, mint)]
    IN  IF tokens = None THEN 0 ELSE tokens

Balance(l, w, mint) ==
    IF mint = None THEN l.sol[w] ELSE Associated(l, w, mint) + Elsewhere[<<w, mint>>]
===============================================================================
