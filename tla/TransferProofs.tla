---------------------------- MODULE TransferProofs ----------------------------
(***************************************************************************)
(* Who is paid, what fails, who pays and what is recorded, for any number  *)
(* of calls, names, sales and blocks, and any mints and fee payer.         *)
(***************************************************************************)
EXTENDS Transfer, FiniteSetTheorems, SequenceTheorems, TLAPS

(* What NameOwnerPaid says of a message: it pays the holders h only. *)
Pays(m, h) ==
    \A j \in DOMAIN m.instructions :
      LET i == m.instructions[j] IN
        /\ i.op = "transfer" => i.to \in h
        /\ i.op = "checked" => i.destination \in h \X Mints

Shapes ==
    /\ owner \in [Domains -> Wallets \cup {None}]
    /\ stage \in [Calls -> Stages]
    /\ DOMAIN intent = Calls /\ DOMAIN recipient = Calls /\ DOMAIN held = Calls
    /\ DOMAIN unsigned = Calls /\ DOMAIN wire = Calls

(* What a call has by the await it has come to: while the name is looked   *)
(* up, its owner of the moment is among the holders; from then on the      *)
(* address is one of theirs, and so is whom the message pays.              *)
Progress(c) ==
    /\ stage[c] = "new" => wire[c] = None
    /\ stage[c] # "new" => intent[c] \in Intents
    /\ stage[c] = "resolve" => intent[c].to \in Names /\ OwnerNow(intent[c].to) \subseteq held[c]
    /\ stage[c] \in {"build", "decimals", "anchor"} => recipient[c] \in held[c]
    /\ stage[c] = "anchor" => intent[c].mint \in Mints \cup {None}
    /\ stage[c] = "sign" => Pays(unsigned[c].message, held[c])
    /\ wire[c] # None => Pays(wire[c].message, held[c])

PaidInv == Shapes /\ \A c \in Calls : Progress(c)

(* No call has begun. *)
LEMMA InitPaidInv == TransferInit => PaidInv
PROOF
BY DEF TransferInit, PaidInv, Shapes, Progress, Stages

(* A step of one call that leaves names alone only has to be looked at for *)
(* that call.                                                              *)
LEMMA OneCall ==
    ASSUME PaidInv, NEW c \in Calls, owner' = owner, Shapes', Progress(c)',
           \A d \in Calls \ {c} :
             /\ stage'[d] = stage[d] /\ intent'[d] = intent[d] /\ recipient'[d] = recipient[d]
             /\ held'[d] = held[d] /\ unsigned'[d] = unsigned[d] /\ wire'[d] = wire[d]
    PROVE  PaidInv'
PROOF
<1>1. ASSUME NEW d \in Calls \ {c}
      PROVE  Progress(d)'
  BY DEF PaidInv, Progress, Pays, OwnerNow, SnsDomainOwner
<1> QED
  BY <1>1 DEF PaidInv

(* The call begins with the holders of the moment. *)
LEMMA StartPays ==
    ASSUME PaidInv, NEW c \in Calls, NEW i \in Intents, Start(c, i)
    PROVE  PaidInv'
PROOF
<1>1. /\ stage[c] = "new" /\ wire[c] = None /\ wire' = wire /\ unsigned' = unsigned
      /\ owner' = owner /\ intent' = [intent EXCEPT ![c] = i]
  BY DEF Start, PaidInv, Progress
<1>2. intent'[c] = i
  BY <1>1 DEF PaidInv, Shapes
<1>3. CASE i.to \in Names
  <2>1. /\ stage' = [stage EXCEPT ![c] = "resolve"] /\ recipient' = recipient
        /\ held' = [held EXCEPT ![c] = OwnerNow(i.to)]
    BY <1>3 DEF Start, Goto
  <2>2. stage'[c] = "resolve" /\ held'[c] = OwnerNow(i.to) /\ OwnerNow(i.to)' = OwnerNow(i.to)
    BY <1>1, <2>1 DEF PaidInv, Shapes, OwnerNow, SnsDomainOwner
  <2>3. Progress(c)'
    BY <1>1, <1>2, <1>3, <2>2 DEF Progress, OwnerNow, SnsDomainOwner
  <2>4. Shapes'
    BY <1>1, <2>1 DEF PaidInv, Shapes, Stages
  <2> QED
    BY <1>1, <2>1, <2>3, <2>4, OneCall DEF PaidInv, Shapes
<1>4. CASE i.to \notin Names
  <2>1. /\ stage' = [stage EXCEPT ![c] = "build"]
        /\ recipient' = [recipient EXCEPT ![c] = i.to]
        /\ held' = [held EXCEPT ![c] = {i.to}]
    BY <1>4 DEF Start, Goto
  <2>2. stage'[c] = "build" /\ recipient'[c] = i.to /\ held'[c] = {i.to}
    BY <2>1 DEF PaidInv, Shapes
  <2>3. Progress(c)'
    BY <1>1, <1>2, <2>2 DEF Progress
  <2>4. Shapes'
    BY <1>1, <2>1 DEF PaidInv, Shapes, Stages
  <2> QED
    BY <1>1, <2>1, <2>3, <2>4, OneCall DEF PaidInv, Shapes
<1> QED
  BY <1>3, <1>4

(* A call that goes to a stage, or ends, without touching anything else    *)
(* this is about.                                                          *)
LEMMA MovesOn ==
    ASSUME PaidInv, NEW c \in Calls, NEW s \in Stages \ {"new", "resolve", "anchor", "sign"},
           stage[c] # "new", stage' = [stage EXCEPT ![c] = s],
           UNCHANGED <<owner, held, intent, recipient, unsigned, wire>>,
           s \in {"build", "decimals"} => stage[c] \in {"build", "decimals"}
    PROVE  PaidInv'
PROOF
<1>1. stage'[c] = s /\ \A d \in Calls \ {c} : stage'[d] = stage[d]
  BY DEF PaidInv, Shapes
<1>2. Shapes'
  BY DEF PaidInv, Shapes
<1>3. Progress(c)'
  BY <1>1 DEF PaidInv, Progress, Pays
<1> QED
  BY <1>1, <1>2, <1>3, OneCall

(* The owner the name has when it is looked up. *)
LEMMA ResolvePays ==
    ASSUME PaidInv, NEW c \in Calls, Resolve(c)
    PROVE  PaidInv'
PROOF
<1>1. /\ stage[c] = "resolve"
      /\ UNCHANGED <<owner, held, intent, unsigned, wire>>
  BY DEF Resolve, names
<1>2. CASE Registered(intent[c].to)
  <2>1. /\ recipient' = [recipient EXCEPT ![c] = SnsDomainOwner(intent[c].to)]
        /\ stage' = [stage EXCEPT ![c] = "build"]
    BY <1>2 DEF Resolve, Goto
  <2>2. SnsDomainOwner(intent[c].to) \in held[c]
    BY <1>1, <1>2 DEF PaidInv, Progress, Registered, OwnerNow
  <2>3. stage'[c] = "build" /\ recipient'[c] \in held[c]
    BY <2>1, <2>2 DEF PaidInv, Shapes
  <2>4. Progress(c)'
    BY <1>1, <2>3 DEF PaidInv, Progress, Pays
  <2>5. Shapes'
    BY <1>1, <2>1 DEF PaidInv, Shapes, Stages
  <2> QED
    BY <1>1, <2>1, <2>4, <2>5, OneCall DEF PaidInv, Shapes
<1>3. CASE ~ Registered(intent[c].to)
  <2>1. recipient' = recipient /\ stage' = [stage EXCEPT ![c] = "ended"]
    BY <1>3 DEF Resolve, End
  <2> QED
    BY <1>1, <2>1, MovesOn DEF Stages
<1> QED
  BY <1>2, <1>3

(* An intent that is accepted asks for SOL, or for its mint's decimals. *)
LEMMA CheckPays ==
    ASSUME PaidInv, NEW c \in Calls, Check(c)
    PROVE  PaidInv'
PROOF
<1>1. /\ stage[c] = "build"
      /\ UNCHANGED <<owner, held, intent, recipient, unsigned, wire>>
  BY DEF Check, names
<1>2. PICK s \in {"ended", "anchor", "decimals"} :
        /\ stage' = [stage EXCEPT ![c] = s]
        /\ s = "anchor" => intent[c].mint = None
  BY DEF Check, Goto, End
<1>3. CASE s # "anchor"
  BY <1>1, <1>2, <1>3, MovesOn DEF Stages
<1>4. CASE s = "anchor"
  <2>1. stage'[c] = "anchor" /\ \A d \in Calls \ {c} : stage'[d] = stage[d]
    BY <1>2, <1>4 DEF PaidInv, Shapes
  <2>2. Shapes'
    BY <1>1, <1>2, <1>4 DEF PaidInv, Shapes, Stages
  <2>3. Progress(c)'
    BY <1>1, <1>2, <1>4, <2>1 DEF PaidInv, Progress, Pays
  <2> QED
    BY <1>1, <2>1, <2>2, <2>3, OneCall
<1> QED
  BY <1>3, <1>4

(* What has decimals is a mint. *)
LEMMA ReadDecimalsPays ==
    ASSUME PaidInv, NEW c \in Calls, ReadDecimals(c)
    PROVE  PaidInv'
PROOF
<1>1. /\ stage[c] = "decimals"
      /\ UNCHANGED <<owner, held, intent, recipient, unsigned, wire>>
  BY DEF ReadDecimals, names
<1>2. CASE intent[c].mint \in Mints
  <2>1. stage' = [stage EXCEPT ![c] = "anchor"]
    BY <1>2 DEF ReadDecimals, Goto
  <2>2. stage'[c] = "anchor" /\ \A d \in Calls \ {c} : stage'[d] = stage[d]
    BY <2>1 DEF PaidInv, Shapes
  <2>3. Shapes'
    BY <1>1, <2>1 DEF PaidInv, Shapes, Stages
  <2>4. Progress(c)'
    BY <1>1, <1>2, <2>2 DEF PaidInv, Progress, Pays
  <2> QED
    BY <1>1, <2>2, <2>3, <2>4, OneCall
<1>3. CASE intent[c].mint \notin Mints
  <2>1. stage' = [stage EXCEPT ![c] = "ended"]
    BY <1>3 DEF ReadDecimals, End
  <2> QED
    BY <1>1, <2>1, MovesOn DEF Stages
<1> QED
  BY <1>2, <1>3

(* The instructions pay the address that was resolved. *)
LEMMA InstructionsPay ==
    ASSUME NEW c \in Calls, NEW h, recipient[c] \in h, intent[c].mint \in Mints \cup {None},
           NEW m, m.instructions = Instructions(c)
    PROVE  Pays(m, h)
PROOF
<1>1. CASE intent[c].mint = None
  BY <1>1 DEF Pays, Instructions, SystemTransfer
<1>2. CASE intent[c].mint \in Mints /\ intent[c].mint # None
  BY <1>2 DEF Pays, Instructions, CreateAtaIdempotent, TokenTransferChecked,
              AssociatedTokenAddress
<1> QED
  BY <1>1, <1>2

(* build answers with a message of these instructions. *)
LEMMA AnchorPays ==
    ASSUME PaidInv, NEW c \in Calls, Anchor(c)
    PROVE  PaidInv'
PROOF
<1> DEFINE m == [payer |-> Payer(c), instructions |-> Instructions(c),
                 blockhash |-> LatestBlockhash]
           u == UnsignedTx(m, IF sponsor = None THEN None ELSE Signature(sponsor, m))
<1>1. /\ stage[c] = "anchor" /\ unsigned' = [unsigned EXCEPT ![c] = u]
      /\ stage' = [stage EXCEPT ![c] = "sign"]
      /\ UNCHANGED <<owner, held, intent, recipient, wire>>
  BY DEF Anchor, Goto, names
<1>2. u.message = m /\ m.instructions = Instructions(c)
  BY DEF UnsignedTx
<1>3. recipient[c] \in held[c] /\ intent[c].mint \in Mints \cup {None}
  BY <1>1 DEF PaidInv, Progress
<1> HIDE DEF m, u
<1>4. Pays(u.message, held[c])
  BY <1>2, <1>3, InstructionsPay
<1>5. stage'[c] = "sign" /\ unsigned'[c] = u
      /\ \A d \in Calls \ {c} : stage'[d] = stage[d] /\ unsigned'[d] = unsigned[d]
  BY <1>1 DEF PaidInv, Shapes
<1>6. Shapes'
  BY <1>1 DEF PaidInv, Shapes, Stages
<1>7. Progress(c)'
  BY <1>1, <1>4, <1>5 DEF PaidInv, Progress, Pays
<1> QED
  BY <1>1, <1>5, <1>6, <1>7, OneCall

(* What is signed is the message that was built. *)
LEMMA SignedPays ==
    ASSUME PaidInv, NEW c \in Calls, Signed(c)
    PROVE  PaidInv'
PROOF
<1> DEFINE built == unsigned[c]
           x == [signatures |-> Assembled(built, Signature(intent[c].from, built.message)),
                 message |-> built.message]
<1>1. /\ stage[c] = "sign" /\ wire' = [wire EXCEPT ![c] = x]
      /\ stage' = [stage EXCEPT ![c] = "relay"]
      /\ UNCHANGED <<owner, held, intent, recipient, unsigned>>
  BY DEF Signed, Goto, names
<1>2. x.message = unsigned[c].message
  OBVIOUS
<1>3. Pays(unsigned[c].message, held[c])
  BY <1>1 DEF PaidInv, Progress
<1> HIDE DEF x
<1>4. stage'[c] = "relay" /\ wire'[c] = x
      /\ \A d \in Calls \ {c} : stage'[d] = stage[d] /\ wire'[d] = wire[d]
  BY <1>1 DEF PaidInv, Shapes
<1>5. Shapes'
  BY <1>1 DEF PaidInv, Shapes, Stages
<1>6. Progress(c)'
  BY <1>1, <1>2, <1>3, <1>4 DEF PaidInv, Progress, Pays
<1> QED
  BY <1>1, <1>4, <1>5, <1>6, OneCall

(* Who buys a name while it is looked up is one of its holders. *)
LEMMA SellPays ==
    ASSUME PaidInv, NEW l \in Labels, NEW w \in Wallets, Sell(l, w)
    PROVE  PaidInv'
PROOF
<1>1. /\ owner' = [owner EXCEPT ![DomainKey(l)] = w]
      /\ held' = [c \in Calls |->
                    IF stage[c] = "resolve" /\ intent[c].to.label = l
                      THEN held[c] \cup {w} ELSE held[c]]
      /\ UNCHANGED <<stage, intent, recipient, unsigned, wire>>
  BY DEF Sell, calls
<1>2. Shapes'
  BY <1>1 DEF PaidInv, Shapes
<1>3. ASSUME NEW c \in Calls
      PROVE  Progress(c)'
  <2>1. held[c] \subseteq held'[c]
    BY <1>1
  <2>2. stage[c] = "resolve" => OwnerNow(intent[c].to)' \subseteq held'[c]
    <3> SUFFICES ASSUME stage[c] = "resolve", intent[c].to.label \in Labels
                 PROVE  owner'[DomainKey(intent[c].to.label)] \in held'[c]
      BY <1>1 DEF OwnerNow, SnsDomainOwner
    <3>1. owner[DomainKey(intent[c].to.label)] \in held[c]
      BY DEF PaidInv, Progress, OwnerNow, SnsDomainOwner
    <3>2. CASE intent[c].to.label = l
      <4>1. owner'[DomainKey(l)] = w
        BY <1>1 DEF PaidInv, Shapes, Domains
      <4> QED
        BY <1>1, <3>2, <4>1
    <3>3. CASE intent[c].to.label # l
      <4>1. DomainKey(intent[c].to.label) # DomainKey(l)
        BY <3>3 DEF DomainKey
      <4>2. DomainKey(intent[c].to.label) \in Domains
        BY DEF Domains
      <4>3. owner'[DomainKey(intent[c].to.label)] = owner[DomainKey(intent[c].to.label)]
        BY <1>1, <4>1, <4>2 DEF PaidInv, Shapes
      <4> QED
        BY <2>1, <3>1, <4>3
    <3> QED
      BY <3>2, <3>3
  <2> QED
    BY <1>1, <2>1, <2>2 DEF PaidInv, Progress, Pays
<1> QED
  BY <1>2, <1>3 DEF PaidInv

(* Every step keeps the address of a call among the holders of its time. *)
LEMMA PaidStep ==
    ASSUME PaidInv, [TransferNext]_transferVars
    PROVE  PaidInv'
PROOF
<1>1. ASSUME UNCHANGED <<owner, held, stage, intent, recipient, unsigned, wire>>
      PROVE  PaidInv'
  BY <1>1 DEF PaidInv, Shapes, Progress, Pays, OwnerNow, SnsDomainOwner
<1>2. ASSUME NEW c \in Calls, CallStep(c)
      PROVE  PaidInv'
  <2>1. ASSUME NEW i \in Intents, Begin(c, i) \/ RunScript(c, i)
        PROVE  PaidInv'
    BY <2>1, StartPays DEF Begin, RunScript
  <2>2. CASE Sign(c) \/ SignInScript(c)
    BY <2>2, SignedPays DEF Sign, SignInScript
  <2>3. CASE Dismiss(c)
    <3>1. stage[c] = "sign" /\ stage' = [stage EXCEPT ![c] = "ended"]
          /\ UNCHANGED <<owner, held, intent, recipient, unsigned, wire>>
      BY <2>3 DEF Dismiss, End, names
    <3> QED
      BY <3>1, MovesOn DEF Stages
  <2>4. CASE Relay(c)
    <3>1. stage[c] = "relay" /\ UNCHANGED <<owner, held, intent, recipient, unsigned, wire>>
      BY <2>4 DEF Relay, names
    <3>2. stage' = [stage EXCEPT ![c] = "ended"] \/ stage' = [stage EXCEPT ![c] = "sent"]
      BY <2>4 DEF Relay, End
    <3> QED
      BY <3>1, <3>2, MovesOn DEF Stages
  <2>5. CASE CallBreaks(c)
    <3>1. stage[c] # "new" /\ stage' = [stage EXCEPT ![c] = "ended"]
          /\ UNCHANGED <<owner, held, intent, recipient, unsigned, wire>>
      BY <2>5 DEF CallBreaks, End, names
    <3> QED
      BY <3>1, MovesOn DEF Stages
  <2> QED
    BY <1>2, <2>1, <2>2, <2>3, <2>4, <2>5, ResolvePays, CheckPays, ReadDecimalsPays, AnchorPays
       DEF CallStep
<1>3. ASSUME NEW m \in pool, Execute(m)
      PROVE  PaidInv'
  BY <1>1, <1>3 DEF Execute, names, calls
<1>4. CASE NewBlock
  BY <1>1, <1>4 DEF NewBlock, names, calls
<1>5. CASE UNCHANGED transferVars
  BY <1>1, <1>5 DEF transferVars, names, calls
<1> QED
  BY <1>2, <1>3, <1>4, <1>5, SellPays DEF TransferNext

(* A name is paid to someone who owned it while the call resolved it.      *)
THEOREM OwnerIsPaid == TransferSpec => []NameOwnerPaid
PROOF
<1>1. PaidInv => NameOwnerPaid
  BY DEF PaidInv, Progress, Pays, NameOwnerPaid
<1>2. PaidInv /\ [TransferNext]_transferVars => PaidInv'
  BY PaidStep
<1> QED
  BY <1>1, <1>2, InitPaidInv, PTL DEF TransferSpec
-------------------------------------------------------------------------------
(* What the cluster makes of the message of an intent: i is the intent, to *)
(* the address it pays, p the payer of the message m.                      *)
Sound(i, to, p) ==
    /\ i.from \in Wallets /\ i.amount \in Nat /\ i.mint \in Mints \cup {None}
    /\ to \in Wallets /\ p \in Wallets

Asks(i, to, p) ==
    IF i.mint = None THEN <<SystemTransfer(i.from, to, i.amount)>>
    ELSE <<CreateAtaIdempotent(p, to, i.mint, <<to, i.mint>>),
           TokenTransferChecked(<<i.from, i.mint>>, i.mint, <<to, i.mint>>, i.from, i.amount,
                                Decimals[i.mint])>>

Carries(m, i, to, p) == Sound(i, to, p) /\ m.payer = p /\ m.instructions = Asks(i, to, p)

(* The instructions of a message, run one after the other.                 *)
RunAll(l, is) == FoldLeft(Run, l, is)

(* A fold over one instruction runs it.                                    *)
LEMMA FoldOne ==
    ASSUME NEW l, NEW i
    PROVE  RunAll(l, <<i>>) = Run(l, i)
PROOF
<1> DEFINE is == <<i>>
           body(f) == [s \in SUBSET DOMAIN is |->
                         IF s = {} THEN l ELSE Run(f[s \ {Max(s)}], is[Max(s)])]
           it == CHOOSE f : f = body(f)
           found == [s \in SUBSET {1} |-> IF s = {} THEN l ELSE Run(l, i)]
<1>1. RunAll(l, is) = it[DOMAIN is]
  BY DEF RunAll, FoldLeft, MapThenFoldSet
<1>2. DOMAIN is = {1} /\ is[1] = i
  OBVIOUS
<1>3. Max({1}) = 1
  BY DEF Max
<1>4. found = body(found)
  <2> HIDE DEF is
  <2>1. ASSUME NEW s \in SUBSET {1}  PROVE found[s] = body(found)[s]
    <3>1. CASE s = {}
      BY <3>1, <1>2
    <3>2. CASE s = {1}
      <4>1. s \ {Max(s)} = {} /\ is[Max(s)] = i
        BY <3>2, <1>2, <1>3
      <4> QED
        BY <3>2, <4>1, <1>2
    <3> QED
      BY <3>1, <3>2
  <2> QED
    BY <2>1, <1>2
<1>5. it = body(it)
  <2> HIDE DEF body
  <2> QED
    BY <1>4
<1>6. it[{}] = l /\ it[{1}] = Run(l, i)
  <2> HIDE DEF it, is
  <2>1. \A s \in SUBSET {1} : it[s] = IF s = {} THEN l ELSE Run(it[s \ {Max(s)}], is[Max(s)])
    BY <1>5, <1>2
  <2>2. it[{}] = l
    BY <2>1
  <2>3. {1} \ {Max({1})} = {} /\ is[Max({1})] = i /\ {1} # {}
    BY <1>2, <1>3
  <2> QED
    BY <2>1, <2>2, <2>3
<1> QED
  BY <1>1, <1>2, <1>6

(* A fold over two instructions runs one and then the other.               *)
LEMMA FoldTwo ==
    ASSUME NEW l, NEW i, NEW j
    PROVE  RunAll(l, <<i, j>>) = Run(Run(l, i), j)
PROOF
<1> DEFINE is == <<i, j>>
           body(f) == [s \in SUBSET DOMAIN is |->
                         IF s = {} THEN l ELSE Run(f[s \ {Max(s)}], is[Max(s)])]
           it == CHOOSE f : f = body(f)
           found == [s \in SUBSET {1, 2} |->
                       CASE s = {} -> l [] s = {1} -> Run(l, i)
                         [] s = {2} -> Run(l, j) [] OTHER -> Run(Run(l, i), j)]
<1>1. RunAll(l, is) = it[DOMAIN is]
  BY DEF RunAll, FoldLeft, MapThenFoldSet
<1>2. DOMAIN is = {1, 2} /\ is[1] = i /\ is[2] = j
  OBVIOUS
<1>3. Max({1}) = 1 /\ Max({2}) = 2 /\ Max({1, 2}) = 2
  BY DEF Max
<1>4. found = body(found)
  <2> HIDE DEF is
  <2>1. \A s \in SUBSET {1, 2} : s \in {{}, {1}, {2}, {1, 2}}
    OBVIOUS
  <2>2. ASSUME NEW s \in SUBSET {1, 2}  PROVE found[s] = body(found)[s]
    <3>1. CASE s = {}
      BY <3>1, <1>2
    <3>2. CASE s = {1}
      <4>1. s \ {Max(s)} = {} /\ is[Max(s)] = i
        BY <3>2, <1>2, <1>3
      <4> QED
        BY <3>2, <4>1, <1>2
    <3>3. CASE s = {2}
      <4>1. s \ {Max(s)} = {} /\ is[Max(s)] = j
        BY <3>3, <1>2, <1>3
      <4> QED
        BY <3>3, <4>1, <1>2
    <3>4. CASE s = {1, 2}
      <4>1. s \ {Max(s)} = {1} /\ is[Max(s)] = j
        BY <3>4, <1>2, <1>3
      <4> QED
        BY <3>4, <4>1, <1>2
    <3> QED
      BY <2>1, <3>1, <3>2, <3>3, <3>4
  <2> QED
    BY <2>2, <1>2
<1>5. it = body(it)
  <2> HIDE DEF body
  <2> QED
    BY <1>4
<1>6. it[{}] = l /\ it[{1}] = Run(l, i) /\ it[{1, 2}] = Run(Run(l, i), j)
  <2> HIDE DEF it, is
  <2>1. \A s \in SUBSET {1, 2} :
          it[s] = IF s = {} THEN l ELSE Run(it[s \ {Max(s)}], is[Max(s)])
    BY <1>5, <1>2
  <2>2. it[{}] = l
    BY <2>1
  <2>3. it[{1}] = Run(l, i)
    <3>1. {1} \ {Max({1})} = {} /\ is[Max({1})] = i /\ {1} # {}
      BY <1>2, <1>3
    <3> QED
      BY <3>1, <2>1, <2>2
  <2>4. it[{1, 2}] = Run(Run(l, i), j)
    <3>1. {1, 2} \ {Max({1, 2})} = {1} /\ is[Max({1, 2})] = j /\ {1, 2} # {}
      BY <1>2, <1>3
    <3> QED
      BY <3>1, <2>1, <2>3
  <2> QED
    BY <2>2, <2>3, <2>4
<1> QED
  BY <1>1, <1>2, <1>6

(* One signer and another make a pair.                                     *)
LEMMA PairOf ==
    ASSUME NEW a, NEW b
    PROVE  <<a>> \o <<b>> = <<a, b>>
PROOF
<1> DEFINE joined == <<a>> \o <<b>>
<1>1. <<a, b>> \in Seq({a, b}) /\ joined \in Seq({a, b})
  OBVIOUS
<1>2. Len(<<a, b>>) = 2 /\ Len(joined) = 2 /\ joined[1] = a /\ joined[2] = b
  OBVIOUS
<1>3. \A j \in 1..2 : joined[j] = <<a, b>>[j]
  <2> HIDE DEF joined
  <2>1. \A j \in 1..2 : j = 1 \/ j = 2
    OBVIOUS
  <2> QED
    BY <1>2, <2>1
<1> QED
  BY <1>1, <1>2, <1>3, SeqEqual

(* The payer signs, and the sender where it is not the payer.              *)
LEMMA SignersOf ==
    ASSUME NEW m, NEW i, NEW to, NEW p, Carries(m, i, to, p)
    PROVE  /\ Signers(m) = IF p = i.from THEN <<p>> ELSE <<p, i.from>>
           /\ Fees(m) = Fee * Cardinality({p, i.from})
           /\ Cardinality({p, i.from}) \in Nat
PROOF
<1> DEFINE marked == {m.instructions[j].signer : j \in DOMAIN m.instructions}
           rest == marked \ {p}
<1>1. marked \subseteq {p, i.from} /\ i.from \in marked
  <2>1. CASE i.mint = None
    BY <2>1 DEF Carries, Asks, SystemTransfer
  <2>2. CASE i.mint # None
    BY <2>2 DEF Carries, Asks, CreateAtaIdempotent, TokenTransferChecked
  <2> QED
    BY <2>1, <2>2
<1>2. Signers(m) = <<p>> \o SetToSeq(rest)
  BY DEF Signers, Carries
<1>3. CASE p = i.from
  <2>1. rest = {}
    BY <1>1, <1>3
  <2>2. SetToSeq({}) = << >>
    <3>1. Cardinality({}) = 0 /\ 1..0 = {}
      BY FS_EmptySet
    <3>2. << >> \in [1..Cardinality({}) -> {}] /\ IsInjective(<< >>)
      BY <3>1 DEF IsInjective
    <3>3. \A f \in [1..Cardinality({}) -> {}] : f = << >>
      BY <3>1
    <3> QED
      BY <3>2, <3>3 DEF SetToSeq
  <2>3. Signers(m) = <<p>>
    <3> HIDE DEF rest
    <3>1. Signers(m) = <<p>> \o << >>
      BY <1>2, <2>1, <2>2
    <3> QED
      BY <3>1
  <2>4. {p, i.from} = {p} /\ Cardinality({p}) = 1
    BY <1>3, FS_Singleton
  <2> QED
    BY <1>3, <2>3, <2>4, CostAssumption DEF Fees
<1>4. CASE p # i.from
  <2>1. rest = {i.from}
    BY <1>1, <1>4
  <2>2. SetToSeq({i.from}) = <<i.from>>
    <3>1. Cardinality({i.from}) = 1 /\ 1..1 = {1}
      BY FS_Singleton
    <3>2. <<i.from>> \in [1..1 -> {i.from}] /\ IsInjective(<<i.from>>)
      BY DEF IsInjective
    <3>3. \A f \in [1..1 -> {i.from}] : f = <<i.from>>
      BY <3>1
    <3> QED
      BY <3>1, <3>2, <3>3 DEF SetToSeq
  <2>3. Signers(m) = <<p, i.from>>
    <3> HIDE DEF rest
    <3>1. Signers(m) = <<p>> \o <<i.from>>
      BY <1>2, <2>1, <2>2
    <3> QED
      BY <3>1, PairOf
  <2>4. Cardinality({p, i.from}) = 2
    <3>1. Cardinality({i.from}) = 1 /\ IsFiniteSet({i.from})
      BY FS_Singleton
    <3>2. Cardinality({i.from} \cup {p}) = 2
      BY <3>1, <1>4, FS_AddElement
    <3>3. {i.from} \cup {p} = {p, i.from}
      OBVIOUS
    <3> QED
      BY <3>2, <3>3
  <2> QED
    BY <1>4, <2>3, <2>4 DEF Fees
<1> QED
  BY <1>3, <1>4

(* What leaves one account comes to the other.                             *)
LEMMA MoveMoves ==
    ASSUME NEW S, NEW f \in [S -> Nat \cup {None}], NEW from \in S, NEW to \in S,
           NEW a \in Nat, f[from] \in Nat, f[to] \in Nat, f[from] >= a
    PROVE  /\ Move(f, from, to, a) \in [S -> Nat \cup {None}]
           /\ \A x \in S : Move(f, from, to, a)[x] =
                IF x \notin {from, to} \/ from = to THEN f[x]
                ELSE IF x = from THEN f[x] - a ELSE f[x] + a
PROOF
<1> DEFINE less == [f EXCEPT ![from] = f[from] - a]
<1>1. f[from] - a \in Nat
  OBVIOUS
<1>2. /\ less \in [S -> Nat \cup {None}]
      /\ \A x \in S : less[x] = IF x = from THEN f[from] - a ELSE f[x]
  BY <1>1
<1>3. Move(f, from, to, a) = [less EXCEPT ![to] = less[to] + a]
  BY DEF Move
<1> HIDE DEF less
<1>4. less[to] + a \in Nat /\ (from = to => less[to] + a = f[to])
  BY <1>2
<1> QED
  BY <1>2, <1>3, <1>4

(* A ledger has lamports of every wallet and its token accounts, which an  *)
(* instruction replaces.                                                   *)
LEMMA LedgerParts ==
    ASSUME NEW l \in Ledgers
    PROVE  /\ l.sol \in [Wallets -> Nat]
           /\ l.ata \in [Wallets \X Mints -> Nat \cup {None}]
           /\ \A w \in Wallets : l.sol[w] \in Nat
           /\ \A h \in Wallets \X Mints : l.ata[h] \in Nat \cup {None}
PROOF
<1>1. /\ l.sol \in [Wallets -> Nat]
      /\ l.ata \in [Wallets \X Mints -> Nat \cup {None}]
  BY DEF Ledgers
<1> QED
  BY <1>1

(* An instruction that replaces the lamports leaves the rest.              *)
LEMMA SetLamports ==
    ASSUME NEW l \in Ledgers, NEW s \in [Wallets -> Nat], NEW r, r = [l EXCEPT !.sol = s]
    PROVE  r \in Ledgers /\ r.sol = s /\ r.ata = l.ata /\ r.ok = l.ok
PROOF
  BY DEF Ledgers

(* A failed instruction fails the message.                                 *)
LEMMA Failing ==
    ASSUME NEW l \in Ledgers
    PROVE  Fail(l).ok = FALSE
PROOF
  BY DEF Ledgers, Fail

(* SystemProgram: lamports from the sender to the recipient, who may be    *)
(* the same.                                                               *)
LEMMA TransferRuns ==
    ASSUME NEW l \in Ledgers, l.ok, NEW from \in Wallets, NEW to \in Wallets, NEW a \in Nat
    PROVE  LET after == Run(l, SystemTransfer(from, to, a)) IN
             /\ after.ok => l.sol[from] >= a
             /\ l.sol[from] >= a =>
                  /\ after \in Ledgers /\ after.ok /\ after.ata = l.ata
                  /\ \A w \in Wallets : after.sol[w] =
                       IF w \notin {from, to} \/ from = to THEN l.sol[w]
                       ELSE IF w = from THEN l.sol[w] - a ELSE l.sol[w] + a
PROOF
<1> DEFINE i == SystemTransfer(from, to, a)
<1>1. i.op = "transfer" /\ i.signer = from /\ i.to = to /\ i.amount = a
  BY DEF SystemTransfer
<1> HIDE DEF i
<1>2. Run(l, i) = RunTransfer(l, i)
  BY <1>1 DEF Run
<1>3. CASE l.sol[from] >= a
  <2> DEFINE s == Move(l.sol, from, to, a)
  <2>1. Run(l, i) = [l EXCEPT !.sol = s]
    BY <1>1, <1>2, <1>3 DEF RunTransfer
  <2>2. l.sol \in [Wallets -> Nat \cup {None}] /\ \A w \in Wallets : l.sol[w] \in Nat
    BY LedgerParts
  <2>3. l.sol[from] \in Nat /\ l.sol[to] \in Nat /\ l.sol[from] >= a
    BY <1>3, <2>2
  <2>4. /\ s \in [Wallets -> Nat \cup {None}]
        /\ \A w \in Wallets : s[w] =
             IF w \notin {from, to} \/ from = to THEN l.sol[w]
             ELSE IF w = from THEN l.sol[w] - a ELSE l.sol[w] + a
    BY <2>2, <2>3, MoveMoves
  <2> HIDE DEF s
  <2>5. \A w \in Wallets : s[w] \in Nat
    BY <1>3, <2>2, <2>4
  <2>6. s \in [Wallets -> Nat]
    BY <2>4, <2>5
  <2>7. Run(l, i) \in Ledgers /\ Run(l, i).sol = s /\ Run(l, i).ata = l.ata /\ Run(l, i).ok
    BY <2>1, <2>6, SetLamports
  <2> QED
    BY <1>3, <2>4, <2>7 DEF i
<1>4. CASE ~ l.sol[from] >= a
  <2>1. Run(l, i) = Fail(l)
    BY <1>1, <1>2, <1>4 DEF RunTransfer
  <2> QED
    BY <1>4, <2>1, Failing DEF i
<1> QED
  BY <1>3, <1>4

(* The idempotent creation: nothing where there is an account, and else the *)
(* rent from the funder.                                                   *)
LEMMA CreateRuns ==
    ASSUME NEW l \in Ledgers, l.ok, NEW p \in Wallets, NEW to \in Wallets, NEW mint \in Mints
    PROVE  LET after == Run(l, CreateAtaIdempotent(p, to, mint, <<to, mint>>))
               opened == l.ata[<<to, mint>>] = None
           IN  /\ after.ok => (opened => l.sol[p] >= AtaRent)
               /\ (opened => l.sol[p] >= AtaRent) =>
                    /\ after \in Ledgers /\ after.ok
                    /\ \A w \in Wallets : after.sol[w] =
                         l.sol[w] - (IF w = p /\ opened THEN AtaRent ELSE 0)
                    /\ \A h \in Wallets \X Mints : after.ata[h] =
                         IF h = <<to, mint>> /\ opened THEN 0 ELSE l.ata[h]
               /\ ~ after.ok => after = Fail(l)
PROOF
<1> DEFINE i == CreateAtaIdempotent(p, to, mint, <<to, mint>>)
<1>1. /\ i.op = "create" /\ i.signer = p /\ i.owner = to /\ i.mint = mint
      /\ i.ata = <<to, mint>> /\ i.idempotent
  BY DEF CreateAtaIdempotent
<1> HIDE DEF i
<1>2. Run(l, i) = RunCreate(l, i)
  BY <1>1 DEF Run
<1>3. CASE l.ata[<<to, mint>>] # None
  <2>1. Run(l, i) = l
    BY <1>1, <1>2, <1>3 DEF RunCreate
  <2>2. \A w \in Wallets : l.sol[w] = l.sol[w] - 0
    BY LedgerParts
  <2> QED
    BY <1>3, <2>1, <2>2 DEF i
<1>4. CASE l.ata[<<to, mint>>] = None /\ l.sol[p] >= AtaRent
  <2> DEFINE s == [l.sol EXCEPT ![p] = l.sol[p] - AtaRent]
             t == [l.ata EXCEPT ![<<to, mint>>] = 0]
  <2>1. Run(l, i) = [l EXCEPT !.sol[p] = @ - AtaRent, !.ata[<<to, mint>>] = 0]
    BY <1>1, <1>2, <1>4 DEF RunCreate
  <2>2. Run(l, i).sol = s /\ Run(l, i).ata = t /\ Run(l, i).ok /\ Run(l, i) \in Ledgers
    <3>1. <<to, mint>> \in Wallets \X Mints
      OBVIOUS
    <3> DEFINE h == <<to, mint>>
    <3> HIDE DEF h
    <3>2. Run(l, i) = [l EXCEPT !.sol[p] = @ - AtaRent, !.ata[h] = 0] /\ h \in Wallets \X Mints
      BY <2>1, <3>1 DEF h
    <3>3. Run(l, i).ok
      BY <3>2 DEF Ledgers
    <3>4. Run(l, i).sol = s
      BY <3>2 DEF Ledgers
    <3>5. Run(l, i).ata = t
      BY <3>2 DEF Ledgers, h
    <3>6. Run(l, i) = [sol |-> Run(l, i).sol, ata |-> Run(l, i).ata, ok |-> Run(l, i).ok]
      BY <3>2 DEF Ledgers
    <3>7. l.sol[p] - AtaRent \in Nat
      <4>1. l.sol[p] \in Nat /\ AtaRent \in Nat
        BY LedgerParts, CostAssumption
      <4> QED
        BY <1>4, <4>1
    <3>8. s \in [Wallets -> Nat] /\ t \in [Wallets \X Mints -> Nat \cup {None}]
      BY <3>7, LedgerParts
    <3> HIDE DEF s, t
    <3>9. Run(l, i) \in Ledgers
      BY <3>3, <3>4, <3>5, <3>6, <3>8 DEF Ledgers
    <3> QED
      BY <3>3, <3>4, <3>5, <3>9
  <2>3. \A w \in Wallets : s[w] = l.sol[w] - (IF w = p THEN AtaRent ELSE 0)
    BY LedgerParts
  <2>4. \A h \in Wallets \X Mints : t[h] = IF h = <<to, mint>> THEN 0 ELSE l.ata[h]
    BY LedgerParts
  <2> HIDE DEF s, t
  <2> QED
    BY <1>4, <2>2, <2>3, <2>4 DEF i
<1>5. CASE l.ata[<<to, mint>>] = None /\ ~ l.sol[p] >= AtaRent
  <2>1. Run(l, i) = Fail(l)
    BY <1>1, <1>2, <1>5 DEF RunCreate
  <2> QED
    BY <1>5, <2>1, Failing DEF i
<1> QED
  BY <1>3, <1>4, <1>5

(* TransferChecked with the mint's own decimals.                           *)
Holds(l, from, to, mint, a) ==
    /\ l.ata[<<from, mint>>] # None /\ l.ata[<<to, mint>>] # None
    /\ l.ata[<<from, mint>>] >= a
Sends(l, from, to, mint, a, after) ==
    /\ after \in Ledgers /\ after.ok /\ after.sol = l.sol
    /\ \A h \in Wallets \X Mints : after.ata[h] =
         IF h \notin {<<from, mint>>, <<to, mint>>} \/ from = to THEN l.ata[h]
         ELSE IF h = <<from, mint>> THEN l.ata[h] - a ELSE l.ata[h] + a

(* Where both accounts are there and the source has the tokens, they move. *)
LEMMA CheckedRuns ==
    ASSUME NEW l \in Ledgers, l.ok, NEW from \in Wallets, NEW to \in Wallets,
           NEW mint \in Mints, NEW a \in Nat, NEW after,
           after = Run(l, TokenTransferChecked(<<from, mint>>, mint, <<to, mint>>, from, a,
                                               Decimals[mint]))
    PROVE  /\ after.ok => Holds(l, from, to, mint, a)
           /\ Holds(l, from, to, mint, a) => Sends(l, from, to, mint, a, after)
PROOF
<1> DEFINE i == TokenTransferChecked(<<from, mint>>, mint, <<to, mint>>, from, a, Decimals[mint])
           goes == Holds(l, from, to, mint, a)
<1>1. /\ i.op = "checked" /\ i.signer = from /\ i.source = <<from, mint>> /\ i.mint = mint
      /\ i.destination = <<to, mint>> /\ i.amount = a /\ i.decimals = Decimals[mint]
  BY DEF TokenTransferChecked
<1> HIDE DEF i
<1>2. Run(l, i) = RunChecked(l, i)
  BY <1>1 DEF Run
<1>3. CASE goes
  <2> DEFINE t == Move(l.ata, <<from, mint>>, <<to, mint>>, a)
  <2>1. Run(l, i) = [l EXCEPT !.ata = t]
    BY <1>1, <1>2, <1>3 DEF RunChecked, Holds
  <2>2. l.ata \in [Wallets \X Mints -> Nat \cup {None}]
    BY LedgerParts
  <2>3. l.ata[<<from, mint>>] \in Nat /\ l.ata[<<to, mint>>] \in Nat
    BY <1>3, <2>2 DEF Holds
  <2>4. /\ t \in [Wallets \X Mints -> Nat \cup {None}]
        /\ \A h \in Wallets \X Mints : t[h] =
             IF h \notin {<<from, mint>>, <<to, mint>>} \/ <<from, mint>> = <<to, mint>>
               THEN l.ata[h]
             ELSE IF h = <<from, mint>> THEN l.ata[h] - a ELSE l.ata[h] + a
    <3> DEFINE source == <<from, mint>>
               destination == <<to, mint>>
    <3>1. /\ source \in Wallets \X Mints /\ destination \in Wallets \X Mints
          /\ l.ata[source] \in Nat /\ l.ata[destination] \in Nat /\ l.ata[source] >= a
      BY <1>3, <2>3 DEF Holds
    <3> HIDE DEF source, destination
    <3>2. /\ Move(l.ata, source, destination, a) \in [Wallets \X Mints -> Nat \cup {None}]
          /\ \A h \in Wallets \X Mints : Move(l.ata, source, destination, a)[h] =
               IF h \notin {source, destination} \/ source = destination THEN l.ata[h]
               ELSE IF h = source THEN l.ata[h] - a ELSE l.ata[h] + a
      BY <2>2, <3>1, MoveMoves
    <3> QED
      BY <3>2 DEF source, destination
  <2>5. <<from, mint>> = <<to, mint>> <=> from = to
    OBVIOUS
  <2> HIDE DEF t
  <2>6. t \in [Wallets \X Mints -> Nat \cup {None}]
    BY <2>4
  <2>7. Run(l, i) \in Ledgers /\ Run(l, i).ata = t /\ Run(l, i).sol = l.sol /\ Run(l, i).ok
    BY <2>1, <2>6 DEF Ledgers
  <2> QED
    BY <1>3, <2>4, <2>5, <2>7 DEF i, Sends
<1>4. CASE ~ goes
  <2>1. Run(l, i) = Fail(l)
    BY <1>1, <1>2, <1>4 DEF RunChecked, Holds
  <2>2. ~ Run(l, i).ok
    BY <2>1, Failing
  <2> QED
    BY <1>4, <2>2 DEF i
<1> QED
  BY <1>3, <1>4

(* What a message asks for goes through where the funds suffice, and what  *)
(* every wallet and token account has then.                                *)
Opens(l, i, to) == i.mint # None /\ l.ata[<<to, i.mint>>] = None
Has(l, i, to, h) == IF Opens(l, i, to) /\ h = <<to, i.mint>> THEN 0 ELSE l.ata[h]

Suffices(l, i, to, p) ==
    IF i.mint = None THEN l.sol[i.from] >= i.amount
    ELSE LET has == Has(l, i, to, <<i.from, i.mint>>) IN
         /\ Opens(l, i, to) => l.sol[p] >= AtaRent
         /\ has # None /\ has >= i.amount

Paid(i, to, w) == IF i.mint = None /\ w = to THEN i.amount ELSE 0
Pay(i, w) == IF i.mint = None /\ w = i.from THEN i.amount ELSE 0
Rent(l, i, to, p, w) == IF w = p /\ Opens(l, i, to) THEN AtaRent ELSE 0
Tokens(l, i, to, h) ==
    IF i.mint = None \/ i.from = to \/ h \notin {<<i.from, i.mint>>, <<to, i.mint>>}
      THEN Has(l, i, to, h)
    ELSE IF h = <<i.from, i.mint>> THEN Has(l, i, to, h) - i.amount
         ELSE Has(l, i, to, h) + i.amount

Done(l, i, to, p, after) ==
    /\ after \in Ledgers
    /\ \A w \in Wallets :
         after.sol[w] = l.sol[w] - Rent(l, i, to, p, w) - Pay(i, w) + Paid(i, to, w)
    /\ \A h \in Wallets \X Mints : after.ata[h] = Tokens(l, i, to, h)

(* A message for SOL goes through when the sender has the amount.          *)
LEMMA AskedOfLamports ==
    ASSUME NEW l \in Ledgers, l.ok, NEW i, NEW to, NEW p, Sound(i, to, p), i.mint = None
    PROVE  LET after == RunAll(l, Asks(i, to, p)) IN
             /\ after.ok => Suffices(l, i, to, p)
             /\ Suffices(l, i, to, p) => after.ok /\ Done(l, i, to, p, after)
PROOF
<1> DEFINE after == RunAll(l, Asks(i, to, p))
<1>1. after = Run(l, SystemTransfer(i.from, to, i.amount))
  BY FoldOne DEF Asks
<1> HIDE DEF after
<1>2. /\ after.ok => l.sol[i.from] >= i.amount
      /\ l.sol[i.from] >= i.amount =>
           /\ after \in Ledgers /\ after.ok /\ after.ata = l.ata
           /\ \A w \in Wallets : after.sol[w] =
                IF w \notin {i.from, to} \/ i.from = to THEN l.sol[w]
                ELSE IF w = i.from THEN l.sol[w] - i.amount ELSE l.sol[w] + i.amount
  BY <1>1, TransferRuns DEF Sound
<1>3. Suffices(l, i, to, p) <=> l.sol[i.from] >= i.amount
  BY DEF Suffices
<1>4. ASSUME Suffices(l, i, to, p)
      PROVE  Done(l, i, to, p, after)
  <2>1. ASSUME NEW w \in Wallets
        PROVE  after.sol[w] = l.sol[w] - Rent(l, i, to, p, w) - Pay(i, w) + Paid(i, to, w)
    <3>1. l.sol[w] \in Nat /\ i.amount \in Nat
      BY LedgerParts DEF Sound
    <3>2. after.sol[w] = IF w \notin {i.from, to} \/ i.from = to THEN l.sol[w]
                         ELSE IF w = i.from THEN l.sol[w] - i.amount ELSE l.sol[w] + i.amount
      BY <1>2, <1>3, <1>4
    <3>3. Rent(l, i, to, p, w) = 0
      BY DEF Rent, Opens
    <3> QED
      BY <3>1, <3>2, <3>3 DEF Pay, Paid
  <2>2. ASSUME NEW h \in Wallets \X Mints
        PROVE  after.ata[h] = Tokens(l, i, to, h)
    BY <1>2, <1>3, <1>4 DEF Tokens, Has, Opens
  <2> QED
    BY <1>2, <1>3, <1>4, <2>1, <2>2 DEF Done
<1> QED
  BY <1>2, <1>3, <1>4 DEF after

(* A message for tokens goes through when the funder has the rent of an    *)
(* account that is not there and the sender has the tokens; the create     *)
(* comes first, so that the tokens have somewhere to go.                   *)
LEMMA AskedOfTokens ==
    ASSUME NEW l \in Ledgers, l.ok, NEW i, NEW to, NEW p, Sound(i, to, p), i.mint # None
    PROVE  LET after == RunAll(l, Asks(i, to, p)) IN
             /\ after.ok => Suffices(l, i, to, p)
             /\ Suffices(l, i, to, p) => after.ok /\ Done(l, i, to, p, after)
PROOF
<1> DEFINE mint == i.mint
           open == Run(l, CreateAtaIdempotent(p, to, mint, <<to, mint>>))
           pay == TokenTransferChecked(<<i.from, mint>>, mint, <<to, mint>>, i.from, i.amount,
                                       Decimals[mint])
           after == RunAll(l, Asks(i, to, p))
<1>1. after = Run(open, pay)
  <2> DEFINE create == CreateAtaIdempotent(p, to, mint, <<to, mint>>)
  <2>1. Asks(i, to, p) = <<create, pay>>
    BY DEF Asks
  <2> HIDE DEF create, pay
  <2>2. RunAll(l, <<create, pay>>) = Run(Run(l, create), pay)
    BY FoldTwo
  <2> QED
    BY <2>1, <2>2 DEF create
<1>2. mint \in Mints /\ i.from \in Wallets /\ to \in Wallets /\ p \in Wallets /\ i.amount \in Nat
  BY DEF Sound
<1>3. /\ open.ok => (Opens(l, i, to) => l.sol[p] >= AtaRent)
      /\ (Opens(l, i, to) => l.sol[p] >= AtaRent) =>
           /\ open \in Ledgers /\ open.ok
           /\ \A w \in Wallets : open.sol[w] = l.sol[w] - Rent(l, i, to, p, w)
           /\ \A h \in Wallets \X Mints : open.ata[h] = Has(l, i, to, h)
      /\ ~ open.ok => open = Fail(l)
  BY <1>2, CreateRuns DEF Opens, Rent, Has
<1> HIDE DEF open, after
<1>4. CASE ~ open.ok
  <2>1. after = open
    BY <1>1, <1>4 DEF Run
  <2>2. ~ Suffices(l, i, to, p)
    BY <1>3, <1>4 DEF Suffices
  <2> QED
    BY <1>4, <2>1, <2>2 DEF after
<1>5. CASE open.ok
  <2>1. /\ open \in Ledgers
        /\ \A w \in Wallets : open.sol[w] = l.sol[w] - Rent(l, i, to, p, w)
        /\ \A h \in Wallets \X Mints : open.ata[h] = Has(l, i, to, h)
    BY <1>3, <1>5
  <2> DEFINE goes == Holds(open, i.from, to, mint, i.amount)
  <2>2. (after.ok => goes) /\ (goes => Sends(open, i.from, to, mint, i.amount, after))
    BY <1>1, <1>2, <1>5, <2>1, CheckedRuns
  <2>3. goes <=> Suffices(l, i, to, p)
    <3>1. <<i.from, mint>> \in Wallets \X Mints /\ <<to, mint>> \in Wallets \X Mints
      BY <1>2
    <3>2. /\ open.ata[<<i.from, mint>>] = Has(l, i, to, <<i.from, mint>>)
          /\ open.ata[<<to, mint>>] = Has(l, i, to, <<to, mint>>)
      BY <2>1, <3>1
    <3>3. Has(l, i, to, <<to, mint>>) # None
      BY NoneIsNoAccount DEF Has, Opens
    <3> QED
      BY <1>3, <1>5, <3>2, <3>3 DEF Suffices, Holds
  <2>4. ASSUME goes
        PROVE  Done(l, i, to, p, after)
    <3>1. ASSUME NEW w \in Wallets
          PROVE  after.sol[w] = l.sol[w] - Rent(l, i, to, p, w) - Pay(i, w) + Paid(i, to, w)
      <4>1. Pay(i, w) = 0 /\ Paid(i, to, w) = 0
        BY DEF Pay, Paid
      <4>2. l.sol[w] \in Nat /\ Rent(l, i, to, p, w) \in Nat
        BY LedgerParts, CostAssumption DEF Rent
      <4> QED
        BY <2>1, <2>2, <2>4, <4>1, <4>2 DEF Sends
    <3>2. ASSUME NEW h \in Wallets \X Mints
          PROVE  after.ata[h] = Tokens(l, i, to, h)
      BY <2>1, <2>2, <2>4 DEF Tokens, Sends
    <3> QED
      BY <2>2, <2>4, <3>1, <3>2 DEF Done, Sends
  <2> HIDE DEF goes
  <2> QED
    BY <2>2, <2>3, <2>4 DEF after, goes, Sends
<1> QED
  BY <1>4, <1>5

(* What a block does to a ledger l with the message of an intent, by the   *)
(* cause for which it fails.                                               *)
FeeOf(i, p, w) == IF w = p THEN Fee * Cardinality({p, i.from}) ELSE 0
Unpaid == {"absent", "fee", "payer_rent"}
Failed == {"rent", "instruction"}

Effect(l, i, to, p, o) ==
    /\ o.cause \in Unpaid \cup Failed \cup {"none"}
    /\ o.ledger \in Ledgers /\ o.ledger.ok
    /\ o.cause \in Unpaid => o.ledger = l
    /\ o.cause \in Failed =>
         /\ o.ledger.ata = l.ata
         /\ \A w \in Wallets : o.ledger.sol[w] = l.sol[w] - FeeOf(i, p, w)
    /\ o.cause = "none" =>
         /\ \A w \in Wallets : o.ledger.sol[w] =
              l.sol[w] - FeeOf(i, p, w) - Rent(l, i, to, p, w) - Pay(i, w) + Paid(i, to, w)
         /\ \A h \in Wallets \X Mints : o.ledger.ata[h] = Tokens(l, i, to, h)
         /\ i.mint # None =>
              /\ Has(l, i, to, <<i.from, i.mint>>) # None
              /\ Has(l, i, to, <<i.from, i.mint>>) >= i.amount

(* Fees, rent and amounts are not negative.                                *)
LEMMA AmountsAreNat ==
    ASSUME NEW l \in Ledgers, NEW i, NEW to, NEW p, Sound(i, to, p), NEW w \in Wallets
    PROVE  /\ l.sol[w] \in Nat /\ Rent(l, i, to, p, w) \in Nat /\ FeeOf(i, p, w) \in Nat
           /\ Pay(i, w) \in Nat /\ Paid(i, to, w) \in Nat
PROOF
<1>1. l.sol[w] \in Nat /\ i.amount \in Nat
  BY LedgerParts DEF Sound
<1>2. Cardinality({p, i.from}) \in Nat /\ Fee \in Nat /\ AtaRent \in Nat
  <2>1. IsFiniteSet({p, i.from})
    <3>1. IsFiniteSet({i.from})
      BY FS_Singleton
    <3>2. IsFiniteSet({i.from} \cup {p})
      BY <3>1, FS_AddElement
    <3>3. {i.from} \cup {p} = {p, i.from}
      OBVIOUS
    <3> QED
      BY <3>2, <3>3
  <2> QED
    BY <2>1, FS_CardinalityType, CostAssumption
<1> DEFINE k == Cardinality({p, i.from})
<1>3. Fee * k \in Nat
  <2> HIDE DEF k
  <2>1. \A a, b \in Nat : a * b \in Nat
    OBVIOUS
  <2> QED
    BY <1>2, <2>1 DEF k
<1> QED
  BY <1>1, <1>2, <1>3 DEF Rent, FeeOf, Pay, Paid

(* The ledger less the fees of a message.                                  *)
Charged(l, m) == [l EXCEPT !.sol[m.payer] = @ - Fees(m)]

(* Charged, the payer has its fees less, and nothing else is different.    *)
LEMMA Charging ==
    ASSUME NEW l \in Ledgers, l.ok, NEW m, NEW i, NEW to, NEW p, Carries(m, i, to, p),
           l.sol[p] >= Fees(m), NEW c, c = Charged(l, m)
    PROVE  /\ c \in Ledgers /\ c.ok /\ c.ata = l.ata
           /\ \A w \in Wallets : c.sol[w] = l.sol[w] - FeeOf(i, p, w)
PROOF
<1> DEFINE fees == Fees(m)
           s == [l.sol EXCEPT ![p] = l.sol[p] - fees]
<1>1. m.payer = p /\ p \in Wallets /\ Sound(i, to, p)
  BY DEF Carries, Sound
<1>2. fees = Fee * Cardinality({p, i.from})
  BY SignersOf
<1>3. fees = FeeOf(i, p, p) /\ l.sol[p] \in Nat /\ fees \in Nat
  BY <1>1, <1>2, AmountsAreNat DEF FeeOf
<1> HIDE DEF fees
<1>4. l.sol[p] - fees \in Nat
  BY <1>3 DEF fees
<1>5. s \in [Wallets -> Nat]
  BY <1>1, <1>4, LedgerParts
<1>6. \A w \in Wallets : s[w] = l.sol[w] - FeeOf(i, p, w)
  BY <1>1, <1>3, LedgerParts DEF FeeOf
<1>7. c = [l EXCEPT !.sol[p] = l.sol[p] - fees]
  BY <1>1 DEF fees, Charged
<1>8. c.sol = s
  BY <1>7 DEF Ledgers
<1>9. c.ata = l.ata /\ c.ok
  BY <1>7 DEF Ledgers
<1>10. c = [sol |-> c.sol, ata |-> c.ata, ok |-> c.ok]
  BY <1>7 DEF Ledgers
<1> HIDE DEF s
<1>11. c \in Ledgers
  BY <1>5, <1>8, <1>9, <1>10, LedgerParts DEF Ledgers
<1> QED
  BY <1>6, <1>8, <1>9, <1>11

(* The tokens are not touched by the fees.                                 *)
LEMMA SameTokens ==
    ASSUME NEW l, NEW c, c.ata = l.ata, NEW i, NEW to, NEW p
    PROVE  /\ Opens(c, i, to) = Opens(l, i, to)
           /\ \A h : Has(c, i, to, h) = Has(l, i, to, h) /\ Tokens(c, i, to, h) = Tokens(l, i, to, h)
           /\ \A w : Rent(c, i, to, p, w) = Rent(l, i, to, p, w)
PROOF
  BY DEF Opens, Has, Tokens, Rent

(* Run on the charged ledger, the message does all or fails.               *)
LEMMA AskedOf ==
    ASSUME NEW l \in Ledgers, l.ok, NEW i, NEW to, NEW p, Sound(i, to, p), NEW after,
           after = RunAll(l, Asks(i, to, p))
    PROVE  /\ after.ok => Suffices(l, i, to, p)
           /\ Suffices(l, i, to, p) => after.ok /\ Done(l, i, to, p, after)
PROOF
  BY AskedOfLamports, AskedOfTokens

(* The outcome of the message of an intent has the effect of the intent.   *)
LEMMA OutcomeIs ==
    ASSUME NEW l \in Ledgers, l.ok, NEW m, NEW i, NEW to, NEW p, Carries(m, i, to, p)
    PROVE  Effect(l, i, to, p, Outcome(l, m))
PROOF
<1> DEFINE c == Charged(l, m)
           after == RunAll(c, m.instructions)
           o == Outcome(l, m)
<1>1. /\ m.payer = p /\ p \in Wallets /\ m.instructions = Asks(i, to, p) /\ Sound(i, to, p)
      /\ l.sol[p] \in Nat /\ Fees(m) \in Nat
  <2>1. Sound(i, to, p) /\ p \in Wallets /\ m.payer = p /\ m.instructions = Asks(i, to, p)
    BY DEF Carries, Sound
  <2>2. Fees(m) = FeeOf(i, p, p)
    BY SignersOf DEF FeeOf
  <2> QED
    BY <2>1, <2>2, AmountsAreNat
<1>2. o = CASE l.sol[m.payer] = 0 -> [cause |-> "absent", ledger |-> l]
            [] 0 < l.sol[m.payer] /\ l.sol[m.payer] < Fees(m) -> [cause |-> "fee", ledger |-> l]
            [] l.sol[m.payer] > 0 /\ l.sol[m.payer] >= Fees(m) /\ ~ Exempt(c.sol[m.payer]) ->
                 [cause |-> "payer_rent", ledger |-> l]
            [] OTHER ->
                 IF ~ after.ok THEN [cause |-> "instruction", ledger |-> c]
                 ELSE IF \E w \in Wallets : ~ Exempt(after.sol[w])
                      THEN [cause |-> "rent", ledger |-> c]
                      ELSE [cause |-> "none", ledger |-> after]
  BY DEF Outcome, RunAll, Charged
<1> HIDE DEF o, after, c
<1>3. CASE \/ l.sol[p] = 0 \/ (0 < l.sol[p] /\ l.sol[p] < Fees(m))
           \/ (l.sol[p] > 0 /\ l.sol[p] >= Fees(m) /\ ~ Exempt(c.sol[p]))
  <2>1. o.ledger = l /\ o.cause \in Unpaid
    BY <1>1, <1>2, <1>3 DEF Unpaid
  <2>2. o.cause \notin Failed /\ o.cause # "none"
    BY <2>1 DEF Unpaid, Failed
  <2> QED
    BY <2>1, <2>2 DEF Effect, o
<1>4. CASE l.sol[p] > 0 /\ l.sol[p] >= Fees(m) /\ Exempt(c.sol[p])
  <2>1. /\ c \in Ledgers /\ c.ok /\ c.ata = l.ata
        /\ \A w \in Wallets : c.sol[w] = l.sol[w] - FeeOf(i, p, w)
    BY <1>4, Charging DEF c
  <2>2. o = IF ~ after.ok THEN [cause |-> "instruction", ledger |-> c]
            ELSE IF \E w \in Wallets : ~ Exempt(after.sol[w])
                 THEN [cause |-> "rent", ledger |-> c]
                 ELSE [cause |-> "none", ledger |-> after]
    BY <1>1, <1>2, <1>4
  <2>3. CASE o.cause # "none"
    <3>1. o.ledger = c /\ o.cause \in Failed
      BY <2>2, <2>3 DEF Failed
    <3>2. o.cause \notin Unpaid
      BY <3>1 DEF Unpaid, Failed
    <3> QED
      BY <2>1, <2>3, <3>1, <3>2 DEF Effect, o
  <2>4. CASE o.cause = "none"
    <3>1. after.ok /\ o.ledger = after
      BY <2>2, <2>4
    <3>2. Suffices(c, i, to, p) /\ Done(c, i, to, p, after)
      BY <1>1, <2>1, <3>1, AskedOf DEF after
    <3>3. /\ Opens(c, i, to) = Opens(l, i, to)
          /\ \A h : Has(c, i, to, h) = Has(l, i, to, h) /\ Tokens(c, i, to, h) = Tokens(l, i, to, h)
          /\ \A w : Rent(c, i, to, p, w) = Rent(l, i, to, p, w)
      BY <2>1, SameTokens
    <3>4. \A w \in Wallets : after.sol[w] =
            l.sol[w] - FeeOf(i, p, w) - Rent(l, i, to, p, w) - Pay(i, w) + Paid(i, to, w)
      BY <2>1, <3>2, <3>3 DEF Done
    <3>5. \A h \in Wallets \X Mints : after.ata[h] = Tokens(l, i, to, h)
      BY <3>2, <3>3 DEF Done
    <3>6. i.mint # None =>
            /\ Has(l, i, to, <<i.from, i.mint>>) # None
            /\ Has(l, i, to, <<i.from, i.mint>>) >= i.amount
      BY <3>2, <3>3 DEF Suffices
    <3>7. o.cause \notin Unpaid /\ o.cause \notin Failed
      BY <2>4 DEF Unpaid, Failed
    <3> QED
      BY <2>4, <3>1, <3>2, <3>4, <3>5, <3>6, <3>7 DEF Effect, Done, o
  <2> QED
    BY <2>3, <2>4
<1> QED
  BY <1>1, <1>3, <1>4

(* Funds that cover an intent make its message succeed.                    *)
LEMMA CoveredSucceeds ==
    ASSUME ledger \in Ledgers, ledger.ok, NEW m, NEW i, NEW to, NEW p, Carries(m, i, to, p),
           Covered(i, to, p)
    PROVE  Outcome(ledger, m).cause = "none"
PROOF
<1> DEFINE l == ledger
           c == Charged(l, m)
           after == RunAll(c, m.instructions)
<1>1. /\ m.payer = p /\ p \in Wallets /\ m.instructions = Asks(i, to, p) /\ Sound(i, to, p)
      /\ i.from \in Wallets /\ to \in Wallets /\ i.amount \in Nat
  BY DEF Carries, Sound
<1>2. Fees(m) = FeeOf(i, p, p) /\ Fee * Cardinality({p, i.from}) = FeeOf(i, p, p)
  BY SignersOf DEF FeeOf
<1>3. \A w \in Wallets :
        /\ Due(i, to, p)[w] = FeeOf(i, p, w) + Rent(l, i, to, p, w) + Pay(i, w)
        /\ l.sol[w] \in Nat /\ Rent(l, i, to, p, w) \in Nat /\ FeeOf(i, p, w) \in Nat
        /\ Pay(i, w) \in Nat /\ Paid(i, to, w) \in Nat
  BY <1>1, AmountsAreNat DEF Due, FeeOf, Rent, Opens, Pay
<1>4. /\ l.sol[p] > FeeOf(i, p, p) /\ Exempt(l.sol[p] - FeeOf(i, p, p))
      /\ \A w \in Wallets : /\ Due(i, to, p)[w] <= l.sol[w]
                            /\ Exempt(l.sol[w] - Due(i, to, p)[w] + Paid(i, to, w))
      /\ i.mint # None => /\ l.ata[<<i.from, i.mint>>] # None
                          /\ l.ata[<<i.from, i.mint>>] >= i.amount
  <2> HIDE DEF l
  <2> QED
    BY <1>2 DEF Covered, Paid, l
<1> HIDE DEF l
<1>5. l.sol[p] > 0 /\ l.sol[p] >= Fees(m)
  BY <1>1, <1>2, <1>3, <1>4
<1>6. l \in Ledgers /\ l.ok
  BY DEF l
<1>7. /\ c \in Ledgers /\ c.ok /\ c.ata = l.ata
      /\ \A w \in Wallets : c.sol[w] = l.sol[w] - FeeOf(i, p, w)
  BY <1>5, <1>6, Charging
<1>8. Outcome(l, m) =
        CASE l.sol[m.payer] = 0 -> [cause |-> "absent", ledger |-> l]
          [] 0 < l.sol[m.payer] /\ l.sol[m.payer] < Fees(m) -> [cause |-> "fee", ledger |-> l]
          [] l.sol[m.payer] > 0 /\ l.sol[m.payer] >= Fees(m) /\ ~ Exempt(c.sol[m.payer]) ->
               [cause |-> "payer_rent", ledger |-> l]
          [] OTHER ->
               IF ~ after.ok THEN [cause |-> "instruction", ledger |-> c]
               ELSE IF \E w \in Wallets : ~ Exempt(after.sol[w])
                    THEN [cause |-> "rent", ledger |-> c]
                    ELSE [cause |-> "none", ledger |-> after]
  BY DEF Outcome, RunAll, Charged
<1>9. /\ Opens(c, i, to) = Opens(l, i, to)
      /\ \A h : Has(c, i, to, h) = Has(l, i, to, h) /\ Tokens(c, i, to, h) = Tokens(l, i, to, h)
      /\ \A w : Rent(c, i, to, p, w) = Rent(l, i, to, p, w)
  <2> HIDE DEF c
  <2> QED
    BY <1>7, SameTokens
<1> HIDE DEF c, after
<1>10. Suffices(c, i, to, p)
  <2>1. CASE i.mint = None
    <3>1. Pay(i, i.from) = i.amount
      BY <2>1 DEF Pay
    <3>2. c.sol[i.from] >= i.amount
      BY <1>1, <1>3, <1>4, <1>7, <3>1
    <3> QED
      BY <2>1, <3>2 DEF Suffices
  <2>2. CASE i.mint # None
    <3>1. Opens(l, i, to) => c.sol[p] >= AtaRent
      <4>1. Opens(l, i, to) => Rent(l, i, to, p, p) = AtaRent
        BY DEF Rent
      <4> QED
        BY <1>1, <1>3, <1>4, <1>7, <4>1, CostAssumption
    <3>2. /\ Has(l, i, to, <<i.from, i.mint>>) # None
          /\ Has(l, i, to, <<i.from, i.mint>>) >= i.amount
      BY <1>4, <2>2 DEF Has, Opens
    <3> QED
      BY <1>9, <2>2, <3>1, <3>2 DEF Suffices
  <2> QED
    BY <2>1, <2>2
<1>11. after.ok /\ Done(c, i, to, p, after)
  BY <1>1, <1>7, <1>10, AskedOf DEF after
<1>12. ASSUME NEW w \in Wallets
       PROVE  Exempt(after.sol[w])
  <2>1. after.sol[w] = l.sol[w] - Due(i, to, p)[w] + Paid(i, to, w)
    BY <1>3, <1>7, <1>9, <1>11 DEF Done
  <2> QED
    BY <1>4, <2>1
<1>13. Exempt(c.sol[p])
  BY <1>1, <1>4, <1>7
<1>14. Outcome(l, m).cause = "none"
  <2>1. Outcome(l, m) = IF ~ after.ok THEN [cause |-> "instruction", ledger |-> c]
                        ELSE IF \E w \in Wallets : ~ Exempt(after.sol[w])
                             THEN [cause |-> "rent", ledger |-> c]
                             ELSE [cause |-> "none", ledger |-> after]
    <3>1. l.sol[p] # 0 /\ ~ (0 < l.sol[p] /\ l.sol[p] < Fees(m)) /\ Exempt(c.sol[m.payer])
      <4>1. l.sol[p] \in Nat /\ Fees(m) \in Nat
        BY <1>1, <1>2, <1>3
      <4> QED
        BY <1>1, <1>5, <1>13, <4>1
    <3> QED
      BY <1>1, <1>8, <3>1
  <2> QED
    BY <1>11, <1>12, <2>1
<1> QED
  BY <1>14 DEF l
-------------------------------------------------------------------------------
(* What a call has by the await it has come to: an intent; an address once *)
(* the name is resolved; all that goes into the message once build has     *)
(* checked it; the very message of its intent from there on, signed by     *)
(* those it names as signers, and recorded as what it pays.                *)
PayerFor(i) == IF sponsor = None THEN i.from ELSE sponsor

Ready(i, to, decimals) ==
    /\ Sound(i, to, PayerFor(i)) /\ i.amount <= MaxAmount
    /\ i.mint # None => decimals = Decimals[i.mint]
Built(i, to, m) == m \in Message /\ Carries(m, i, to, PayerFor(i))
SignedBy(i, m) ==
    IF sponsor = None THEN <<Signature(i.from, m)>>
    ELSE <<Signature(sponsor, m), Signature(i.from, m)>>

Asked(c) ==
    /\ stage[c] = "new" => wire[c] = None
    /\ stage[c] # "new" => intent[c] \in Intents
    /\ stage[c] # "new" /\ c \in Scripts => intent[c].mint = None
    /\ stage[c] \notin {"sent", "ended"} => answer[c] = "none"
    /\ stage[c] = "resolve" => intent[c].to \in Names
    /\ stage[c] \in {"build", "decimals", "anchor", "sign"} =>
         recipient[c] \in Wallets \cup {Garbage}
    /\ stage[c] = "decimals" =>
         recipient[c] # Garbage /\ intent[c].amount <= MaxAmount /\ intent[c].mint # None

Composed(c) ==
    /\ stage[c] \in {"anchor", "sign", "relay", "sent"} => Ready(intent[c], recipient[c], scale[c])
    /\ stage[c] = "sign" =>
         LET built == unsigned[c] IN
         /\ Built(intent[c], recipient[c], built.message)
         /\ built.cosignature = IF sponsor = None THEN None ELSE Signature(sponsor, built.message)
    /\ stage[c] \in {"relay", "sent"} => wire[c] # None
    /\ wire[c] # None =>
         /\ stage[c] \in {"relay", "sent", "ended"}
         /\ Ready(intent[c], recipient[c], scale[c])
         /\ Built(intent[c], recipient[c], wire[c].message)
         /\ wire[c].signatures = SignedBy(intent[c], wire[c].message)
         /\ row[c] = RecordedAs(c)

Typed ==
    /\ ledger \in Ledgers /\ ledger.ok
    /\ sponsor \in FeePayers
    /\ owner \in [Domains -> Wallets \cup {None}]
    /\ sales \in 0..MaxSales /\ height \in 0..MaxHeight
    /\ stage \in [Calls -> Stages] /\ answer \in [Calls -> Answers]
    /\ intent \in [Calls -> Intents \cup {None}]
    /\ recipient \in [Calls -> Addresses]
    /\ scale \in [Calls -> Nat \cup {None}]
    /\ wire \in [Calls -> SignedTx \cup {None}]
    /\ held \in [Calls -> SUBSET Addresses]
    /\ DOMAIN unsigned = Calls /\ DOMAIN row = Calls

(* What a node has taken was signed in a call, and is in a block or not.   *)
Taken ==
    /\ pool \cup executed \subseteq Messages
    /\ failed \subseteq executed /\ pool \cap executed = {}

TransferInv == Typed /\ Taken /\ \A c \in Calls : Asked(c) /\ Composed(c)

(* The instructions of a call that is ready are those its intent asks for, *)
(* and make a message.                                                     *)
LEMMA AsksAreInstructions ==
    ASSUME NEW i, NEW to, NEW p, Sound(i, to, p)
    PROVE  Asks(i, to, p) \in Seq(Instruction)
PROOF
<1>1. CASE i.mint = None
  <2>1. SystemTransfer(i.from, to, i.amount) \in Instruction
    BY DEF Sound, SystemTransfer, Instruction
  <2> QED
    BY <1>1, <2>1 DEF Asks
<1>2. CASE i.mint # None
  <2> DEFINE create == CreateAtaIdempotent(p, to, i.mint, <<to, i.mint>>)
             pay == TokenTransferChecked(<<i.from, i.mint>>, i.mint, <<to, i.mint>>, i.from,
                                         i.amount, Decimals[i.mint])
  <2>1. i.mint \in Mints /\ Decimals[i.mint] \in Nat
    BY <1>2, MintAssumption DEF Sound
  <2>2. create \in Instruction
    BY <2>1 DEF Sound, CreateAtaIdempotent, Instruction
  <2>3. pay \in Instruction
    BY <2>1 DEF Sound, TokenTransferChecked, Instruction
  <2>4. Asks(i, to, p) = <<create, pay>>
    BY <1>2 DEF Asks
  <2> HIDE DEF create, pay
  <2> QED
    BY <2>2, <2>3, <2>4
<1> QED
  BY <1>1, <1>2

(* build_transfer makes of a call what its intent asks for.                *)
LEMMA InstructionsAsk ==
    ASSUME NEW c \in Calls, Ready(intent[c], recipient[c], scale[c])
    PROVE  /\ Payer(c) = PayerFor(intent[c])
           /\ Instructions(c) = Asks(intent[c], recipient[c], PayerFor(intent[c]))
PROOF
<1>1. Payer(c) = PayerFor(intent[c])
  BY DEF Payer, PayerFor
<1>2. ToU64(intent[c].amount).lamports = intent[c].amount
  BY DEF ToU64
<1>3. CASE intent[c].mint = None
  BY <1>1, <1>2, <1>3 DEF Instructions, Asks
<1>4. CASE intent[c].mint # None
  <2>1. scale[c] = Decimals[intent[c].mint]
    BY <1>4 DEF Ready
  <2> QED
    BY <1>1, <1>2, <1>4, <2>1 DEF Instructions, Asks, AssociatedTokenAddress, Funder
<1> QED
  BY <1>1, <1>3, <1>4

(* No call has begun.                                                      *)
LEMMA InitTransferInv == TransferInit => TransferInv
PROOF
<1> SUFFICES ASSUME TransferInit  PROVE TransferInv
  OBVIOUS
<1>1. Typed
  <2>1. 0 \in 0..MaxSales /\ 0 \in 0..MaxHeight
    BY BlockAssumption
  <2>2. ledger \in Ledgers /\ ledger.ok /\ sales \in 0..MaxSales /\ height \in 0..MaxHeight
    BY <2>1, OpeningAssumption DEF TransferInit
  <2>3. /\ stage \in [Calls -> Stages] /\ answer \in [Calls -> Answers]
        /\ held \in [Calls -> SUBSET Addresses]
    BY DEF TransferInit, Stages, Answers
  <2>4. /\ intent \in [Calls -> Intents \cup {None}] /\ recipient \in [Calls -> Addresses]
        /\ scale \in [Calls -> Nat \cup {None}] /\ wire \in [Calls -> SignedTx \cup {None}]
    BY DEF TransferInit, Addresses
  <2> QED
    BY <2>2, <2>3, <2>4 DEF TransferInit, Typed
<1>2. Taken
  BY DEF TransferInit, Taken
<1>3. ASSUME NEW c \in Calls  PROVE Asked(c) /\ Composed(c)
  BY DEF TransferInit, Asked, Composed
<1> QED
  BY <1>1, <1>2, <1>3 DEF TransferInv

(* A step of one call has to be looked at for that call only.              *)
LEMMA OneCallBuilds ==
    ASSUME TransferInv, NEW c \in Calls, sponsor' = sponsor,
           Typed', Taken', Asked(c)', Composed(c)',
           \A d \in Calls \ {c} :
             /\ stage'[d] = stage[d] /\ intent'[d] = intent[d] /\ recipient'[d] = recipient[d]
             /\ scale'[d] = scale[d] /\ unsigned'[d] = unsigned[d] /\ wire'[d] = wire[d]
             /\ row'[d] = row[d] /\ answer'[d] = answer[d]
    PROVE  TransferInv'
PROOF
<1>1. ASSUME NEW d \in Calls \ {c}
      PROVE  Asked(d)' /\ Composed(d)'
  <2>1. Asked(d) /\ Composed(d)
    BY DEF TransferInv
  <2>2. Asked(d)'
    BY <2>1 DEF Asked
  <2>3. Composed(d)'
    BY <2>1 DEF Composed, Ready, Built, SignedBy, PayerFor, RecordedAs, Carries
  <2> QED
    BY <2>2, <2>3
<1> QED
  BY <1>1 DEF TransferInv

(* What was signed stays signed.                                           *)
LEMMA TakenStays ==
    ASSUME Taken, UNCHANGED <<pool, executed, failed>>,
           \A c \in Calls : wire[c] # None => wire'[c] = wire[c]
    PROVE  Taken'
PROOF
  BY DEF Taken, Messages

(* A call that has begun ends.                                             *)
LEMMA EndBuilds ==
    ASSUME TransferInv, NEW c \in Calls, stage[c] # "new", NEW kind \in Answers, End(c, kind),
           UNCHANGED <<chain, sponsor, names, intent, recipient, scale, unsigned, wire, row>>
    PROVE  TransferInv'
PROOF
<1>1. /\ stage' = [stage EXCEPT ![c] = "ended"] /\ answer' = [answer EXCEPT ![c] = kind]
      /\ UNCHANGED <<ledger, height, pool, executed, failed, sponsor, owner, sales, held>>
      /\ UNCHANGED <<intent, recipient, scale, unsigned, wire, row>>
  BY DEF End, chain, names
<1>2. Typed'
  BY <1>1 DEF TransferInv, Typed, Stages
<1>3. Taken'
  BY <1>1, TakenStays DEF TransferInv
<1>4. stage'[c] = "ended" /\ \A d \in Calls \ {c} : stage'[d] = stage[d] /\ answer'[d] = answer[d]
  BY <1>1 DEF TransferInv, Typed
<1>5. Asked(c) /\ Composed(c)
  BY DEF TransferInv
<1>6. Asked(c)'
  BY <1>1, <1>4, <1>5 DEF Asked
<1>7. Composed(c)'
  BY <1>1, <1>4, <1>5 DEF Composed, Ready, Built, SignedBy, PayerFor, RecordedAs, Carries
<1> QED
  BY <1>1, <1>2, <1>3, <1>4, <1>6, <1>7, OneCallBuilds

(* A call begins with an intent.                                           *)
LEMMA StartBuilds ==
    ASSUME TransferInv, NEW c \in Calls, NEW i \in Intents, Start(c, i),
           c \in Scripts => i.mint = None
    PROVE  TransferInv'
PROOF
<1>1. /\ stage[c] = "new" /\ intent' = [intent EXCEPT ![c] = i] /\ answer' = answer
      /\ UNCHANGED <<ledger, height, pool, executed, failed, sponsor, owner, sales>>
      /\ UNCHANGED <<scale, unsigned, wire, row>>
  BY DEF Start, Goto, chain
<1>2. Asked(c) /\ Composed(c) /\ Typed /\ Taken
  BY DEF TransferInv
<1>3. Taken'
  BY <1>1, <1>2, TakenStays
<1>4. /\ intent'[c] = i /\ wire'[c] = None /\ answer'[c] = "none"
      /\ \A d \in Calls \ {c} : intent'[d] = intent[d]
  BY <1>1, <1>2 DEF Typed, Asked
<1>5. i.to \in Wallets \cup Names \cup {Garbage}
  BY IntentAssumption DEF TransferIntent
<1>6. CASE i.to \in Names
  <2>1. /\ stage' = [stage EXCEPT ![c] = "resolve"] /\ recipient' = recipient
        /\ held' = [held EXCEPT ![c] = OwnerNow(i.to)]
    BY <1>6 DEF Start, Goto
  <2>2. OwnerNow(i.to) \subseteq Addresses
    BY <1>2 DEF Typed, OwnerNow, SnsDomainOwner, Domains, Addresses
  <2>3. Typed'
    BY <1>1, <1>2, <2>1, <2>2 DEF Typed, Stages
  <2>4. stage'[c] = "resolve" /\ \A d \in Calls \ {c} : stage'[d] = stage[d]
    BY <1>2, <2>1 DEF Typed
  <2>5. Asked(c)' /\ Composed(c)'
    BY <1>4, <1>6, <2>4 DEF Asked, Composed
  <2> QED
    BY <1>1, <1>3, <1>4, <2>1, <2>3, <2>4, <2>5, OneCallBuilds
<1>7. CASE i.to \notin Names
  <2>1. /\ stage' = [stage EXCEPT ![c] = "build"]
        /\ recipient' = [recipient EXCEPT ![c] = i.to]
        /\ held' = [held EXCEPT ![c] = {i.to}]
    BY <1>7 DEF Start, Goto
  <2>2. i.to \in Wallets \cup {Garbage} /\ i.to \in Addresses /\ {i.to} \subseteq Addresses
    BY <1>5, <1>7 DEF Addresses
  <2>3. Typed'
    BY <1>1, <1>2, <2>1, <2>2 DEF Typed, Stages
  <2>4. /\ stage'[c] = "build" /\ recipient'[c] = i.to
        /\ \A d \in Calls \ {c} : stage'[d] = stage[d] /\ recipient'[d] = recipient[d]
    BY <1>2, <2>1 DEF Typed
  <2>5. Asked(c)' /\ Composed(c)'
    BY <1>4, <2>2, <2>4 DEF Asked, Composed
  <2> QED
    BY <1>1, <1>3, <1>4, <2>1, <2>3, <2>4, <2>5, OneCallBuilds
<1> QED
  BY <1>6, <1>7

(* The owner of a registered name is a wallet.                             *)
LEMMA ResolveBuilds ==
    ASSUME TransferInv, NEW c \in Calls, Resolve(c)
    PROVE  TransferInv'
PROOF
<1>1. /\ stage[c] = "resolve"
      /\ UNCHANGED <<chain, sponsor, names, intent, scale, unsigned, wire, row>>
  BY DEF Resolve
<1>2. CASE ~ Registered(intent[c].to)
  <2>1. End(c, "invalid_recipient") /\ UNCHANGED recipient
    BY <1>2 DEF Resolve
  <2> QED
    BY <1>1, <2>1, EndBuilds DEF Answers
<1>3. CASE Registered(intent[c].to)
  <2> DEFINE w == SnsDomainOwner(intent[c].to)
  <2>1. /\ recipient' = [recipient EXCEPT ![c] = w] /\ stage' = [stage EXCEPT ![c] = "build"]
        /\ answer' = answer
        /\ UNCHANGED <<ledger, height, pool, executed, failed, owner, sales, held>>
    BY <1>1, <1>3 DEF Resolve, Goto, chain, names
  <2>2. Asked(c) /\ Composed(c) /\ Typed /\ Taken
    BY DEF TransferInv
  <2>3. w \in Wallets
    BY <1>3, <2>2 DEF Registered, SnsDomainOwner, Typed, Domains
  <2> HIDE DEF w
  <2>4. Typed'
    BY <1>1, <2>1, <2>2, <2>3 DEF Typed, Stages, Addresses
  <2>5. Taken'
    BY <1>1, <2>1, <2>2, TakenStays
  <2>6. /\ stage'[c] = "build" /\ recipient'[c] = w
        /\ \A d \in Calls \ {c} : stage'[d] = stage[d] /\ recipient'[d] = recipient[d]
    BY <2>1, <2>2 DEF Typed
  <2>7. wire[c] = None
    BY <1>1, <2>2 DEF Composed
  <2>8. Asked(c)' /\ Composed(c)'
    BY <1>1, <2>1, <2>2, <2>3, <2>6, <2>7 DEF Asked, Composed
  <2> QED
    BY <1>1, <2>1, <2>4, <2>5, <2>6, <2>8, OneCallBuilds
<1> QED
  BY <1>2, <1>3

(* What an intent and the fee payer are.                                   *)
LEMMA IntentParts ==
    ASSUME Typed, NEW i \in Intents
    PROVE  /\ i.from \in Wallets /\ i.amount \in Nat /\ PayerFor(i) \in Wallets
           /\ i.mint \in Mints \cup Wallets \cup {None, Garbage}
           /\ i.from # FeePayer
PROOF
  BY IntentAssumption, AddressAssumption, PaymasterAssumption
     DEF TransferIntent, Typed, FeePayers, PayerFor

(* What build accepts has a wallet to pay, and an amount that fits.        *)
LEMMA CheckBuilds ==
    ASSUME TransferInv, NEW c \in Calls, Check(c)
    PROVE  TransferInv'
PROOF
<1> DEFINE i == intent[c]
           rejection == Rejection(i, recipient[c])
<1>1. /\ stage[c] = "build"
      /\ UNCHANGED <<chain, sponsor, names, intent, recipient, scale, unsigned, wire, row>>
  BY DEF Check
<1>2. Asked(c) /\ Composed(c) /\ Typed /\ Taken
  BY DEF TransferInv
<1>3. CASE rejection # "none"
  <2>1. End(c, rejection)
    BY <1>3 DEF Check
  <2>2. rejection \in Answers
    BY <1>3 DEF Rejection, Answers
  <2> QED
    BY <1>1, <2>1, <2>2, EndBuilds
<1>4. CASE rejection = "none"
  <2> DEFINE s == IF i.mint = None THEN "anchor" ELSE "decimals"
  <2>1. stage' = [stage EXCEPT ![c] = s] /\ answer' = answer
    BY <1>4 DEF Check, Goto
  <2>2. UNCHANGED <<ledger, height, pool, executed, failed, owner, sales, held>>
    BY <1>1 DEF chain, names
  <2>3. recipient[c] # Garbage /\ i.amount <= MaxAmount
    BY <1>4 DEF Rejection, ToU64
  <2>4. i \in Intents /\ recipient[c] \in Wallets
    BY <1>1, <1>2, <2>3 DEF Asked
  <2>5. i.mint = None => Ready(i, recipient[c], scale[c])
    BY <1>2, <2>3, <2>4, IntentParts DEF Ready, Sound
  <2> HIDE DEF rejection, i
  <2>6. Typed'
    BY <1>1, <1>2, <2>1, <2>2 DEF Typed, Stages
  <2>7. Taken'
    BY <1>1, <1>2, <2>2, TakenStays
  <2>8. stage'[c] = s /\ \A d \in Calls \ {c} : stage'[d] = stage[d]
    BY <1>2, <2>1 DEF Typed
  <2>9. wire[c] = None
    BY <1>1, <1>2 DEF Composed
  <2>10. Asked(c)'
    BY <1>1, <1>2, <2>1, <2>3, <2>4, <2>8, <2>9 DEF Asked, i
  <2>11. Composed(c)'
    BY <1>1, <1>2, <2>1, <2>3, <2>5, <2>8, <2>9 DEF Composed, i, Ready, PayerFor, Sound
  <2> QED
    BY <1>1, <2>1, <2>6, <2>7, <2>8, <2>10, <2>11, OneCallBuilds
<1> QED
  BY <1>3, <1>4

(* What has decimals is a mint, and they are those of the message.         *)
LEMMA ReadDecimalsBuilds ==
    ASSUME TransferInv, NEW c \in Calls, ReadDecimals(c)
    PROVE  TransferInv'
PROOF
<1> DEFINE i == intent[c]
<1>1. /\ stage[c] = "decimals"
      /\ UNCHANGED <<chain, sponsor, names, intent, recipient, unsigned, wire, row>>
  BY DEF ReadDecimals
<1>2. CASE i.mint \notin Mints
  <2>1. End(c, "bad_request") /\ UNCHANGED scale
    BY <1>2 DEF ReadDecimals
  <2> QED
    BY <1>1, <2>1, EndBuilds DEF Answers
<1>3. CASE i.mint \in Mints
  <2>1. /\ scale' = [scale EXCEPT ![c] = Decimals[i.mint]]
        /\ stage' = [stage EXCEPT ![c] = "anchor"] /\ answer' = answer
        /\ UNCHANGED <<ledger, height, pool, executed, failed, owner, sales, held>>
    BY <1>1, <1>3 DEF ReadDecimals, Goto, chain, names
  <2>2. Asked(c) /\ Composed(c) /\ Typed /\ Taken
    BY DEF TransferInv
  <2>3. i \in Intents /\ recipient[c] \in Wallets /\ i.amount <= MaxAmount
    BY <1>1, <2>2 DEF Asked
  <2>4. Ready(i, recipient[c], Decimals[i.mint])
    BY <1>3, <2>2, <2>3, IntentParts DEF Ready, Sound
  <2>5. Decimals[i.mint] \in Nat
    BY <1>3, MintAssumption
  <2> HIDE DEF i
  <2>6. Typed'
    BY <1>1, <2>1, <2>2, <2>5 DEF Typed, Stages
  <2>7. Taken'
    BY <1>1, <2>1, <2>2, TakenStays
  <2>8. /\ stage'[c] = "anchor" /\ scale'[c] = Decimals[i.mint]
        /\ \A d \in Calls \ {c} : stage'[d] = stage[d] /\ scale'[d] = scale[d]
    BY <2>1, <2>2 DEF Typed
  <2>9. wire[c] = None
    BY <1>1, <2>2 DEF Composed
  <2>10. Asked(c)'
    BY <1>1, <2>1, <2>2, <2>3, <2>8, <2>9 DEF Asked
  <2>11. Composed(c)'
    BY <1>1, <2>1, <2>4, <2>8, <2>9 DEF Composed, i, Ready, PayerFor, Sound
  <2> QED
    BY <1>1, <2>1, <2>6, <2>7, <2>8, <2>10, <2>11, OneCallBuilds
<1> QED
  BY <1>2, <1>3

(* build answers with the message of the intent, co-signed if sponsored.   *)
LEMMA AnchorBuilds ==
    ASSUME TransferInv, NEW c \in Calls, Anchor(c)
    PROVE  TransferInv'
PROOF
<1> DEFINE i == intent[c]
           m == [payer |-> Payer(c), instructions |-> Instructions(c),
                 blockhash |-> LatestBlockhash]
           u == UnsignedTx(m, IF sponsor = None THEN None ELSE Signature(sponsor, m))
<1>1. /\ stage[c] = "anchor" /\ unsigned' = [unsigned EXCEPT ![c] = u]
      /\ stage' = [stage EXCEPT ![c] = "sign"] /\ answer' = answer
      /\ UNCHANGED <<ledger, height, pool, executed, failed, sponsor, owner, sales, held>>
      /\ UNCHANGED <<intent, recipient, scale, wire, row>>
  BY DEF Anchor, Goto, chain, names
<1>2. Asked(c) /\ Composed(c) /\ Typed /\ Taken
  BY DEF TransferInv
<1>3. Ready(i, recipient[c], scale[c])
  BY <1>1, <1>2 DEF Composed
<1>4. Payer(c) = PayerFor(i) /\ Instructions(c) = Asks(i, recipient[c], PayerFor(i))
  BY <1>3, InstructionsAsk
<1>5. u.message = m /\ u.cosignature = IF sponsor = None THEN None ELSE Signature(sponsor, m)
  BY DEF UnsignedTx
<1>6. Built(i, recipient[c], m)
  <2>1. Sound(i, recipient[c], PayerFor(i)) /\ PayerFor(i) \in Wallets /\ height \in Nat
    BY <1>2, <1>3 DEF Ready, Sound, Typed
  <2>2. Asks(i, recipient[c], PayerFor(i)) \in Seq(Instruction)
    BY <2>1, AsksAreInstructions
  <2>3. m \in Message
    BY <1>4, <2>1, <2>2 DEF Message, LatestBlockhash
  <2> QED
    BY <1>4, <2>1, <2>3 DEF Built, Carries
<1> HIDE DEF m, u, i
<1>7. Typed'
  BY <1>1, <1>2 DEF Typed, Stages
<1>8. Taken'
  BY <1>1, <1>2, TakenStays
<1>9. /\ stage'[c] = "sign" /\ unsigned'[c] = u
      /\ \A d \in Calls \ {c} : stage'[d] = stage[d] /\ unsigned'[d] = unsigned[d]
  BY <1>1, <1>2 DEF Typed
<1>10. wire[c] = None
  BY <1>1, <1>2 DEF Composed
<1>11. Asked(c)'
  <2>1. recipient[c] \in Wallets
    BY <1>3 DEF Ready, Sound
  <2> QED
    BY <1>1, <1>2, <1>9, <1>10, <2>1 DEF Asked
<1>12. Composed(c)'
  BY <1>1, <1>3, <1>5, <1>6, <1>9, <1>10 DEF Composed, i, Ready, PayerFor, Built, Carries
<1> QED
  BY <1>1, <1>7, <1>8, <1>9, <1>11, <1>12, OneCallBuilds

(* The device signs that message, in the order of its signers; a client's  *)
(* row names no mint, as its intent does not.                              *)
LEMMA SignedBuilds ==
    ASSUME TransferInv, NEW c \in Calls, Sign(c) \/ SignInScript(c)
    PROVE  TransferInv'
PROOF
<1> DEFINE i == intent[c]
           built == unsigned[c]
           m == built.message
           x == [signatures |-> Assembled(built, Signature(i.from, m)), message |-> m]
<1>1. /\ stage[c] = "sign" /\ wire' = [wire EXCEPT ![c] = x]
      /\ stage' = [stage EXCEPT ![c] = "relay"] /\ answer' = answer
      /\ UNCHANGED <<ledger, height, pool, executed, failed, sponsor, owner, sales, held>>
      /\ UNCHANGED <<intent, recipient, scale, unsigned>>
  BY DEF Sign, SignInScript, Signed, Goto, chain, names
<1>2. Asked(c) /\ Composed(c) /\ Typed /\ Taken
  BY DEF TransferInv
<1>3. /\ Ready(i, recipient[c], scale[c]) /\ Built(i, recipient[c], m) /\ i \in Intents
      /\ built.cosignature = IF sponsor = None THEN None ELSE Signature(sponsor, m)
      /\ wire[c] = None
  BY <1>1, <1>2 DEF Composed, Asked
<1>4. row' = [row EXCEPT ![c] = RecordedAs(c)]
  <2>1. CASE Sign(c)
    BY <2>1 DEF Sign
  <2>2. CASE SignInScript(c)
    <3>1. c \in Scripts /\ i.mint = None
      BY <1>1, <1>2, <2>2 DEF SignInScript, Asked
    <3>2. [RecordedAs(c) EXCEPT !.mint = None] = RecordedAs(c)
      BY <3>1 DEF RecordedAs
    <3> QED
      BY <2>2, <3>2 DEF SignInScript
  <2> QED
    BY <2>1, <2>2
<1>5. x.message = m /\ x.signatures = SignedBy(i, m)
  <2>1. CASE sponsor = None
    BY <1>3, <2>1 DEF Assembled, SignedBy
  <2>2. CASE sponsor # None
    <3>1. Signature(sponsor, m) # None
      <4>1. sponsor \in Wallets /\ m \in Message
        BY <1>2, <1>3, <2>2, AddressAssumption DEF Typed, FeePayers, Built
      <4>2. Signature(sponsor, m) \in Signatures
        BY <4>1 DEF Signature, Signatures
      <4> QED
        BY <4>2, WireAssumption
    <3> QED
      BY <1>3, <2>2, <3>1 DEF Assembled, SignedBy
  <2> QED
    BY <2>1, <2>2
<1>6. x \in SignedTx /\ x # None
  <2>1. m \in Message /\ i.from \in Wallets /\ sponsor \in Wallets \cup {None}
    BY <1>2, <1>3, IntentParts, AddressAssumption DEF Built, Typed, FeePayers
  <2>2. SignedBy(i, m) \in Seq(Signatures)
    <3>1. /\ Signature(i.from, m) \in Signatures
          /\ sponsor # None => Signature(sponsor, m) \in Signatures
      BY <2>1 DEF Signature, Signatures
    <3> QED
      BY <3>1 DEF SignedBy
  <2>3. x = [signatures |-> SignedBy(i, m), message |-> m]
    BY <1>5
  <2> QED
    BY <2>1, <2>2, <2>3, WireAssumption DEF SignedTx
<1> HIDE DEF i, built, m, x
<1>7. Typed'
  BY <1>1, <1>2, <1>4, <1>6 DEF Typed, Stages
<1>8. Taken'
  <2>1. \A d \in Calls : wire[d] # None => wire'[d] = wire[d]
    BY <1>1, <1>2, <1>3 DEF Typed
  <2> QED
    BY <1>1, <1>2, <2>1, TakenStays
<1>9. /\ stage'[c] = "relay" /\ wire'[c] = x /\ row'[c] = RecordedAs(c)
      /\ \A d \in Calls \ {c} : stage'[d] = stage[d] /\ wire'[d] = wire[d] /\ row'[d] = row[d]
  BY <1>1, <1>2, <1>4 DEF Typed
<1>10. Asked(c)'
  BY <1>1, <1>2, <1>9 DEF Asked
<1>11. Composed(c)'
  BY <1>1, <1>3, <1>5, <1>6, <1>9
     DEF Composed, i, Ready, PayerFor, Built, Carries, SignedBy, RecordedAs
<1> QED
  BY <1>1, <1>7, <1>8, <1>9, <1>10, <1>11, OneCallBuilds

(* What was assembled passes the backend's verification.                   *)
LEMMA SignedVerifies ==
    ASSUME TransferInv, NEW c \in Calls, wire[c] # None
    PROVE  Verifies(wire[c])
PROOF
<1> DEFINE i == intent[c]
           m == wire[c].message
           to == recipient[c]
           p == PayerFor(i)
<1>1. /\ Carries(m, i, to, p) /\ i \in Intents /\ Typed
      /\ wire[c].signatures = SignedBy(i, m)
  BY DEF TransferInv, Asked, Composed, Built
<1>2. Signers(m) = IF p = i.from THEN <<p>> ELSE <<p, i.from>>
  BY <1>1, SignersOf
<1>3. sponsor # None => sponsor # i.from
  BY <1>1, IntentParts DEF Typed, FeePayers
<1> HIDE DEF i, m, to
<1>4. CASE sponsor = None
  <2>1. Signers(m) = <<i.from>> /\ wire[c].signatures = <<Signature(i.from, m)>>
    BY <1>1, <1>2, <1>4 DEF PayerFor, SignedBy
  <2> QED
    BY <2>1 DEF Verifies, m
<1>5. CASE sponsor # None
  <2>1. /\ Signers(m) = <<sponsor, i.from>>
        /\ wire[c].signatures = <<Signature(sponsor, m), Signature(i.from, m)>>
    BY <1>1, <1>2, <1>3, <1>5 DEF PayerFor, SignedBy
  <2> QED
    BY <2>1 DEF Verifies, m
<1> QED
  BY <1>4, <1>5

(* A node takes what is in no block.                                       *)
LEMMA RelayBuilds ==
    ASSUME TransferInv, NEW c \in Calls, Relay(c)
    PROVE  TransferInv'
PROOF
<1> DEFINE m == wire[c].message
           cause == Preflight(m)
<1>1. /\ stage[c] = "relay"
      /\ UNCHANGED <<ledger, height, executed, failed, sponsor, owner, sales, held>>
      /\ UNCHANGED <<intent, recipient, scale, unsigned, wire, row>>
  BY DEF Relay, names
<1>2. Asked(c) /\ Composed(c) /\ Typed /\ Taken
  BY DEF TransferInv
<1>3. wire[c] # None
  BY <1>1, <1>2 DEF Composed
<1>4. CASE cause = "none" /\ Verifies(wire[c])
  <2>1. /\ pool' = pool \cup {m} /\ stage' = [stage EXCEPT ![c] = "sent"]
        /\ answer' = [answer EXCEPT ![c] = "ok"]
    BY <1>4 DEF Relay
  <2>2. m \notin executed
    BY <1>4 DEF Preflight
  <2>3. m \in Messages
    BY <1>3 DEF Messages
  <2> HIDE DEF m, cause
  <2>4. Typed'
    BY <1>1, <1>2, <2>1 DEF Typed, Stages, Answers
  <2>5. Taken'
    BY <1>1, <1>2, <2>1, <2>2, <2>3 DEF Taken, Messages
  <2>6. /\ stage'[c] = "sent"
        /\ \A d \in Calls \ {c} : stage'[d] = stage[d] /\ answer'[d] = answer[d]
    BY <1>2, <2>1 DEF Typed
  <2>7. Asked(c)'
    BY <1>1, <1>2, <2>6 DEF Asked
  <2>8. Composed(c)'
    BY <1>1, <1>2, <1>3, <2>6
       DEF Composed, Ready, Built, SignedBy, PayerFor, RecordedAs, Carries
  <2> QED
    BY <1>1, <2>4, <2>5, <2>6, <2>7, <2>8, OneCallBuilds
<1>5. CASE ~ (cause = "none" /\ Verifies(wire[c]))
  <2>1. PICK kind \in Answers : End(c, kind) /\ UNCHANGED pool
    <3>1. CASE ~ Verifies(wire[c])
      BY <3>1 DEF Relay, Answers
    <3>2. CASE Verifies(wire[c]) /\ cause # "none"
      <4>1. End(c, MapSendError(cause)) /\ UNCHANGED pool
        BY <3>2 DEF Relay
      <4>2. MapSendError(cause) \in Answers
        <5>1. Outcome(ledger, m).cause \in Unpaid \cup Failed \cup {"none"}
          BY <1>2, <1>3, OutcomeIs DEF Composed, Built, Typed, Effect
        <5>2. cause \in Unpaid \cup Failed \cup {"blockhash", "processed"}
          BY <3>2, <5>1 DEF Preflight
        <5> QED
          BY <5>2 DEF MapSendError, Unpaid, Failed, Answers
      <4> QED
        BY <4>1, <4>2
    <3> QED
      BY <1>5, <3>1, <3>2
  <2> QED
    BY <1>1, <2>1, EndBuilds DEF chain, names
<1> QED
  BY <1>4, <1>5

(* A message in a block changes the ledger as its intent says, or not.     *)
LEMMA ExecuteBuilds ==
    ASSUME TransferInv, NEW m \in pool, Execute(m)
    PROVE  TransferInv'
PROOF
<1>1. /\ ledger' = Outcome(ledger, m).ledger
      /\ executed' = IF Outcome(ledger, m).cause \in {"absent", "fee", "payer_rent"} THEN executed
                     ELSE executed \cup {m}
      /\ failed' = IF Outcome(ledger, m).cause \in {"rent", "instruction"} THEN failed \cup {m}
                   ELSE failed
      /\ pool' = pool \ {m}
      /\ UNCHANGED <<height, sponsor, owner, sales, held>>
      /\ UNCHANGED <<stage, intent, recipient, scale, unsigned, wire, row, answer>>
  BY DEF Execute, names, calls
<1>2. Typed /\ Taken
  BY DEF TransferInv
<1>3. PICK c \in Calls : wire[c] # None /\ m = wire[c].message
  BY <1>2 DEF Taken, Messages
<1>4. Carries(m, intent[c], recipient[c], PayerFor(intent[c]))
  BY <1>3 DEF TransferInv, Composed, Built
<1>5. ledger' \in Ledgers /\ ledger'.ok
  BY <1>1, <1>2, <1>4, OutcomeIs DEF Typed, Effect
<1>6. Typed'
  BY <1>1, <1>2, <1>5 DEF Typed
<1>7. Taken'
  BY <1>1, <1>2 DEF Taken, Messages
<1>8. ASSUME NEW d \in Calls  PROVE Asked(d)' /\ Composed(d)'
  BY <1>1 DEF TransferInv, Asked, Composed, Ready, Built, SignedBy, PayerFor, RecordedAs, Carries
<1> QED
  BY <1>6, <1>7, <1>8 DEF TransferInv

(* Blocks and sales leave the calls alone.                                 *)
LEMMA WorldBuilds ==
    ASSUME TransferInv, UNCHANGED <<ledger, pool, executed, failed, sponsor, calls>>, Typed'
    PROVE  TransferInv'
PROOF
<1>1. UNCHANGED <<stage, intent, recipient, scale, unsigned, wire, row, answer>>
  BY DEF calls
<1>2. Taken'
  BY <1>1, TakenStays DEF TransferInv
<1>3. ASSUME NEW d \in Calls  PROVE Asked(d)' /\ Composed(d)'
  BY <1>1 DEF TransferInv, Asked, Composed, Ready, Built, SignedBy, PayerFor, RecordedAs, Carries
<1> QED
  BY <1>2, <1>3 DEF TransferInv

(* A sale gives the name to a wallet, and leaves the calls alone.          *)
LEMMA SellBuilds ==
    ASSUME TransferInv, NEW l \in Labels, NEW w \in Wallets, Sell(l, w)
    PROVE  TransferInv'
PROOF
<1>1. /\ sales < MaxSales /\ sales' = sales + 1
      /\ owner' = [owner EXCEPT ![DomainKey(l)] = w]
      /\ held' = [c \in Calls |->
                    IF stage[c] = "resolve" /\ intent[c].to.label = l
                      THEN held[c] \cup {w} ELSE held[c]]
      /\ UNCHANGED <<ledger, height, pool, executed, failed, sponsor, calls>>
  BY DEF Sell, chain
<1>2. Typed
  BY DEF TransferInv
<1>3. sales' \in 0..MaxSales
  BY <1>1, <1>2, BlockAssumption DEF Typed
<1>4. held' \in [Calls -> SUBSET Addresses]
  BY <1>1, <1>2 DEF Typed, Addresses
<1>5. Typed'
  BY <1>1, <1>2, <1>3, <1>4 DEF Typed, calls
<1> QED
  BY <1>1, <1>5, WorldBuilds

(* Every step keeps the messages those of their intents.                   *)
LEMMA TransferStep ==
    ASSUME TransferInv, [TransferNext]_transferVars
    PROVE  TransferInv'
PROOF
<1>1. ASSUME NEW c \in Calls, CallStep(c)
      PROVE  TransferInv'
  <2>1. ASSUME NEW i \in Intents, Begin(c, i) \/ RunScript(c, i)
        PROVE  TransferInv'
    BY <2>1, StartBuilds DEF Begin, RunScript
  <2>2. CASE Dismiss(c)
    BY <2>2, EndBuilds DEF Dismiss, Answers
  <2>3. CASE CallBreaks(c)
    BY <2>3, EndBuilds DEF CallBreaks, Answers
  <2> QED
    BY <1>1, <2>1, <2>2, <2>3, ResolveBuilds, CheckBuilds, ReadDecimalsBuilds,
              AnchorBuilds, SignedBuilds, RelayBuilds DEF CallStep
<1>2. CASE NewBlock
  <2>1. /\ height < MaxHeight /\ height' = height + 1
        /\ UNCHANGED <<ledger, pool, executed, failed, sponsor, owner, sales, held, calls>>
    BY <1>2 DEF NewBlock, names
  <2>2. Typed
    BY DEF TransferInv
  <2>3. height' \in 0..MaxHeight
    BY <2>1, <2>2, BlockAssumption DEF Typed
  <2>4. Typed'
    BY <2>1, <2>2, <2>3 DEF Typed, calls
  <2> QED
    BY <2>1, <2>4, WorldBuilds
<1>3. CASE UNCHANGED transferVars
  <2>1. UNCHANGED <<ledger, height, pool, executed, failed, sponsor, owner, sales, held, calls>>
    BY <1>3 DEF transferVars, chain, names
  <2>2. Typed'
    BY <2>1 DEF TransferInv, Typed, calls
  <2> QED
    BY <2>1, <2>2, WorldBuilds
<1> QED
  BY <1>1, <1>2, <1>3, ExecuteBuilds, SellBuilds DEF TransferNext

(* Every message of a call, from the moment it is built, is the one its    *)
(* intent asks for, with the signatures of those it names.                 *)
THEOREM TransferInductive == TransferSpec => []TransferInv
PROOF
<1>1. TransferInv /\ [TransferNext]_transferVars => TransferInv'
  BY TransferStep
<1> QED
  BY <1>1, InitTransferInv, PTL DEF TransferSpec

(* Every variable has its type; what is in the pool or in a block was      *)
(* signed in a call.                                                       *)
THEOREM TransferTypes == TransferSpec => []TransferTypeOK
PROOF
<1>1. TransferInv => TransferTypeOK
  <2> SUFFICES ASSUME TransferInv  PROVE TransferTypeOK
    OBVIOUS
  <2>1. ASSUME NEW c \in Calls, stage[c] \notin {"new", "resolve", "ended"}
        PROVE  recipient[c] # None
    <3>1. stage[c] \in {"build", "decimals", "anchor", "sign", "relay", "sent"}
      BY <2>1 DEF TransferInv, Typed, Stages
    <3>2. CASE stage[c] \in {"build", "decimals", "anchor", "sign"}
      BY <3>2, NoneIsNoAccount, AddressAssumption DEF TransferInv, Asked
    <3>3. CASE stage[c] \in {"relay", "sent"}
      BY <3>3, NoneIsNoAccount DEF TransferInv, Composed, Ready, Sound
    <3> QED
      BY <3>1, <3>2, <3>3
  <2> QED
    BY <2>1 DEF TransferInv, Typed, Taken, TransferTypeOK
<1> QED
  BY <1>1, TransferInductive, PTL
-------------------------------------------------------------------------------
(* The payer the properties speak of is the one of the message.            *)
LEMMA PayerOfCall ==
    ASSUME Typed, NEW c \in Calls
    PROVE  PayerOf(c) = PayerFor(intent[c])
PROOF
  BY DEF Typed, FeePayers, PayerOf, PayerFor

(* Nothing but a block changes the ledger, what is in blocks or what       *)
(* leaves the pool.                                                        *)
LEMMA OnlyBlocks ==
    ASSUME [TransferNext]_transferVars, ~ \E m \in pool : Execute(m)
    PROVE  ledger' = ledger /\ executed' = executed /\ failed' = failed /\ pool \ pool' = {}
PROOF
<1>1. ASSUME NEW c \in Calls, CallStep(c)
      PROVE  ledger' = ledger /\ executed' = executed /\ failed' = failed /\ pool \ pool' = {}
  <2>1. CASE Relay(c)
    BY <2>1 DEF Relay, End
  <2>2. CASE ~ Relay(c)
    BY <1>1, <2>2 DEF CallStep, Begin, RunScript, Start, Resolve, Check, ReadDecimals, Anchor,
       Sign, SignInScript, Signed, Dismiss, CallBreaks, chain
  <2> QED
    BY <2>1, <2>2
<1>2. CASE NewBlock
  BY <1>2 DEF NewBlock
<1>3. CASE \E l \in Labels, w \in Wallets : Sell(l, w)
  BY <1>3 DEF Sell, chain
<1>4. CASE UNCHANGED transferVars
  BY <1>4 DEF transferVars, chain
<1> QED
  BY <1>1, <1>2, <1>3, <1>4 DEF TransferNext

(* What a block does, for any call that made its message.                  *)
LEMMA ExecuteEffect ==
    ASSUME TransferInv, NEW m \in pool, Execute(m), NEW c \in Calls, wire[c] # None,
           m = wire[c].message
    PROVE  LET o == Outcome(ledger, m) IN
             /\ Sound(intent[c], recipient[c], PayerOf(c))
             /\ Effect(ledger, intent[c], recipient[c], PayerOf(c), o)
             /\ ledger' = o.ledger
             /\ executed' = IF o.cause \in Unpaid THEN executed ELSE executed \cup {m}
             /\ failed' = IF o.cause \in Failed THEN failed \cup {m} ELSE failed
             /\ pool' = pool \ {m} /\ m \notin executed /\ m \notin failed
             /\ o.cause = "none" \/ ~ Covered(intent[c], recipient[c], PayerOf(c))
PROOF
<1>1. Typed /\ Taken
  BY DEF TransferInv
<1>2. Carries(m, intent[c], recipient[c], PayerOf(c))
  BY <1>1, PayerOfCall DEF TransferInv, Composed, Built
<1>3. Effect(ledger, intent[c], recipient[c], PayerOf(c), Outcome(ledger, m))
  BY <1>1, <1>2, OutcomeIs DEF Typed
<1>4. \/ Outcome(ledger, m).cause = "none"
      \/ ~ Covered(intent[c], recipient[c], PayerOf(c))
  BY <1>1, <1>2, CoveredSucceeds DEF Typed
<1>5. m \notin executed /\ m \notin failed
  BY <1>1 DEF Taken
<1> QED
  BY <1>2, <1>3, <1>4, <1>5 DEF Execute, Unpaid, Failed, Carries

(* A call that fails at the backend lacks funds, or is in a block already. *)
LEMMA RefusedLacksFunds ==
    ASSUME TransferInv, [TransferNext]_transferVars, NEW c \in Calls, stage[c] = "relay",
           answer'[c] \in {"bad_request", "insufficient_funds", "chain_rejected"}
    PROVE  \/ ~ Covered(intent[c], recipient[c], PayerOf(c))
           \/ wire[c].message \in executed
PROOF
<1> DEFINE m == wire[c].message
           cause == Preflight(m)
<1>1. Asked(c) /\ Composed(c) /\ Typed
  BY DEF TransferInv
<1>2. wire[c] # None /\ answer[c] = "none" /\ Carries(m, intent[c], recipient[c], PayerOf(c))
  BY <1>1, PayerOfCall DEF Composed, Asked, Built
<1>3. answer' # answer
  BY <1>2
<1>4. PICK d \in Calls : CallStep(d)
  BY <1>3 DEF TransferNext, Execute, NewBlock, Sell, calls, transferVars
<1>5. d = c
  <2>1. ASSUME d # c  PROVE answer'[c] = answer[c]
    BY <1>1, <1>4, <2>1 DEF Typed, CallStep, Begin, RunScript, Start, Resolve, Check,
       ReadDecimals, Anchor, Sign, SignInScript, Signed, Dismiss, Relay, CallBreaks, Goto, End
  <2> QED
    BY <1>2, <2>1
<1>6. Relay(c)
  BY <1>4, <1>5 DEF CallStep, Begin, RunScript, Start, Resolve, Check,
     ReadDecimals, Anchor, Sign, SignInScript, Signed, Dismiss, CallBreaks
<1>7. Verifies(wire[c])
  BY <1>2, SignedVerifies
<1>8. cause # "none" /\ answer'[c] = MapSendError(cause)
  BY <1>1, <1>6, <1>7 DEF Relay, End, Typed
<1>9. cause # "blockhash"
  BY <1>8 DEF MapSendError
<1>10. m \in executed \/ Outcome(ledger, m).cause # "none"
  BY <1>8, <1>9 DEF Preflight
<1> QED
  BY <1>1, <1>2, <1>10, CoveredSucceeds DEF Typed

(* FailsOnlyForFunds: a transfer whose funds suffice when a node tries it, *)
(* or when its block comes, fails for no reason but that it is in a block  *)
(* already or its blockhash is too old.                                    *)
THEOREM FundsSuffice == TransferSpec => FailsOnlyForFunds
PROOF
<1>1. TransferInv /\ [TransferNext]_transferVars
        => [\A c \in Calls : LacksFunds(c)]_transferVars
  <2> SUFFICES ASSUME TransferInv, [TransferNext]_transferVars, NEW c \in Calls
               PROVE  LacksFunds(c)
    OBVIOUS
  <2>1. ASSUME wire[c] # None, wire[c].message \in failed' \ failed
        PROVE  ~ Covered(intent[c], recipient[c], PayerOf(c))
    <3>1. PICK m \in pool : Execute(m)
      BY <2>1, OnlyBlocks
    <3>2. m = wire[c].message
      BY <2>1, <3>1 DEF Execute
    <3>3. LET o == Outcome(ledger, m) IN
            /\ failed' = IF o.cause \in Failed THEN failed \cup {m} ELSE failed
            /\ o.cause = "none" \/ ~ Covered(intent[c], recipient[c], PayerOf(c))
      BY <2>1, <3>1, <3>2, ExecuteEffect
    <3> QED
      BY <2>1, <3>2, <3>3 DEF Failed
  <2> QED
    BY <2>1, RefusedLacksFunds DEF LacksFunds
<1> QED
  BY <1>1, TransferInductive, PTL DEF TransferSpec, FailsOnlyForFunds

(* Lamports leave a wallet for the fees, the rent and the amount of one    *)
(* included message.                                                       *)
LEMMA LamportsAreAuthorized ==
    ASSUME TransferInv, [TransferNext]_transferVars, NEW w \in Wallets, Spent(w) > 0
    PROVE  \E c \in Calls : AuthorizedBy(c, w)
PROOF
<1>1. Typed /\ Taken
  BY DEF TransferInv
<1>2. ledger.sol[w] \in Nat
  BY <1>1, LedgerParts DEF Typed
<1>3. ledger'.sol[w] # ledger.sol[w]
  BY <1>2 DEF Spent
<1>4. PICK m \in pool : Execute(m)
  BY <1>3, OnlyBlocks
<1>5. PICK c \in Calls : wire[c] # None /\ m = wire[c].message
  BY <1>1 DEF Taken, Messages
<1> DEFINE i == intent[c]
           to == recipient[c]
           p == PayerOf(c)
           o == Outcome(ledger, m)
<1>6. /\ Sound(i, to, p) /\ Effect(ledger, i, to, p, o) /\ ledger' = o.ledger
      /\ pool' = pool \ {m}
  BY <1>4, <1>5, ExecuteEffect
<1>7. Included(c)
  BY <1>5, <1>6 DEF Included
<1> HIDE DEF i, to, p, o
<1>8. /\ Rent(ledger, i, to, p, w) \in Nat /\ FeeOf(i, p, w) \in Nat
      /\ Pay(i, w) \in Nat /\ Paid(i, to, w) \in Nat
  BY <1>1, <1>6, AmountsAreNat DEF Typed
<1>9. o.cause \notin Unpaid
  BY <1>3, <1>6 DEF Effect
<1>10. Spent(w) <= FeeOf(i, p, w) + Rent(ledger, i, to, p, w) + Pay(i, w)
  <2>1. CASE o.cause \in Failed
    <3>1. ledger'.sol[w] = ledger.sol[w] - FeeOf(i, p, w)
      BY <1>6, <2>1 DEF Effect
    <3> QED
      BY <1>2, <1>8, <3>1 DEF Spent
  <2>2. CASE o.cause = "none"
    <3>1. ledger'.sol[w] = ledger.sol[w] - FeeOf(i, p, w) - Rent(ledger, i, to, p, w)
                             - Pay(i, w) + Paid(i, to, w)
      BY <1>6, <2>2 DEF Effect
    <3> QED
      BY <1>2, <1>8, <3>1 DEF Spent
  <2> QED
    BY <1>6, <1>9, <2>1, <2>2 DEF Effect
<1>11. w \in {i.from, p}
  <2>1. ASSUME w \notin {i.from, p}
        PROVE  FeeOf(i, p, w) = 0 /\ Rent(ledger, i, to, p, w) = 0 /\ Pay(i, w) = 0
    BY <2>1 DEF FeeOf, Rent, Pay
  <2>2. Spent(w) > 0
    OBVIOUS
  <2>3. Spent(w) \in Int
    <3>1. ledger'.sol[w] \in Nat
      BY <1>6, LedgerParts DEF Effect
    <3> QED
      BY <1>2, <3>1 DEF Spent
  <2> QED
    BY <1>8, <1>10, <2>1, <2>2, <2>3
<1>12. Rent(ledger, i, to, p, w) <= IF w = p /\ i.mint # None THEN AtaRent ELSE 0
  BY CostAssumption DEF Rent, Opens
<1>13. FeeOf(i, p, w) = IF w = p THEN Fee * Cardinality({w, i.from}) ELSE 0
  BY DEF FeeOf
<1>14. Pay(i, w) = IF w = i.from /\ i.mint = None THEN i.amount ELSE 0
  BY DEF Pay
<1> DEFINE f == IF w = p THEN Fee * Cardinality({w, i.from}) ELSE 0
           a == IF w = i.from /\ i.mint = None THEN i.amount ELSE 0
           r == IF w = p /\ i.mint # None THEN AtaRent ELSE 0
           s == Spent(w)
<1>15. s <= a + f + r
  <2>1. f \in Nat /\ a \in Nat /\ r \in Nat /\ Rent(ledger, i, to, p, w) \in Nat
    BY <1>8, <1>13, <1>14, CostAssumption
  <2>2. s \in Int
    <3>1. ledger'.sol[w] \in Nat
      BY <1>6, LedgerParts DEF Effect
    <3> QED
      BY <1>2, <3>1 DEF Spent
  <2>3. s <= f + Rent(ledger, i, to, p, w) + a /\ Rent(ledger, i, to, p, w) <= r
    BY <1>10, <1>12, <1>13, <1>14
  <2> HIDE DEF f, a, r, s
  <2> QED
    BY <2>1, <2>2, <2>3
<1> QED
  BY <1>7, <1>11, <1>15 DEF AuthorizedBy, i, p

(* Tokens leave a wallet as the amount of an intent of its own, whole.     *)
LEMMA TokensAreAuthorized ==
    ASSUME TransferInv, [TransferNext]_transferVars, NEW w \in Wallets, NEW mint \in Mints,
           Gone(w, mint) > 0
    PROVE  \E c \in Calls : /\ Included(c) /\ intent[c].from = w /\ intent[c].mint = mint
                            /\ Gone(w, mint) = intent[c].amount
PROOF
<1> DEFINE h == <<w, mint>>
<1>1. Typed /\ Taken /\ h \in Wallets \X Mints
  BY DEF TransferInv
<1>2. ledger.ata[h] \in Nat \cup {None}
  BY <1>1, LedgerParts DEF Typed
<1>3. Gone(w, mint) = (IF ledger.ata[h] = None THEN 0 ELSE ledger.ata[h])
                        - (IF ledger'.ata[h] = None THEN 0 ELSE ledger'.ata[h])
  BY DEF Gone, Associated, AssociatedTokenAddress
<1>4. ledger'.ata[h] # ledger.ata[h]
  BY <1>2, <1>3
<1>5. PICK m \in pool : Execute(m)
  BY <1>4, OnlyBlocks
<1>6. PICK c \in Calls : wire[c] # None /\ m = wire[c].message
  BY <1>1 DEF Taken, Messages
<1> DEFINE i == intent[c]
           to == recipient[c]
           p == PayerOf(c)
           o == Outcome(ledger, m)
<1>7. /\ Sound(i, to, p) /\ Effect(ledger, i, to, p, o) /\ ledger' = o.ledger
      /\ pool' = pool \ {m}
  BY <1>5, <1>6, ExecuteEffect
<1>8. Included(c)
  BY <1>6, <1>7 DEF Included
<1> HIDE DEF i, to, p, o
<1>9. ledger'.ata[h] = Tokens(ledger, i, to, h) /\ o.cause = "none"
  BY <1>1, <1>4, <1>7 DEF Effect
<1>10. /\ i.amount \in Nat /\ i.from \in Wallets /\ to \in Wallets
       /\ ledger'.ata[h] \in Nat \cup {None}
  BY <1>1, <1>7, LedgerParts DEF Effect, Sound
<1>11. CASE \/ i.mint = None \/ i.from = to
            \/ h \notin {<<i.from, i.mint>>, <<to, i.mint>>}
  <2>1. ledger'.ata[h] = Has(ledger, i, to, h)
    BY <1>9, <1>11 DEF Tokens
  <2>2. Gone(w, mint) = 0
    BY <1>2, <1>3, <2>1 DEF Has, Opens
  <2> QED
    BY <2>2
<1>12. CASE /\ i.mint # None /\ i.from # to /\ h = <<i.from, i.mint>>
  <2>1. ledger'.ata[h] = ledger.ata[h] - i.amount /\ ledger.ata[h] # None
    BY <1>7, <1>9, <1>12 DEF Tokens, Has, Effect
  <2>2. w = i.from /\ mint = i.mint
    BY <1>12
  <2>3. ledger'.ata[h] \in Nat
    BY <1>2, <1>7, <1>9, <1>10, <1>12, <2>1 DEF Effect, Has
  <2>4. ledger'.ata[h] # None
    BY <2>3, NoneIsNoAccount
  <2>5. Gone(w, mint) = i.amount
    BY <1>2, <1>3, <1>10, <2>1, <2>4
  <2> QED
    BY <1>8, <2>2, <2>5 DEF i
<1>13. CASE /\ i.mint # None /\ i.from # to /\ h = <<to, i.mint>>
  <2>1. h # <<i.from, i.mint>>
    BY <1>13
  <2>2. ledger'.ata[h] = Has(ledger, i, to, h) + i.amount
    BY <1>9, <1>13, <2>1 DEF Tokens
  <2>3. Has(ledger, i, to, h) = IF ledger.ata[h] = None THEN 0 ELSE ledger.ata[h]
    BY <1>13 DEF Has, Opens
  <2>4. Has(ledger, i, to, h) \in Nat
    BY <1>2, <2>3
  <2>5. ledger'.ata[h] # None
    BY <1>10, <2>2, <2>4, NoneIsNoAccount
  <2>6. Gone(w, mint) <= 0
    BY <1>3, <1>10, <2>2, <2>3, <2>4, <2>5
  <2> QED
    BY <1>10, <1>3, <2>2, <2>3, <2>4, <2>5
<1> QED
  BY <1>11, <1>12, <1>13

(* Lamports and tokens leave a wallet only for a transfer that is included *)
(* and names it as sender, by what was asked, or as payer, by the fees and *)
(* one rent.                                                               *)
THEOREM OnlyTheAuthorizedPay == TransferSpec => DebitsAreAuthorized
PROOF
<1>1. TransferInv /\ [TransferNext]_transferVars
        => [\A w \in Wallets : Authorized(w)]_transferVars
  BY LamportsAreAuthorized, TokensAreAuthorized DEF Authorized
<1> QED
  BY <1>1, TransferInductive, PTL DEF TransferSpec, DebitsAreAuthorized

(* A message that takes effect moves what its row says.                    *)
LEMMA EffectIsRecorded ==
    ASSUME TransferInv, [TransferNext]_transferVars, NEW c \in Calls
    PROVE  MovesAsRecorded(c)
PROOF
<1> SUFFICES ASSUME Included(c), wire[c].message \in executed' \ failed'
             PROVE  LET r == row[c]
                        before == ReadBalance(ledger, r.to, r.mint)
                        after == ReadBalance(ledger', r.to, r.mint)
                    IN  /\ before.error = "none" /\ after.error = "none"
                        /\ r.to \notin {r.pubkey, PayerOf(c)} =>
                             after.amount = before.amount + r.amount
  BY DEF MovesAsRecorded
<1>1. Typed /\ Taken
  BY DEF TransferInv
<1>2. PICK m \in pool : Execute(m)
  BY OnlyBlocks DEF Included
<1>3. m = wire[c].message /\ wire[c] # None
  BY <1>2 DEF Included, Execute
<1> DEFINE i == intent[c]
           to == recipient[c]
           p == PayerOf(c)
           o == Outcome(ledger, m)
<1>4. /\ Sound(i, to, p) /\ Effect(ledger, i, to, p, o) /\ ledger' = o.ledger
      /\ executed' = IF o.cause \in Unpaid THEN executed ELSE executed \cup {m}
      /\ failed' = IF o.cause \in Failed THEN failed \cup {m} ELSE failed
      /\ m \notin executed
  BY <1>2, <1>3, ExecuteEffect
<1>5. row[c] = RecordedAs(c)
  BY <1>3 DEF TransferInv, Composed
<1>6. /\ row[c].to = to /\ row[c].mint = i.mint /\ row[c].amount = i.amount
      /\ row[c].pubkey = i.from
  BY <1>5 DEF RecordedAs
<1> HIDE DEF i, to, p, o
<1>7. o.cause = "none"
  BY <1>3, <1>4 DEF Effect, Unpaid, Failed
<1>8. /\ i.amount \in Nat /\ to \in Wallets /\ i.mint \in Mints \cup {None}
      /\ i.mint # Garbage /\ i.mint \notin Wallets
  BY <1>4, AddressAssumption, NoneIsNoAccount DEF Sound
<1>9. /\ ReadBalance(ledger, to, i.mint) =
            [error |-> "none", amount |-> Balance(ledger, to, i.mint)]
      /\ ReadBalance(ledger', to, i.mint) =
            [error |-> "none", amount |-> Balance(ledger', to, i.mint)]
  BY <1>8 DEF ReadBalance, ValidPubkey
<1>10. ASSUME to # i.from, to # p
       PROVE  Balance(ledger', to, i.mint) = Balance(ledger, to, i.mint) + i.amount
  <2>1. CASE i.mint = None
    <3>1. ledger'.sol[to] = ledger.sol[to] - FeeOf(i, p, to) - Rent(ledger, i, to, p, to)
                              - Pay(i, to) + Paid(i, to, to)
      BY <1>4, <1>7, <1>8 DEF Effect
    <3>2. /\ FeeOf(i, p, to) = 0 /\ Rent(ledger, i, to, p, to) = 0 /\ Pay(i, to) = 0
          /\ Paid(i, to, to) = i.amount
      BY <1>10, <2>1 DEF FeeOf, Rent, Pay, Paid
    <3>3. ledger.sol[to] \in Nat
      BY <1>1, <1>8, LedgerParts DEF Typed
    <3> QED
      BY <1>8, <2>1, <3>1, <3>2, <3>3 DEF Balance
  <2>2. CASE i.mint # None
    <3> DEFINE h == <<to, i.mint>>
    <3>1. h \in Wallets \X Mints /\ h # <<i.from, i.mint>>
      BY <1>8, <1>10, <2>2
    <3>2. ledger'.ata[h] = Has(ledger, i, to, h) + i.amount
      BY <1>4, <1>7, <1>10, <2>2, <3>1 DEF Effect, Tokens
    <3>3. Has(ledger, i, to, h) = IF ledger.ata[h] = None THEN 0 ELSE ledger.ata[h]
      BY <2>2 DEF Has, Opens
    <3>4. ledger.ata[h] \in Nat \cup {None}
      BY <1>1, <3>1, LedgerParts DEF Typed
    <3>5. Has(ledger, i, to, h) \in Nat
      BY <3>3, <3>4
    <3>6. ledger'.ata[h] # None
      BY <1>8, <3>2, <3>5, NoneIsNoAccount
    <3>7. Elsewhere[h] \in Nat
      BY <3>1, MintAssumption
    <3>8. /\ Associated(ledger', to, i.mint) = Has(ledger, i, to, h) + i.amount
          /\ Associated(ledger, to, i.mint) = Has(ledger, i, to, h)
      BY <3>2, <3>3, <3>6 DEF Associated, AssociatedTokenAddress
    <3> QED
      BY <1>8, <2>2, <3>5, <3>7, <3>8 DEF Balance
  <2> QED
    BY <2>1, <2>2
<1> DEFINE before == ReadBalance(ledger, to, i.mint)
           after == ReadBalance(ledger', to, i.mint)
<1>11. /\ before.error = "none" /\ before.amount = Balance(ledger, to, i.mint)
       /\ after.error = "none" /\ after.amount = Balance(ledger', to, i.mint)
  BY <1>9
<1>12. to \notin {i.from, p} => after.amount = before.amount + i.amount
  BY <1>10, <1>11
<1>13. /\ ReadBalance(ledger, row[c].to, row[c].mint) = before
       /\ ReadBalance(ledger', row[c].to, row[c].mint) = after
  BY <1>6
<1> HIDE DEF before, after
<1>14. row[c].to \notin {row[c].pubkey, PayerOf(c)} => after.amount = before.amount + row[c].amount
  BY <1>6, <1>12 DEF p
<1> QED
  BY <1>11, <1>13, <1>14

(* What the backend was given to record is what the recipient's balance    *)
(* grows by.                                                               *)
THEOREM RowsAreTrue == TransferSpec => RowSaysWhatMoved
PROOF
<1>1. TransferInv /\ [TransferNext]_transferVars
        => [\A c \in Calls : MovesAsRecorded(c)]_transferVars
  BY EffectIsRecorded
<1> QED
  BY <1>1, TransferInductive, PTL DEF TransferSpec, RowSaysWhatMoved
===============================================================================
