----------------------------- MODULE VaultProofs -----------------------------
(***************************************************************************)
(* Theorems about Vault, for any number of devices, seeds, enclave keys    *)
(* and calls, however calls overlap and whatever is refused.               *)
(***************************************************************************)
EXTENDS Vault, TLAPS

(* The items a call that writes or wipes has dealt with. *)
Behind(todo) == {s \in Services : \A i \in DOMAIN todo : todo[i] # s}

Established == {"eraseSeed", "addSeed", "eraseLocal", "addLocal", "register", "answer"}
Establishing == {"dropKey", "mintKey", "erase", "add"} \cup Established
Deleting == {"wipe", "eraseVault", "wipeKey"}

(* The device can unwrap the key and the phrase of the address it shows. *)
Provisioned(d) ==
    \A s \in {"ct", "mn"} : CanUnwrap(d, s) /\ keychain[d][s].seed = Address(d)

(* What is known of a call whichever others are at work. *)
WellFormed(c) ==
    /\ c.at \in {"erase", "add"} => c.key # None
    /\ c.at \in {"erase", "add", "wipe"} => c.todo # << >>

CallInv(c) ==
    /\ c.seed \in known
    /\ c.at \in Established => c.seed \in whole
    /\ c.at \in {"dropKey", "mintKey"} => c.todo = WriteOrder

(* What a call has established at each of its steps, if it is alone. *)
LoneCall(d, c) ==
    /\ call[d] = {c}
    /\ c.at \in Establishing => handle[d] = None
    /\ c.at \in Deleting => handle[d] # None
    /\ c.at \in {"mintKey", "erase", "add"} /\ d \notin torn => Address(d) = None
    /\ c.at = "mintKey" /\ d \notin torn => enclave[d] = {}
    /\ c.at \in {"erase", "add"} /\ d \notin torn => enclave[d] = {c.key}
    /\ c.at \in {"erase", "add"} =>
         \A s \in Behind(c.todo) : keychain[d][s] = [seed |-> c.seed, under |-> c.key]
    /\ c.at \in Established => Address(d) = c.seed
    /\ c.at \in Deleting /\ d \notin torn => Address(d) = handle[d]
    /\ c.at \in {"eraseVault", "wipeKey"} => d \in torn

(* What holds between the steps of a device whose calls have not overlapped. *)
LoneInv(d) ==
    /\ \A c \in call[d] : LoneCall(d, c)
    /\ d \notin torn /\ Address(d) # None => Provisioned(d)
    /\ handle[d] = None => signer[d] = None
    /\ handle[d] # None /\ Idle(d) => Address(d) = handle[d]
    /\ d \notin torn => signer[d] \in {None, handle[d]}

(* What holds of every device. *)
SeedsInv(d) == {vault[d], local[d], Address(d), handle[d]} \subseteq whole \cup {None}

CloudInv == cloud \in whole \cup {None}

VaultInv ==
    /\ VaultTypeOK
    /\ \A d \in Devices : \A c \in call[d] : CallInv(c)
    /\ \A d \in Devices : SeedsInv(d)
    /\ \A d \in Devices \ crossed : LoneInv(d)
    /\ CloudInv

-------------------------------------------------------------------------------
(* The order in which the items are written and wiped. *)
LEMMA RemainingItems ==
    Remaining = {<<"ct", "mn", "pub">>, <<"mn", "pub">>, <<"pub">>, << >>}
PROOF
<1>1. Tail(<<"ct", "mn", "pub">>) = <<"mn", "pub">> /\ Tail(<<"mn", "pub">>) = <<"pub">>
  OBVIOUS
<1> QED
  BY <1>1 DEF Remaining, WriteOrder

(* The address is the last item, and dealing with an item puts it behind.  *)
LEMMA Order ==
    /\ WriteOrder \in Remaining /\ WriteOrder # << >>
    /\ Behind(WriteOrder) = {} /\ Behind(<< >>) = Services
    /\ \A t \in Remaining \ {<< >>} :
         /\ Head(t) \in Services /\ Tail(t) \in Remaining
         /\ Behind(Tail(t)) = Behind(t) \cup {Head(t)}
         /\ Head(t) \notin Behind(t)
         /\ Len(t) > 1 => Head(t) # "pub" /\ Tail(t) # << >>
         /\ ~ (Len(t) > 1) => Head(t) = "pub" /\ Behind(t) = {"ct", "mn"} /\ Tail(t) = << >>
PROOF
<1>1. WriteOrder \in Remaining /\ WriteOrder # << >>
  BY RemainingItems DEF WriteOrder
<1>2. /\ Behind(<<"ct", "mn", "pub">>) = {}
      /\ Behind(<<"mn", "pub">>) = {"ct"}
      /\ Behind(<<"pub">>) = {"ct", "mn"}
      /\ Behind(<< >>) = Services
  BY DEF Behind, Services
<1>3. ASSUME NEW t \in Remaining \ {<< >>}
      PROVE  /\ Head(t) \in Services /\ Tail(t) \in Remaining
             /\ Behind(Tail(t)) = Behind(t) \cup {Head(t)}
             /\ Head(t) \notin Behind(t)
             /\ Len(t) > 1 => Head(t) # "pub" /\ Tail(t) # << >>
             /\ ~ (Len(t) > 1) => /\ Head(t) = "pub" /\ Behind(t) = {"ct", "mn"}
                                  /\ Tail(t) = << >>
  <2>1. CASE t = <<"ct", "mn", "pub">>
    <3>1. Head(t) = "ct" /\ Tail(t) = <<"mn", "pub">> /\ Len(t) = 3
      BY <2>1
    <3> QED
      BY <2>1, <3>1, <1>2, RemainingItems DEF Services
  <2>2. CASE t = <<"mn", "pub">>
    <3>1. Head(t) = "mn" /\ Tail(t) = <<"pub">> /\ Len(t) = 2
      BY <2>2
    <3> QED
      BY <2>2, <3>1, <1>2, RemainingItems DEF Services
  <2>3. CASE t = <<"pub">>
    <3>1. Head(t) = "pub" /\ Tail(t) = << >> /\ Len(t) = 1
      BY <2>3
    <3> QED
      BY <2>3, <3>1, <1>2, RemainingItems DEF Services
  <2> QED
    BY <2>1, <2>2, <2>3, RemainingItems
<1> QED
  BY <1>1, <1>2, <1>3 DEF WriteOrder

(* A device starts with an empty keychain, no call and no wallet.          *)
LEMMA InitVaultInv == VaultInit => VaultInv
PROOF
<1> SUFFICES ASSUME VaultInit PROVE VaultInv
  OBVIOUS
<1>1. VaultTypeOK
  BY BoundIsNat DEF VaultInit, VaultTypeOK
<1>2. \A d \in Devices : SeedsInv(d) /\ LoneInv(d)
  BY DEF VaultInit, SeedsInv, LoneInv, Address, Services, NoItem
<1> QED
  BY <1>1, <1>2 DEF VaultInv, CloudInv, VaultInit

-------------------------------------------------------------------------------
(* What a step of one device leaves alone. *)

CallSteps(d, c) ==
    \/ Establish(d, c) \/ LoadAnswers(d, c)
    \/ Wipe(d, c) \/ EraseVault(d, c) \/ WipeKey(d, c)

DeviceSteps(d) ==
    \/ Create(d) \/ Restore(d) \/ LoadFast(d) \/ LoadRecover(d) \/ Delete(d) \/ Sign(d)
    \/ \E c \in call[d] : CallSteps(d, c)
    \/ Kill(d) \/ Reenroll(d) \/ Upload(d) \/ Download(d)

Untouched(e) ==
    /\ enclave'[e] = enclave[e] /\ keychain'[e] = keychain[e] /\ vault'[e] = vault[e]
    /\ local'[e] = local[e] /\ call'[e] = call[e] /\ handle'[e] = handle[e]
    /\ signer'[e] = signer[e] /\ (e \in torn' <=> e \in torn)
    /\ (e \in crossed' <=> e \in crossed)

(* The stores, the calls and the wallet of a device are its own. *)
LEMMA OwnSteps ==
    ASSUME VaultTypeOK, NEW d \in Devices, DeviceSteps(d), NEW e \in Devices \ {d}
    PROVE  Untouched(e)
PROOF
<1> USE DEF Untouched, VaultTypeOK, store, app, phrases
<1>1. CASE Create(d) \/ Restore(d) \/ LoadRecover(d) \/ Delete(d)
  BY <1>1 DEF Create, Restore, LoadRecover, Delete, Begin, Starts
<1>2. CASE LoadFast(d) \/ Sign(d)
  BY <1>2 DEF LoadFast, Sign, Starts
<1>3. ASSUME NEW c \in call[d], CallSteps(d, c) PROVE Untouched(e)
  <2>1. CASE DropKey(d, c) \/ MintKey(d, c) \/ Erase(d, c) \/ EstablishFails(d, c)
    BY <2>1 DEF DropKey, MintKey, Erase, EstablishFails, Step, Becomes, Ends
  <2>2. CASE Add(d, c)
    BY <2>2 DEF Add, Step, Becomes
  <2>3. CASE EraseSeed(d, c) \/ AddSeed(d, c) \/ KeepLocal(d, c)
    BY <2>3 DEF EraseSeed, AddSeed, KeepLocal, Step, Becomes
  <2>4. CASE RegisterWallet(d, c) \/ LoadAnswers(d, c)
    BY <2>4 DEF RegisterWallet, LoadAnswers, Ends
  <2>5. CASE Wipe(d, c) \/ EraseVault(d, c) \/ WipeKey(d, c)
    BY <2>5 DEF Wipe, EraseVault, WipeKey, Step, Becomes, Ends
  <2> QED
    BY <1>3, <2>1, <2>2, <2>3, <2>4, <2>5 DEF CallSteps, Establish
<1>4. CASE Kill(d) \/ Reenroll(d) \/ Upload(d) \/ Download(d)
  BY <1>4 DEF Kill, Reenroll, Upload, Download
<1> QED
  BY <1>1, <1>2, <1>3, <1>4 DEF DeviceSteps

(* Seeds that have existed, wallets that have been provisioned and calls   *)
(* that have overlapped stay so; iCloud learns what a device holds.        *)
LEMMA HistoryGrows ==
    ASSUME NEW d \in Devices, DeviceSteps(d)
    PROVE  /\ known \subseteq known' /\ whole \subseteq whole' /\ crossed \subseteq crossed'
           /\ cloud' \in {cloud, vault[d]}
PROOF
<1> USE DEF store, app, phrases
<1>1. CASE Create(d) \/ Restore(d) \/ LoadRecover(d) \/ Delete(d) \/ LoadFast(d) \/ Sign(d)
  BY <1>1 DEF Create, Restore, LoadRecover, Delete, LoadFast, Sign, Begin, Starts
<1>2. ASSUME NEW c \in call[d], CallSteps(d, c)
      PROVE  /\ known \subseteq known' /\ whole \subseteq whole' /\ crossed \subseteq crossed'
             /\ cloud' = cloud
  BY <1>2 DEF CallSteps, Establish, DropKey, MintKey, Erase, EstablishFails, Add, EraseSeed, AddSeed,
         KeepLocal, RegisterWallet, LoadAnswers, Wipe, EraseVault, WipeKey
<1>3. CASE Kill(d) \/ Reenroll(d) \/ Upload(d) \/ Download(d)
  BY <1>3 DEF Kill, Reenroll, Upload, Download
<1> QED
  BY <1>1, <1>2, <1>3 DEF DeviceSteps

(* What is known of a device holds on while another one is at work. *)
LEMMA OthersKeep ==
    ASSUME VaultInv, NEW d \in Devices, DeviceSteps(d), NEW e \in Devices \ {d}
    PROVE  SeedsInv(e)' /\ (e \notin crossed' => LoneInv(e)')
PROOF
<1>1. Untouched(e) /\ SeedsInv(e) /\ (e \notin crossed => LoneInv(e))
  BY OwnSteps DEF VaultInv
<1>2. known \subseteq known' /\ whole \subseteq whole'
  BY HistoryGrows
<1>3. SeedsInv(e)'
  BY <1>1, <1>2 DEF SeedsInv, Untouched, Address
<1>4. ASSUME e \notin crossed' PROVE LoneInv(e)'
  <2>1. LoneInv(e)
    BY <1>1, <1>4 DEF Untouched
  <2>2. \A c \in call'[e] : LoneCall(e, c)'
    BY <1>1, <2>1 DEF LoneInv, LoneCall, Untouched, Address
  <2> QED
    BY <1>1, <2>1, <2>2 DEF LoneInv, Untouched, Address, Provisioned, CanUnwrap, Idle
<1> QED
  BY <1>3, <1>4

(* iCloud holds what a device held. *)
LEMMA CloudStep ==
    ASSUME VaultInv, NEW d \in Devices, DeviceSteps(d)
    PROVE  CloudInv'
PROOF
<1>1. cloud \in whole \cup {None} /\ vault[d] \in whole \cup {None}
  BY DEF VaultInv, CloudInv, SeedsInv
<1> QED
  BY <1>1, HistoryGrows DEF CloudInv

-------------------------------------------------------------------------------
(* The calls. *)

(* A call that goes on takes the place of what it was. *)
LEMMA Moves ==
    ASSUME call \in [Devices -> SUBSET Calls], NEW d \in Devices,
           NEW c \in call[d], NEW n \in Calls, Becomes(d, c, n)
    PROVE  /\ call' \in [Devices -> SUBSET Calls]
           /\ call'[d] = (call[d] \ {c}) \cup {n}
PROOF BY DEF Becomes

(* A step changes where a call is, and nothing else of it. *)
LEMMA StepFields ==
    ASSUME NEW c \in Calls, NEW at \in Steps
    PROVE  LET n == [c EXCEPT !.at = at] IN
           /\ n \in Calls /\ n.at = at /\ n.seed = c.seed /\ n.key = c.key /\ n.todo = c.todo
PROOF BY DEF Calls

(* What a call carries, and that it has items while it works on them. *)
LEMMA CallFields ==
    ASSUME VaultInv, NEW d \in Devices, NEW c \in call[d]
    PROVE  /\ c \in Calls /\ WellFormed(c) /\ CallInv(c)
           /\ c.seed \in Seeds /\ c.key \in EnclaveKeys \cup {None} /\ c.todo \in Remaining
           /\ c.at \in {"erase", "add", "wipe"} =>
                c.todo \in Remaining \ {<< >>} /\ Head(c.todo) \in Services
PROOF
<1>1. c \in Calls /\ WellFormed(c) /\ CallInv(c)
  BY DEF VaultInv, VaultTypeOK, WellFormed
<1>2. c.seed \in Seeds /\ c.key \in EnclaveKeys \cup {None} /\ c.todo \in Remaining
  BY <1>1 DEF Calls
<1> QED
  BY <1>1, <1>2, Order DEF WellFormed

(* A call of the app begins with everything left to write or wipe. *)
LEMMA Beginnings ==
    ASSUME VaultInv, NEW d \in Devices,
           Create(d) \/ Restore(d) \/ LoadRecover(d) \/ Delete(d)
    PROVE  \E at \in {"dropKey", "wipe"}, n \in Calls :
             /\ Starts(d, n) /\ calls' \in 0 .. MaxCalls
             /\ n.at = at /\ n.todo = WriteOrder /\ n.seed \in known'
             /\ at = "dropKey" => handle[d] = None
             /\ at = "wipe" => handle[d] # None
             /\ UNCHANGED <<store, handle, signer, whole, torn>>
PROOF
<1>1. /\ vault[d] \in whole \cup {None} /\ local[d] \in whole \cup {None}
      /\ handle[d] \in whole \cup {None} /\ whole \subseteq known /\ known \subseteq Seeds
      /\ calls \in 0 .. MaxCalls
  BY DEF VaultInv, VaultTypeOK, SeedsInv
<1>2. /\ UNCHANGED <<store, handle, signer, whole, torn>>
      /\ known \subseteq known'
  BY DEF Create, Restore, LoadRecover, Delete, app, phrases
<1>3. \E kind \in Kinds, at \in {"dropKey", "wipe"}, s \in Seeds :
        /\ Begin(d, kind, at, s)
        /\ s \in known'
        /\ at = "dropKey" => handle[d] = None
        /\ at = "wipe" => handle[d] # None
  <2>1. CASE Create(d) \/ Restore(d)
    BY <2>1 DEF Create, Restore, Offered, Kinds
  <2>2. CASE LoadRecover(d)
    <3>1. PICK s \in RecoverySeeds(d) : Begin(d, "recover", "dropKey", s)
      BY <2>2 DEF LoadRecover
    <3>2. s \in Seeds /\ s \in known'
      BY <1>1, <1>2 DEF RecoverySeeds
    <3> QED
      BY <2>2, <3>1, <3>2 DEF LoadRecover, Loads, Kinds
  <2>3. CASE Delete(d)
    BY <1>1, <1>2, <2>3 DEF Delete, Kinds
  <2> QED
    BY <2>1, <2>2, <2>3
<1>4. PICK kind \in Kinds, at \in {"dropKey", "wipe"}, s \in Seeds :
        /\ Begin(d, kind, at, s)
        /\ s \in known'
        /\ at = "dropKey" => handle[d] = None
        /\ at = "wipe" => handle[d] # None
  BY <1>3
<1>5. calls' \in 0 .. MaxCalls
  BY <1>1, <1>4, BoundIsNat DEF Begin
<1> DEFINE n == [no |-> calls', kind |-> kind, at |-> at, seed |-> s, key |-> None,
                 todo |-> WriteOrder]
<1>6. n \in Calls
  BY <1>5, Order DEF Calls, Steps
<1>7. Starts(d, n) /\ n.at = at /\ n.todo = WriteOrder /\ n.seed = s
  BY <1>4 DEF Begin
<1> HIDE DEF n
<1> QED
  BY <1>2, <1>4, <1>5, <1>6, <1>7

(* The fast path answers the address it has read. *)
LEMMA FastLoads ==
    ASSUME VaultInv, NEW d \in Devices, LoadFast(d)
    PROVE  \E n \in Calls :
             /\ Starts(d, n) /\ n.at = "answer" /\ n.seed = Address(d)
             /\ Address(d) \in whole /\ handle[d] = None
             /\ UNCHANGED <<calls, store, app, known, whole, torn>>
PROOF
<1>1. Address(d) \in whole /\ whole \subseteq known /\ known \subseteq Seeds
  BY DEF VaultInv, VaultTypeOK, SeedsInv, LoadFast
<1> DEFINE n == [no |-> 0, kind |-> "load", at |-> "answer", key |-> None, todo |-> <<>>,
                 seed |-> Address(d)]
<1>2. n \in Calls
  BY <1>1, Order, BoundIsNat, RemainingItems DEF Calls, Steps, Kinds
<1> QED
  BY <1>1, <1>2 DEF LoadFast, Loads, phrases

(* What a step leaves of the calls of its device: those that were there    *)
(* and at most one that is new or has gone on.                             *)
LEMMA CallStep ==
    ASSUME VaultInv, NEW d \in Devices, DeviceSteps(d)
    PROVE  /\ call' \in [Devices -> SUBSET Calls] /\ calls' \in 0 .. MaxCalls
           /\ \A c \in call'[d] : WellFormed(c) /\ CallInv(c)'
PROOF
<1>0. call \in [Devices -> SUBSET Calls] /\ calls \in 0 .. MaxCalls
  BY DEF VaultInv, VaultTypeOK
<1>1. known \subseteq known' /\ whole \subseteq whole'
  BY HistoryGrows
<1>2. \A c \in call[d] : c \in Calls /\ WellFormed(c) /\ CallInv(c)'
  <2>1. \A c \in call[d] : c \in Calls /\ WellFormed(c) /\ CallInv(c)
    BY CallFields
  <2> QED
    BY <1>1, <2>1 DEF CallInv
<1>3. CASE Create(d) \/ Restore(d) \/ LoadRecover(d) \/ Delete(d)
  <2>1. PICK at \in {"dropKey", "wipe"}, n \in Calls :
          /\ Starts(d, n) /\ calls' \in 0 .. MaxCalls
          /\ n.at = at /\ n.todo = WriteOrder /\ n.seed \in known'
    BY <1>3, Beginnings
  <2>2. WellFormed(n) /\ CallInv(n)'
    BY <2>1, Order DEF WellFormed, CallInv, Established
  <2>3. call' = [call EXCEPT ![d] = @ \cup {n}]
    BY <2>1 DEF Starts
  <2> QED
    BY <1>0, <1>2, <2>1, <2>2, <2>3
<1>4. CASE LoadFast(d)
  <2>1. PICK n \in Calls :
          /\ Starts(d, n) /\ n.at = "answer" /\ n.seed = Address(d) /\ Address(d) \in whole
          /\ UNCHANGED <<calls, known, whole>>
    BY <1>4, FastLoads
  <2>2. whole \subseteq known
    BY DEF VaultInv, VaultTypeOK
  <2>3. WellFormed(n) /\ CallInv(n)'
    BY <2>1, <2>2 DEF WellFormed, CallInv
  <2>4. call' = [call EXCEPT ![d] = @ \cup {n}]
    BY <2>1 DEF Starts
  <2> QED
    BY <1>0, <1>2, <2>1, <2>3, <2>4
<1>5. CASE Sign(d) \/ Reenroll(d) \/ Upload(d) \/ Download(d) \/ Kill(d)
  <2>1. call' \in {call, [call EXCEPT ![d] = {}]} /\ calls' = calls
    BY <1>5 DEF Sign, Reenroll, Upload, Download, Kill
  <2> QED
    BY <1>0, <1>2, <2>1
<1>6. ASSUME NEW c \in call[d], CallSteps(d, c)
      PROVE  /\ call' \in [Devices -> SUBSET Calls] /\ calls' = calls
             /\ \A x \in call'[d] : x \in call[d] \/ (WellFormed(x) /\ CallInv(x)')
  <2>0. /\ c \in Calls /\ WellFormed(c) /\ CallInv(c) /\ c.todo \in Remaining
        /\ c.key \in EnclaveKeys \cup {None}
        /\ c.at \in {"erase", "add", "wipe"} => c.todo \in Remaining \ {<< >>}
    BY CallFields
  <2>00. calls' = calls
    BY <1>6 DEF CallSteps, Establish, DropKey, MintKey, Erase, EstablishFails, Add, EraseSeed, AddSeed,
         KeepLocal, RegisterWallet, LoadAnswers, Wipe, EraseVault, WipeKey
  <2>1. ASSUME NEW n \in Calls, Becomes(d, c, n), WellFormed(n), CallInv(n)'
        PROVE  /\ call' \in [Devices -> SUBSET Calls]
               /\ \A x \in call'[d] : x \in call[d] \/ (WellFormed(x) /\ CallInv(x)')
    BY <1>0, <2>1, Moves
  <2>2. ASSUME NEW at \in Steps, Step(d, c, at),
               at \in Established => c.seed \in whole',
               at \in {"dropKey", "mintKey"} => c.todo = WriteOrder,
               at \in {"erase", "add"} => c.key # None,
               at \in {"erase", "add", "wipe"} => c.todo # << >>
        PROVE  /\ call' \in [Devices -> SUBSET Calls]
               /\ \A x \in call'[d] : x \in call[d] \/ (WellFormed(x) /\ CallInv(x)')
    <3> DEFINE n == [c EXCEPT !.at = at]
    <3>1. n \in Calls /\ n.at = at /\ n.seed = c.seed /\ n.key = c.key /\ n.todo = c.todo
      BY <2>0, StepFields
    <3>2. Becomes(d, c, n)
      BY <2>2 DEF Step
    <3>3. c.seed \in known'
      BY <1>1, <2>0 DEF CallInv
    <3> HIDE DEF n
    <3>4. WellFormed(n) /\ CallInv(n)'
      BY <2>2, <3>1, <3>3 DEF WellFormed, CallInv
    <3> QED
      BY <2>1, <3>1, <3>2, <3>4
  <2>3. CASE DropKey(d, c)
    BY <2>0, <2>2, <2>3 DEF DropKey, CallInv, Steps, Established
  <2>4. CASE MintKey(d, c)
    <3>1. PICK e \in EnclaveKeys : Becomes(d, c, [c EXCEPT !.at = "erase", !.key = e])
      BY <2>4 DEF MintKey
    <3> DEFINE n == [c EXCEPT !.at = "erase", !.key = e]
    <3>2. /\ n \in Calls /\ n.at = "erase" /\ n.key = e /\ n.todo = WriteOrder
          /\ n.seed = c.seed
      BY <2>0, <2>4 DEF MintKey, CallInv, Calls, Steps
    <3>3. c.seed \in known'
      BY <1>1, <2>0 DEF CallInv
    <3>4. Becomes(d, c, n)
      BY <3>1
    <3> HIDE DEF n
    <3>5. WellFormed(n) /\ CallInv(n)'
      BY <3>2, <3>3, Order, NoneDistinct DEF WellFormed, CallInv, Established
    <3> QED
      BY <2>1, <2>00, <3>2, <3>4, <3>5
  <2>5. CASE Erase(d, c)
    BY <2>0, <2>00, <2>2, <2>5 DEF Erase, WellFormed, Steps, Established
  <2>6. CASE Add(d, c)
    <3>1. CASE Len(c.todo) > 1
      <4> DEFINE n == [c EXCEPT !.at = "erase", !.todo = Tail(c.todo)]
      <4>1. Tail(c.todo) \in Remaining /\ Tail(c.todo) # << >>
        BY <2>0, <2>6, <3>1, Order DEF Add
      <4>2. /\ n \in Calls /\ n.at = "erase" /\ n.key = c.key /\ n.todo = Tail(c.todo)
            /\ n.seed = c.seed
        BY <2>0, <4>1 DEF Calls, Steps
      <4>3. Becomes(d, c, n)
        BY <2>6, <3>1 DEF Add
      <4>4. c.seed \in known' /\ c.key # None
        BY <1>1, <2>0, <2>6 DEF CallInv, WellFormed, Add
      <4> HIDE DEF n
      <4>5. WellFormed(n) /\ CallInv(n)'
        BY <4>1, <4>2, <4>4 DEF WellFormed, CallInv, Established
      <4> QED
        BY <2>1, <2>00, <4>2, <4>3, <4>5
    <3>2. CASE ~ (Len(c.todo) > 1)
      <4>1. /\ Step(d, c, AfterItems(c.kind)) /\ c.seed \in whole'
            /\ AfterItems(c.kind) \in {"register", "eraseSeed"}
        BY <2>6, <3>2 DEF Add, AfterItems
      <4> QED
        BY <2>00, <2>2, <4>1 DEF Steps
    <3> QED
      BY <3>1, <3>2
  <2>7. CASE EraseSeed(d, c) \/ AddSeed(d, c) \/ KeepLocal(d, c) \/ EraseVault(d, c)
    <3>1. \E at \in {"addSeed", "register", "eraseLocal", "addLocal", "wipeKey"} :
            /\ Step(d, c, at)
            /\ at # "wipeKey" => c.at \in Established
      BY <2>7 DEF EraseSeed, AddSeed, KeepLocal, EraseVault, Established
    <3>2. PICK at \in {"addSeed", "register", "eraseLocal", "addLocal", "wipeKey"} :
            /\ Step(d, c, at)
            /\ at # "wipeKey" => c.at \in Established
      BY <3>1
    <3>3. at \in Steps /\ at \notin {"dropKey", "mintKey", "erase", "add", "wipe"}
          /\ "wipeKey" \notin Established
      BY DEF Steps, Established
    <3>4. at \in Established => c.seed \in whole'
      BY <1>1, <2>0, <3>2, <3>3 DEF CallInv
    <3> QED
      BY <2>00, <2>2, <3>2, <3>3, <3>4
  <2>8. CASE \/ EstablishFails(d, c) \/ RegisterWallet(d, c) \/ LoadAnswers(d, c)
             \/ WipeKey(d, c)
    <3>1. call' = [call EXCEPT ![d] = @ \ {c}]
      BY <2>8 DEF EstablishFails, RegisterWallet, LoadAnswers, WipeKey, Ends
    <3> QED
      BY <1>0, <2>00, <3>1
  <2>9. CASE Wipe(d, c)
    <3>1. PICK at \in {"wipe", "eraseVault"} :
            at = IF Len(c.todo) > 1 THEN "wipe" ELSE "eraseVault"
      OBVIOUS
    <3> DEFINE n == [c EXCEPT !.at = at, !.todo = Tail(c.todo)]
    <3>2. /\ Tail(c.todo) \in Remaining
          /\ Len(c.todo) > 1 => Tail(c.todo) # << >>
      BY <2>0, <2>9, Order DEF Wipe
    <3>3. n \in Calls /\ n.at = at /\ n.todo = Tail(c.todo) /\ n.seed = c.seed
      BY <2>0, <3>2 DEF Calls, Steps
    <3>4. Becomes(d, c, n)
      BY <2>9, <3>1 DEF Wipe
    <3>5. c.seed \in known'
      BY <1>1, <2>0 DEF CallInv
    <3> HIDE DEF n
    <3>6. WellFormed(n) /\ CallInv(n)'
      BY <3>1, <3>2, <3>3, <3>5 DEF WellFormed, CallInv, Established
    <3> QED
      BY <2>1, <2>00, <3>3, <3>4, <3>6
  <2> QED
    BY <1>6, <2>00, <2>3, <2>4, <2>5, <2>6, <2>7, <2>8, <2>9 DEF CallSteps, Establish
<1> QED
  BY <1>0, <1>2, <1>3, <1>4, <1>5, <1>6 DEF DeviceSteps

-------------------------------------------------------------------------------
(* The stores. *)

StoreTypes ==
    /\ enclave \in [Devices -> SUBSET EnclaveKeys]
    /\ keychain \in [Devices -> [Services -> Item \cup {NoItem}]]
    /\ \A d \in Devices, s \in Services :
         keychain[d][s] # NoItem => (keychain[d][s].under = None <=> s = "pub")
    /\ vault \in [Devices -> Seeds \cup {None}]
    /\ local \in [Devices -> Seeds \cup {None}]
    /\ cloud \in Seeds \cup {None}
    /\ unsent \subseteq Devices /\ torn \subseteq Devices /\ crossed \subseteq Devices
    /\ handle \in [Devices -> Seeds \cup {None}]
    /\ signer \in [Devices -> Seeds \cup {None}]
    /\ whole \subseteq known /\ known \subseteq Seeds

(* A step of a device leaves its stores, and iCloud, of their types.       *)
LEMMA StoreTypeStep ==
    ASSUME VaultInv, NEW d \in Devices, DeviceSteps(d)
    PROVE  StoreTypes'
PROOF
<1>0. StoreTypes
  BY DEF VaultInv, VaultTypeOK, StoreTypes
<1> USE DEF StoreTypes, store, app, phrases
<1>1. CASE Create(d) \/ Restore(d) \/ LoadRecover(d) \/ Delete(d) \/ LoadFast(d)
  <2>1. crossed' \subseteq Devices
    BY <1>0, <1>1 DEF Create, Restore, LoadRecover, Delete, LoadFast, Begin, Starts
  <2> QED
    BY <1>0, <1>1, <2>1 DEF Create, Restore, LoadRecover, Delete, LoadFast
<1>2. CASE Sign(d)
  <2>1. keychain[d]["ct"] \in Item \cup {NoItem}
    BY <1>0 DEF Services
  <2>2. keychain[d]["ct"].seed \in Seeds \cup {None}
    BY <2>1 DEF Item, NoItem
  <2> QED
    BY <1>0, <1>2, <2>2 DEF Sign
<1>3. ASSUME NEW c \in call[d], CallSteps(d, c) PROVE StoreTypes'
  <2>0. /\ c \in Calls /\ WellFormed(c) /\ CallInv(c) /\ c.seed \in Seeds
        /\ c.key \in EnclaveKeys \cup {None}
        /\ c.at \in {"erase", "add", "wipe"} => Head(c.todo) \in Services
    BY CallFields
  <2>1. CASE DropKey(d, c) \/ EstablishFails(d, c)
    <3>1. enclave' \in [Devices -> SUBSET EnclaveKeys] /\ torn' \subseteq Devices
      BY <1>0, <2>1 DEF DropKey, EstablishFails
    <3> QED
      BY <1>0, <2>1, <3>1 DEF DropKey, EstablishFails
  <2>2. CASE MintKey(d, c)
    <3>1. PICK e \in EnclaveKeys : enclave' = [enclave EXCEPT ![d] = @ \cup {e}]
      BY <2>2 DEF MintKey
    <3>2. enclave' \in [Devices -> SUBSET EnclaveKeys]
      BY <1>0, <3>1
    <3> QED
      BY <1>0, <2>2, <3>2 DEF MintKey
  <2>3. CASE Erase(d, c) \/ Wipe(d, c)
    <3>1. Head(c.todo) \in Services
      BY <2>0, <2>3 DEF Erase, Wipe
    <3>2. keychain' \in {keychain, [keychain EXCEPT ![d][Head(c.todo)] = NoItem]}
      BY <2>3 DEF Erase, Wipe
    <3>3. /\ keychain' \in [Devices -> [Services -> Item \cup {NoItem}]]
          /\ \A e \in Devices, s \in Services : keychain'[e][s] \in {keychain[e][s], NoItem}
      <4>1. keychain \in [Devices -> [Services -> Item \cup {NoItem}]]
        BY <1>0
      <4>2. CASE keychain' = keychain
        BY <4>1, <4>2
      <4>3. CASE keychain' = [keychain EXCEPT ![d][Head(c.todo)] = NoItem]
        BY <3>1, <4>1, <4>3
      <4> QED
        BY <3>2, <4>2, <4>3
    <3>4. torn' \subseteq Devices
      BY <1>0, <2>3 DEF Erase, Wipe
    <3>5. UNCHANGED <<enclave, vault, unsent, local, cloud, handle, known, whole, signer, crossed>>
      BY <2>3 DEF Erase, Wipe
    <3> QED
      BY <1>0, <3>3, <3>4, <3>5
  <2>4. CASE Add(d, c)
    <3>1. Head(c.todo) \in Services /\ c.key \in EnclaveKeys /\ c.seed \in known
      BY <2>0, <2>4 DEF Add, CallInv, WellFormed
    <3> DEFINE item == [seed |-> c.seed, under |-> IF Head(c.todo) = "pub" THEN None ELSE c.key]
    <3>2. item \in Item /\ (item.under = None <=> Head(c.todo) = "pub")
      BY <2>0, <3>1, NoneDistinct DEF Item
    <3>3. keychain' = [keychain EXCEPT ![d][Head(c.todo)] = item]
      BY <2>4 DEF Add
    <3> HIDE DEF item
    <3>4. keychain' \in [Devices -> [Services -> Item \cup {NoItem}]]
      BY <1>0, <3>1, <3>2, <3>3
    <3>5. \A e \in Devices, s \in Services :
            \/ keychain'[e][s] = keychain[e][s]
            \/ s = Head(c.todo) /\ keychain'[e][s] = item
      BY <1>0, <3>1, <3>3
    <3>6. /\ torn' \subseteq Devices /\ whole' \subseteq known'
          /\ UNCHANGED <<enclave, vault, unsent, local, cloud, handle, known, signer, crossed>>
      BY <1>0, <2>4, <3>1 DEF Add
    <3>7. \A e \in Devices, s \in Services :
            keychain'[e][s] # NoItem => (keychain'[e][s].under = None <=> s = "pub")
      BY <1>0, <3>2, <3>5
    <3> QED
      BY <1>0, <3>4, <3>6, <3>7
  <2>5. CASE EraseSeed(d, c) \/ AddSeed(d, c) \/ KeepLocal(d, c)
    BY <1>0, <2>0, <2>5 DEF EraseSeed, AddSeed, KeepLocal
  <2>6. CASE RegisterWallet(d, c) \/ LoadAnswers(d, c)
    BY <1>0, <2>0, <2>6 DEF RegisterWallet, LoadAnswers
  <2>7. CASE EraseVault(d, c)
    BY <1>0, <2>7 DEF EraseVault
  <2>8. CASE WipeKey(d, c)
    BY <1>0, <2>8 DEF WipeKey
  <2> QED
    BY <1>3, <2>1, <2>2, <2>3, <2>4, <2>5, <2>6, <2>7, <2>8 DEF CallSteps, Establish
<1>4. CASE Kill(d) \/ Reenroll(d)
  BY <1>0, <1>4 DEF Kill, Reenroll
<1>5. CASE Upload(d) \/ Download(d)
  BY <1>0, <1>5 DEF Upload, Download
<1> QED
  BY <1>1, <1>2, <1>3, <1>4, <1>5 DEF DeviceSteps

(* What a device stores, shows or hands out is what it did before, what    *)
(* iCloud brings, or the wallet of a call that has written all of it.      *)
LEMMA SeedsStep ==
    ASSUME VaultInv, NEW d \in Devices, DeviceSteps(d)
    PROVE  SeedsInv(d)'
PROOF
<1>0. SeedsInv(d) /\ CloudInv
  BY DEF VaultInv
<1>1. /\ keychain \in [Devices -> [Services -> Item \cup {NoItem}]]
      /\ vault \in [Devices -> Seeds \cup {None}] /\ local \in [Devices -> Seeds \cup {None}]
      /\ handle \in [Devices -> Seeds \cup {None}]
  BY DEF VaultInv, VaultTypeOK
<1>2. whole \subseteq whole'
  BY HistoryGrows
<1>3. ASSUME vault'[d] \in {vault[d], None} \cup whole', local'[d] \in {local[d], None} \cup whole',
             Address(d)' \in {Address(d), None} \cup whole',
             handle'[d] \in {handle[d], None} \cup whole'
      PROVE  SeedsInv(d)'
  BY <1>0, <1>2, <1>3 DEF SeedsInv, Address
<1>4. CASE \/ Create(d) \/ Restore(d) \/ LoadRecover(d) \/ Delete(d) \/ LoadFast(d) \/ Sign(d)
           \/ Reenroll(d)
  <2>1. UNCHANGED <<keychain, vault, local, handle>>
    BY <1>4 DEF Create, Restore, LoadRecover, Delete, LoadFast, Sign, Reenroll, store, app
  <2> QED
    BY <1>3, <2>1 DEF Address
<1>5. CASE Kill(d) \/ Upload(d) \/ Download(d)
  <2>1. /\ UNCHANGED <<keychain, local>> /\ vault'[d] \in {vault[d], cloud}
        /\ handle'[d] \in {handle[d], None}
    BY <1>1, <1>5 DEF Kill, Upload, Download, store, app
  <2> QED
    BY <1>0, <1>2, <1>3, <2>1 DEF Address, CloudInv
<1>6. ASSUME NEW c \in call[d], CallSteps(d, c) PROVE SeedsInv(d)'
  <2>0. /\ CallInv(c)
        /\ c.at \in {"erase", "add", "wipe"} => Head(c.todo) \in Services
    BY CallFields
  <2>1. CASE DropKey(d, c) \/ MintKey(d, c) \/ EstablishFails(d, c)
    <3>1. UNCHANGED <<keychain, vault, local, handle>>
      BY <2>1 DEF DropKey, MintKey, EstablishFails, store, app
    <3> QED
      BY <1>3, <3>1 DEF Address
  <2>2. CASE Erase(d, c) \/ Wipe(d, c)
    <3>1. /\ keychain' \in {keychain, [keychain EXCEPT ![d][Head(c.todo)] = NoItem]}
          /\ Head(c.todo) \in Services /\ UNCHANGED <<vault, local, handle>>
      BY <2>0, <2>2 DEF Erase, Wipe, app
    <3>2. Address(d)' \in {Address(d), None}
      BY <1>1, <3>1 DEF Address, NoItem, Services
    <3> QED
      BY <1>3, <3>1, <3>2
  <2>3. CASE Add(d, c)
    <3>1. /\ Head(c.todo) \in Services /\ UNCHANGED <<vault, local, handle>>
      BY <2>0, <2>3 DEF Add, app
    <3> DEFINE item == [seed |-> c.seed, under |-> IF Head(c.todo) = "pub" THEN None ELSE c.key]
    <3>2. keychain' = [keychain EXCEPT ![d][Head(c.todo)] = item] /\ item.seed = c.seed
      BY <2>3 DEF Add
    <3> HIDE DEF item
    <3>3. Head(c.todo) # "pub" => Address(d)' = Address(d)
      BY <1>1, <3>1, <3>2 DEF Address, Services
    <3>4. Head(c.todo) = "pub" => Address(d)' = c.seed
      BY <1>1, <3>2 DEF Address, Services
    <3>5. Head(c.todo) = "pub" => c.seed \in whole'
      <4>1. c.todo \in Remaining \ {<< >>}
        BY <2>3, CallFields DEF Add
      <4>2. Head(c.todo) = "pub" => ~ (Len(c.todo) > 1)
        BY <4>1, Order
      <4> QED
        BY <2>3, <4>2 DEF Add
    <3> QED
      BY <1>3, <3>1, <3>3, <3>4, <3>5
  <2>4. CASE EraseSeed(d, c) \/ AddSeed(d, c) \/ KeepLocal(d, c) \/ EraseVault(d, c)
    <3>1. /\ vault'[d] \in {vault[d], None, c.seed} /\ local'[d] \in {local[d], None, c.seed}
          /\ UNCHANGED <<keychain, handle>>
          /\ (vault'[d] \notin {vault[d], None} \/ local'[d] \notin {local[d], None})
               => c.at \in Established
      <4>1. CASE EraseSeed(d, c) \/ EraseVault(d, c)
        BY <1>1, <4>1 DEF EraseSeed, EraseVault, app
      <4>2. CASE AddSeed(d, c) \/ KeepLocal(d, c)
        BY <1>1, <4>2 DEF AddSeed, KeepLocal, app, Established
      <4> QED
        BY <2>4, <4>1, <4>2
    <3>2. c.at \in Established => c.seed \in whole'
      BY <1>2, <2>0 DEF CallInv
    <3> QED
      BY <1>3, <3>1, <3>2 DEF Address
  <2>5. CASE RegisterWallet(d, c) \/ LoadAnswers(d, c)
    <3>1. /\ UNCHANGED <<keychain, vault, local>> /\ handle'[d] \in {handle[d], c.seed}
          /\ c.at \in Established
      BY <1>1, <2>5 DEF RegisterWallet, LoadAnswers, store, Established
    <3>2. c.seed \in whole'
      BY <1>2, <2>0, <3>1 DEF CallInv
    <3> QED
      BY <1>3, <3>1, <3>2 DEF Address
  <2>6. CASE WipeKey(d, c)
    <3>1. UNCHANGED <<keychain, vault, local>> /\ handle'[d] = None
      BY <1>1, <2>6 DEF WipeKey
    <3> QED
      BY <1>3, <3>1 DEF Address
  <2> QED
    BY <1>6, <2>1, <2>2, <2>3, <2>4, <2>5, <2>6 DEF CallSteps, Establish
<1> QED
  BY <1>4, <1>5, <1>6 DEF DeviceSteps

-------------------------------------------------------------------------------
(* What a step leaves behind on a device whose calls have not overlapped.  *)

(* What may be used of such a device: the call that takes a step is the    *)
(* only one.                                                               *)
LEMMA Lone ==
    ASSUME VaultInv, NEW d \in Devices \ crossed, NEW c \in call[d]
    PROVE  /\ LoneInv(d) /\ LoneCall(d, c) /\ call[d] = {c}
           /\ c \in Calls /\ WellFormed(c) /\ CallInv(c)
PROOF BY CallFields DEF VaultInv, LoneInv, LoneCall

(* What it becomes is the only one, too. *)
LEMMA LoneMoves ==
    ASSUME VaultInv, NEW d \in Devices \ crossed, NEW c \in call[d], NEW n \in Calls,
           Becomes(d, c, n)
    PROVE  call'[d] = {n}
PROOF
<1>1. call \in [Devices -> SUBSET Calls] /\ d \in Devices
  BY DEF VaultInv, VaultTypeOK
<1>2. call'[d] = (call[d] \ {c}) \cup {n}
  BY <1>1, Moves
<1>3. call[d] = {c}
  BY Lone
<1> QED
  BY <1>2, <1>3

(* A call that begins promises nothing yet.                                *)
LEMMA BeginKeeps ==
    ASSUME VaultInv, NEW d \in Devices \ crossed',
           \/ Create(d) \/ Restore(d) \/ LoadRecover(d) \/ Delete(d)
           \/ LoadFast(d)
    PROVE  LoneInv(d)'
PROOF
<1>1. PICK n \in Calls :
        /\ Starts(d, n)
        /\ UNCHANGED <<store, handle, signer, torn>>
        /\ n.at \in {"dropKey", "wipe", "answer"}
        /\ n.at \in {"dropKey", "answer"} => handle[d] = None
        /\ n.at = "wipe" => handle[d] # None /\ n.todo = WriteOrder
        /\ n.at = "answer" => n.seed = Address(d)
  <2>1. CASE Create(d) \/ Restore(d) \/ LoadRecover(d) \/ Delete(d)
    BY <2>1, Beginnings
  <2>2. CASE LoadFast(d)
    <3>1. PICK n \in Calls :
            /\ Starts(d, n) /\ n.at = "answer" /\ n.seed = Address(d)
            /\ handle[d] = None
            /\ UNCHANGED <<store, app, torn>>
      BY <2>2, FastLoads
    <3> QED
      BY <3>1 DEF app
  <2> QED
    BY <2>1, <2>2
<1>2. Idle(d) /\ d \notin crossed
  BY <1>1 DEF Starts
<1>3. call'[d] = {n}
  <2>1. call \in [Devices -> SUBSET Calls] /\ call[d] = {}
    BY <1>2 DEF VaultInv, VaultTypeOK, Idle
  <2> QED
    BY <1>1, <2>1 DEF Starts
<1>4. LoneInv(d)
  BY <1>2 DEF VaultInv
<1>5. UNCHANGED <<enclave, keychain, handle, signer, torn>>
  BY <1>1 DEF store
<1>6. LoneCall(d, n)'
  BY <1>1, <1>2, <1>3, <1>4, <1>5
     DEF LoneCall, LoneInv, Address, Establishing, Established, Deleting
<1>7. ~ Idle(d)'
  BY <1>3 DEF Idle
<1> QED
  BY <1>3, <1>4, <1>5, <1>6, <1>7 DEF LoneInv, Address, Provisioned, CanUnwrap

(* The wallet that is open shows the address in the keychain, and what it  *)
(* signs is signed by the key beside it.                                   *)
LEMMA SignKeeps ==
    ASSUME VaultInv, NEW d \in Devices \ crossed', Sign(d)
    PROVE  LoneInv(d)'
PROOF
<1>1. /\ UNCHANGED <<enclave, keychain, call, handle, torn, crossed>>
      /\ handle[d] # None /\ keychain[d]["ct"].under \in enclave[d]
  BY DEF Sign, store
<1>2. LoneInv(d)
  BY <1>1 DEF VaultInv
<1>3. signer'[d] = keychain[d]["ct"].seed
  BY DEF Sign, VaultInv, VaultTypeOK
<1>4. d \notin torn => Address(d) = handle[d]
  <2>1. CASE Idle(d)
    BY <1>1, <1>2, <2>1 DEF LoneInv
  <2>2. CASE ~ Idle(d)
    <3>1. PICK c \in call[d] : LoneCall(d, c) /\ c \in Calls
      BY <1>2, <2>2 DEF Idle, LoneInv, VaultInv, VaultTypeOK
    <3>2. c.at \in Establishing \cup Deleting
      BY <3>1 DEF Calls, Steps, Establishing, Established, Deleting
    <3> QED
      BY <1>1, <3>1, <3>2 DEF LoneCall
  <2> QED
    BY <2>1, <2>2
<1>5. d \notin torn => signer'[d] = handle[d]
  BY <1>1, <1>2, <1>3, <1>4 DEF LoneInv, Provisioned
<1>6. \A c \in call'[d] : LoneCall(d, c)'
  BY <1>1, <1>2 DEF LoneInv, LoneCall, Address
<1> QED
  BY <1>1, <1>2, <1>5, <1>6 DEF LoneInv, Address, Provisioned, CanUnwrap, Idle

(* From the moment the enclave key is dropped until the last item is       *)
(* written the device shows no address, unless it is torn; the items that  *)
(* are written belong together.                                            *)
LEMMA EstablishKeeps ==
    ASSUME VaultInv, NEW d \in Devices \ crossed', NEW c \in call[d],
           DropKey(d, c) \/ MintKey(d, c) \/ Erase(d, c) \/ EstablishFails(d, c)
    PROVE  LoneInv(d)'
PROOF
<1>0. /\ UNCHANGED <<handle, signer, crossed>> /\ d \notin crossed
      /\ c.at \in {"dropKey", "mintKey", "erase", "add"}
  BY DEF DropKey, MintKey, Erase, EstablishFails, app
<1>1. /\ LoneInv(d) /\ LoneCall(d, c) /\ call[d] = {c}
      /\ c \in Calls /\ WellFormed(c) /\ CallInv(c)
  BY <1>0, Lone
<1>2. handle[d] = None /\ signer[d] = None
  BY <1>0, <1>1 DEF LoneCall, LoneInv, Establishing
<1>3. /\ call \in [Devices -> SUBSET Calls]
      /\ keychain \in [Devices -> [Services -> Item \cup {NoItem}]]
      /\ enclave \in [Devices -> SUBSET EnclaveKeys]
  BY DEF VaultInv, VaultTypeOK
<1>4. ASSUME NEW n \in Calls, Becomes(d, c, n), n.at \in {"mintKey", "erase", "add"},
             d \notin torn' => Address(d)' = None,
             n.at = "mintKey" /\ d \notin torn' => enclave'[d] = {},
             n.at \in {"erase", "add"} /\ d \notin torn' => enclave'[d] = {n.key},
             n.at \in {"erase", "add"} =>
               \A s \in Behind(n.todo) : keychain'[d][s] = [seed |-> n.seed, under |-> n.key]
      PROVE  LoneInv(d)'
  <2>1. call'[d] = {n}
    BY <1>0, <1>4, LoneMoves
  <2>2. LoneCall(d, n)'
    BY <1>0, <1>2, <1>4, <2>1 DEF LoneCall, Establishing, Established, Deleting
  <2> QED
    BY <1>0, <1>2, <1>4, <2>1, <2>2 DEF LoneInv
<1>5. CASE DropKey(d, c)
  <2> DEFINE n == [c EXCEPT !.at = "mintKey"]
  <2>1. n \in Calls /\ n.at = "mintKey"
    BY <1>1, StepFields DEF Steps
  <2>2. Becomes(d, c, n) /\ UNCHANGED keychain
    BY <1>5 DEF DropKey, Step
  <2>3. d \notin torn' => Address(d)' = None /\ enclave'[d] = {}
    BY <1>3, <1>5, <2>2 DEF DropKey, Address
  <2> HIDE DEF n
  <2> QED
    BY <1>4, <2>1, <2>2, <2>3
<1>6. CASE MintKey(d, c)
  <2>1. PICK e \in EnclaveKeys :
          /\ Becomes(d, c, [c EXCEPT !.at = "erase", !.key = e])
          /\ enclave'[d] = enclave[d] \cup {e}
    BY <1>3, <1>6 DEF MintKey
  <2> DEFINE n == [c EXCEPT !.at = "erase", !.key = e]
  <2>2. n \in Calls /\ n.at = "erase" /\ n.key = e /\ n.todo = WriteOrder
    BY <1>1, <1>6 DEF MintKey, CallInv, Calls, Steps
  <2>3. UNCHANGED <<keychain, torn>> /\ (d \notin torn => Address(d) = None)
        /\ (d \notin torn => enclave'[d] = {e})
    BY <1>1, <1>6, <2>1 DEF MintKey, LoneCall
  <2>4. Becomes(d, c, n)
    BY <2>1
  <2> HIDE DEF n
  <2> QED
    BY <1>4, <2>2, <2>3, <2>4, Order DEF Address
<1>7. CASE Erase(d, c)
  <2> DEFINE n == [c EXCEPT !.at = "add"]
  <2>1. n \in Calls /\ n.at = "add" /\ n.seed = c.seed /\ n.key = c.key /\ n.todo = c.todo
    BY <1>1, StepFields DEF Steps
  <2>2. Becomes(d, c, n) /\ UNCHANGED <<enclave, torn>> /\ c.at = "erase"
    BY <1>7 DEF Erase, Step
  <2>3. c.todo \in Remaining \ {<< >>} /\ Head(c.todo) \in Services
    BY <2>2, CallFields
  <2>4. /\ keychain'[d][Head(c.todo)] \in {keychain[d][Head(c.todo)], NoItem}
        /\ \A s \in Services \ {Head(c.todo)} : keychain'[d][s] = keychain[d][s]
    <3>1. CASE keychain' = keychain
      BY <3>1
    <3>2. CASE keychain' = [keychain EXCEPT ![d][Head(c.todo)] = NoItem]
      BY <1>3, <2>3, <3>2
    <3> QED
      BY <1>7, <3>1, <3>2 DEF Erase
  <2>5. Address(d)' \in {Address(d), None}
    BY <2>3, <2>4 DEF Address, NoItem, Services
  <2>6. d \notin torn' => Address(d)' = None /\ enclave'[d] = {n.key}
    BY <1>1, <2>1, <2>2, <2>5 DEF LoneCall
  <2>7. \A s \in Behind(n.todo) : keychain'[d][s] = [seed |-> n.seed, under |-> n.key]
    BY <1>1, <2>1, <2>2, <2>3, <2>4, Order DEF LoneCall, Behind
  <2> HIDE DEF n
  <2> QED
    BY <1>4, <2>1, <2>2, <2>6, <2>7
<1>8. CASE EstablishFails(d, c)
  <2>1. UNCHANGED <<enclave, keychain, torn>> /\ call'[d] = {}
    BY <1>1, <1>3, <1>8 DEF EstablishFails, Ends, store
  <2> QED
    BY <1>0, <1>1, <1>2, <2>1 DEF LoneInv, Address, Provisioned, CanUnwrap
<1> QED
  BY <1>5, <1>6, <1>7, <1>8

(* With the last item, the address, the wallet is complete.                *)
LEMMA AddKeeps ==
    ASSUME VaultInv, NEW d \in Devices \ crossed', NEW c \in call[d], Add(d, c)
    PROVE  LoneInv(d)'
PROOF
<1>0. /\ UNCHANGED <<enclave, handle, signer, crossed>> /\ d \notin crossed /\ c.at = "add"
  BY DEF Add, app
<1>1. /\ LoneInv(d) /\ LoneCall(d, c) /\ call[d] = {c}
      /\ c \in Calls /\ WellFormed(c) /\ CallInv(c)
  BY <1>0, Lone
<1>2. /\ handle[d] = None /\ signer[d] = None
      /\ c.todo \in Remaining \ {<< >>} /\ Head(c.todo) \in Services
  BY <1>0, <1>1, CallFields DEF LoneCall, LoneInv, Establishing
<1>3. /\ call \in [Devices -> SUBSET Calls]
      /\ keychain \in [Devices -> [Services -> Item \cup {NoItem}]]
  BY DEF VaultInv, VaultTypeOK
<1> DEFINE item == [seed |-> c.seed, under |-> IF Head(c.todo) = "pub" THEN None ELSE c.key]
<1>4. /\ keychain'[d][Head(c.todo)] = item
      /\ \A s \in Services \ {Head(c.todo)} : keychain'[d][s] = keychain[d][s]
  BY <1>2, <1>3 DEF Add
<1>5. /\ Head(c.todo) # "pub" => item = [seed |-> c.seed, under |-> c.key]
      /\ item.seed = c.seed
  OBVIOUS
<1> HIDE DEF item
<1>6. \A s \in Behind(c.todo) : keychain'[d][s] = [seed |-> c.seed, under |-> c.key]
  BY <1>0, <1>1, <1>2, <1>4, Order DEF LoneCall, Behind
<1>7. CASE Len(c.todo) > 1
  <2> DEFINE n == [c EXCEPT !.at = "erase", !.todo = Tail(c.todo)]
  <2>1. Becomes(d, c, n) /\ UNCHANGED torn
    BY <1>7 DEF Add
  <2>2. /\ n \in Calls /\ n.at = "erase" /\ n.seed = c.seed /\ n.key = c.key
        /\ n.todo = Tail(c.todo)
    BY <1>1, <1>2, Order DEF Calls, Steps
  <2> HIDE DEF n
  <2>3. Head(c.todo) # "pub" /\ Behind(Tail(c.todo)) = Behind(c.todo) \cup {Head(c.todo)}
    BY <1>2, <1>7, Order
  <2>4. \A s \in Behind(n.todo) : keychain'[d][s] = [seed |-> n.seed, under |-> n.key]
    BY <1>4, <1>5, <1>6, <2>2, <2>3
  <2>5. /\ Address(d)' = Address(d) /\ (d \notin torn => Address(d) = None)
        /\ d \notin torn => enclave[d] = {c.key}
    BY <1>0, <1>1, <1>4, <2>3 DEF Address, Services, LoneCall
  <2>6. call'[d] = {n}
    BY <1>0, <2>1, <2>2, LoneMoves
  <2>7. LoneCall(d, n)'
    BY <1>0, <1>2, <2>1, <2>2, <2>4, <2>5, <2>6
       DEF LoneCall, Establishing, Established, Deleting
  <2> QED
    BY <1>0, <1>2, <2>1, <2>5, <2>6, <2>7 DEF LoneInv
<1>8. CASE ~ (Len(c.todo) > 1)
  <2>1. PICK at \in {"register", "eraseSeed"} : Step(d, c, at)
    BY <1>8 DEF Add, AfterItems
  <2> DEFINE n == [c EXCEPT !.at = at]
  <2>2. n \in Calls /\ n.at = at /\ n.seed = c.seed
    <3>1. c \in Calls /\ at \in Steps
      BY <1>1 DEF Steps
    <3> QED
      BY <3>1, StepFields
  <2>3. Becomes(d, c, n)
    BY <2>1 DEF Step
  <2> HIDE DEF n
  <2>4. Head(c.todo) = "pub" /\ Behind(c.todo) = {"ct", "mn"}
    BY <1>2, <1>8, Order
  <2>5. Address(d)' = c.seed
    BY <1>4, <1>5, <2>4 DEF Address
  <2>6. d \notin torn' => Provisioned(d)'
    <3>1. d \in torn \/ enclave[d] = {c.key}
      BY <1>0, <1>1 DEF LoneCall
    <3>2. torn' = IF enclave[d] = {c.key} THEN torn \ {d} ELSE torn
      BY <1>8 DEF Add
    <3>3. CASE enclave[d] = {c.key}
      BY <1>0, <1>6, <2>4, <2>5, <3>3 DEF Provisioned, CanUnwrap
    <3>4. CASE enclave[d] # {c.key} /\ d \in torn
      BY <3>2, <3>4
    <3> QED
      BY <3>1, <3>3, <3>4
  <2>7. call'[d] = {n}
    BY <1>0, <2>2, <2>3, LoneMoves
  <2>8. LoneCall(d, n)'
    BY <1>0, <1>2, <2>2, <2>5, <2>7 DEF LoneCall, Establishing, Established, Deleting
  <2> QED
    BY <1>0, <1>2, <2>6, <2>7, <2>8 DEF LoneInv, Idle
<1> QED
  BY <1>7, <1>8

(* The seed that is stored is that of the wallet on the device, and so is  *)
(* the wallet that is handed out.                                          *)
LEMMA SeedKeeps ==
    ASSUME VaultInv, NEW d \in Devices \ crossed', NEW c \in call[d],
           \/ EraseSeed(d, c) \/ AddSeed(d, c) \/ KeepLocal(d, c)
           \/ RegisterWallet(d, c) \/ LoadAnswers(d, c)
    PROVE  LoneInv(d)'
PROOF
<1>0. /\ UNCHANGED <<enclave, keychain, signer, torn, crossed>> /\ d \notin crossed
      /\ c.at \in Established
  BY DEF EraseSeed, AddSeed, KeepLocal, RegisterWallet, LoadAnswers, store, app, Established
<1>1. /\ LoneInv(d) /\ LoneCall(d, c) /\ call[d] = {c}
      /\ c \in Calls /\ WellFormed(c) /\ CallInv(c)
  BY <1>0, Lone
<1>2. handle[d] = None /\ signer[d] = None /\ Address(d) = c.seed
  BY <1>0, <1>1 DEF LoneCall, LoneInv, Establishing
<1>3. call \in [Devices -> SUBSET Calls] /\ handle \in [Devices -> Seeds \cup {None}]
  BY DEF VaultInv, VaultTypeOK
<1>4. CASE EraseSeed(d, c) \/ AddSeed(d, c) \/ KeepLocal(d, c)
  <2>1. \E at \in {"addSeed", "register", "eraseLocal", "addLocal"} : Step(d, c, at)
    BY <1>4 DEF EraseSeed, AddSeed, KeepLocal
  <2>2. PICK at \in {"addSeed", "register", "eraseLocal", "addLocal"} : Step(d, c, at)
    BY <2>1
  <2> DEFINE n == [c EXCEPT !.at = at]
  <2>3. n \in Calls /\ n.at = at /\ n.seed = c.seed
    <3>1. c \in Calls /\ at \in Steps
      BY <1>1 DEF Steps
    <3> QED
      BY <3>1, StepFields
  <2>4. Becomes(d, c, n)
    BY <2>2 DEF Step
  <2> HIDE DEF n
  <2>5. call'[d] = {n} /\ UNCHANGED handle
    BY <1>0, <1>4, <2>3, <2>4, LoneMoves DEF EraseSeed, AddSeed, KeepLocal, app
  <2>6. LoneCall(d, n)'
    BY <1>0, <1>2, <2>3, <2>5 DEF LoneCall, Address, Establishing, Established, Deleting
  <2>7. ~ Idle(d)'
    BY <2>5 DEF Idle
  <2> QED
    BY <1>0, <1>1, <2>5, <2>6, <2>7 DEF LoneInv, Address, Provisioned, CanUnwrap
<1>5. CASE RegisterWallet(d, c) \/ LoadAnswers(d, c)
  <2>1. call'[d] = {} /\ handle'[d] \in {None, Address(d)}
    BY <1>1, <1>2, <1>3, <1>5 DEF RegisterWallet, LoadAnswers, Ends
  <2> QED
    BY <1>0, <1>1, <1>2, <2>1 DEF LoneInv, Address, Provisioned, CanUnwrap
<1> QED
  BY <1>4, <1>5

(* A deletion tears the device from the first item it wipes until nothing  *)
(* shows an address.                                                       *)
LEMMA DeleteKeeps ==
    ASSUME VaultInv, NEW d \in Devices \ crossed', NEW c \in call[d],
           Wipe(d, c) \/ EraseVault(d, c) \/ WipeKey(d, c)
    PROVE  LoneInv(d)'
PROOF
<1>0. UNCHANGED crossed /\ d \notin crossed /\ c.at \in Deleting
  BY DEF Wipe, EraseVault, WipeKey, Deleting
<1>1. /\ LoneInv(d) /\ LoneCall(d, c) /\ call[d] = {c}
      /\ c \in Calls /\ WellFormed(c) /\ CallInv(c)
  BY <1>0, Lone
<1>2. handle[d] # None
  BY <1>0, <1>1 DEF LoneCall
<1>3. /\ call \in [Devices -> SUBSET Calls] /\ handle \in [Devices -> Seeds \cup {None}]
      /\ signer \in [Devices -> Seeds \cup {None}]
  BY DEF VaultInv, VaultTypeOK
<1>4. ASSUME NEW n \in Calls, Becomes(d, c, n), n.at \in Deleting, d \in torn',
             UNCHANGED <<handle, signer>>
      PROVE  LoneInv(d)'
  <2>1. call'[d] = {n}
    BY <1>0, <1>4, LoneMoves
  <2>2. LoneCall(d, n)'
    BY <1>2, <1>4, <2>1 DEF LoneCall, Establishing, Established, Deleting
  <2> QED
    BY <1>2, <1>4, <2>1, <2>2 DEF LoneInv, Idle
<1>5. CASE Wipe(d, c)
  <2>1. PICK at \in {"wipe", "eraseVault"} :
          at = IF Len(c.todo) > 1 THEN "wipe" ELSE "eraseVault"
    OBVIOUS
  <2> DEFINE n == [c EXCEPT !.at = at, !.todo = Tail(c.todo)]
  <2>2. Tail(c.todo) \in Remaining
    BY <1>5, CallFields, Order DEF Wipe
  <2>3. n \in Calls /\ n.at \in Deleting
    BY <1>1, <2>2 DEF Calls, Steps, Deleting
  <2>4. Becomes(d, c, n) /\ d \in torn' /\ UNCHANGED <<handle, signer>>
    BY <1>5, <2>1 DEF Wipe, app
  <2> HIDE DEF n
  <2> QED
    BY <1>4, <2>3, <2>4
<1>6. CASE EraseVault(d, c)
  <2> DEFINE n == [c EXCEPT !.at = "wipeKey"]
  <2>1. n \in Calls /\ n.at \in Deleting
    BY <1>1, StepFields DEF Steps, Deleting
  <2>2. Becomes(d, c, n) /\ UNCHANGED <<handle, signer, torn>>
    BY <1>6 DEF EraseVault, Step, app
  <2>3. d \in torn
    BY <1>1, <1>6 DEF EraseVault, LoneCall
  <2> HIDE DEF n
  <2> QED
    BY <1>4, <2>1, <2>2, <2>3
<1>7. CASE WipeKey(d, c)
  <2>1. /\ call'[d] = {} /\ handle'[d] = None /\ signer'[d] = None
        /\ UNCHANGED keychain
        /\ torn' = IF Address(d) = None THEN torn \ {d} ELSE torn
    BY <1>1, <1>3, <1>7 DEF WipeKey, Ends
  <2>2. d \in torn
    BY <1>1, <1>7 DEF WipeKey, LoneCall
  <2>3. d \notin torn' => Address(d)' = None
    BY <2>1, <2>2 DEF Address
  <2> QED
    BY <2>1, <2>3 DEF LoneInv
<1> QED
  BY <1>5, <1>6, <1>7

(* A kill, new biometrics and iCloud leave what is written where it is.    *)
LEMMA OutsideKeeps ==
    ASSUME VaultInv, NEW d \in Devices \ crossed',
           Kill(d) \/ Reenroll(d) \/ Upload(d) \/ Download(d)
    PROVE  LoneInv(d)'
PROOF
<1>0. UNCHANGED <<keychain, crossed>> /\ LoneInv(d)
  BY DEF Kill, Reenroll, Upload, Download, store, VaultInv
<1>1. CASE Kill(d)
  <2>1. /\ call'[d] = {} /\ handle'[d] = None /\ signer'[d] = None
        /\ UNCHANGED <<enclave, torn>>
    BY <1>1 DEF Kill, VaultInv, VaultTypeOK, store
  <2> QED
    BY <1>0, <2>1 DEF LoneInv, Address, Provisioned, CanUnwrap
<1>2. CASE Reenroll(d)
  <2>1. d \in torn' /\ UNCHANGED <<call, handle, signer>>
    BY <1>2 DEF Reenroll, app
  <2>2. \A c \in call'[d] : LoneCall(d, c)'
    BY <1>0, <2>1 DEF LoneInv, LoneCall, Address
  <2> QED
    BY <1>0, <2>1, <2>2 DEF LoneInv, Address, Idle
<1>3. CASE Upload(d) \/ Download(d)
  <2>1. UNCHANGED <<enclave, call, handle, signer, torn>>
    BY <1>3 DEF Upload, Download, app
  <2>2. \A c \in call'[d] : LoneCall(d, c)'
    BY <1>0, <2>1 DEF LoneInv, LoneCall, Address
  <2> QED
    BY <1>0, <2>1, <2>2 DEF LoneInv, Address, Provisioned, CanUnwrap, Idle
<1> QED
  BY <1>1, <1>2, <1>3

(* A step keeps the invariant of its device and of all the others.         *)
LEMMA VaultInvStep ==
    ASSUME VaultInv, [VaultNext]_vaultVars
    PROVE  VaultInv'
PROOF
<1>1. ASSUME NEW d \in Devices, DeviceSteps(d)
      PROVE  VaultInv'
  <2>1. /\ call' \in [Devices -> SUBSET Calls] /\ calls' \in 0 .. MaxCalls
        /\ \A c \in call'[d] : WellFormed(c) /\ CallInv(c)'
    BY <1>1, CallStep
  <2>2. ASSUME NEW e \in Devices \ {d}, NEW c \in call'[e]
        PROVE  WellFormed(c) /\ CallInv(c)'
    <3>1. c \in call[e]
      BY <1>1, <2>2, OwnSteps DEF VaultInv, Untouched
    <3>2. WellFormed(c) /\ CallInv(c) /\ known \subseteq known' /\ whole \subseteq whole'
      BY <1>1, <3>1, CallFields, HistoryGrows
    <3> QED
      BY <3>2 DEF CallInv
  <2>3. \A e \in Devices : \A c \in call'[e] : WellFormed(c) /\ CallInv(c)'
    BY <2>1, <2>2
  <2>4. VaultTypeOK'
    BY <1>1, <2>1, <2>3, StoreTypeStep DEF VaultTypeOK, StoreTypes, WellFormed
  <2>5. SeedsInv(d)' /\ CloudInv'
    BY <1>1, SeedsStep, CloudStep
  <2>6. d \notin crossed' => LoneInv(d)'
    BY <1>1, BeginKeeps, SignKeeps, EstablishKeeps, AddKeeps, SeedKeeps, DeleteKeeps, OutsideKeeps
       DEF DeviceSteps, CallSteps, Establish
  <2>7. \A e \in Devices \ {d} : SeedsInv(e)' /\ (e \notin crossed' => LoneInv(e)')
    BY <1>1, OthersKeep
  <2> QED
    BY <2>3, <2>4, <2>5, <2>6, <2>7 DEF VaultInv
<1>2. CASE UNCHANGED vaultVars
  <2> USE <1>2 DEF vaultVars, store, app, phrases
  <2>1. VaultTypeOK'
    BY DEF VaultInv, VaultTypeOK
  <2>2. \A d \in Devices : \A c \in call'[d] : CallInv(c)'
    BY DEF VaultInv, CallInv
  <2>3. \A d \in Devices : SeedsInv(d)'
    BY DEF VaultInv, SeedsInv, Address
  <2>4. CloudInv'
    BY DEF VaultInv, CloudInv
  <2>5. \A d \in Devices \ crossed' : LoneInv(d)'
    <3>1. SUFFICES ASSUME NEW d \in Devices \ crossed PROVE LoneInv(d)'
      OBVIOUS
    <3>2. LoneInv(d)
      BY DEF VaultInv
    <3>3. \A c \in call'[d] : LoneCall(d, c)'
      BY <3>2 DEF LoneInv, LoneCall, Address
    <3> QED
      BY <3>2, <3>3 DEF LoneInv, Address, Provisioned, CanUnwrap, Idle
  <2> QED
    BY <2>1, <2>2, <2>3, <2>4, <2>5 DEF VaultInv
<1> QED
  BY <1>1, <1>2 DEF VaultNext, DeviceSteps, CallSteps

(* The inductive invariant: between any two keychain or enclave calls, and *)
(* whatever the keychain has refused, a device can tell which of its items *)
(* belong together, unless its native calls have overlapped; of those that *)
(* have, it says what each call carries and which seeds may be there.      *)
THEOREM VaultInductive == VaultSpec => []VaultInv
PROOF BY InitVaultInv, VaultInvStep, PTL DEF VaultSpec

(* Every call works on the items of its own wallet, in order, with the     *)
(* enclave key it has minted.                                              *)
THEOREM VaultTypes == VaultSpec => []VaultTypeOK
PROOF BY VaultInductive, PTL DEF VaultInv

(* However a call is cut off, and whichever additions and deletions are    *)
(* refused, a device that shows an address can unwrap the key and the      *)
(* phrase of that address, unless it was torn or its calls overlapped.     *)
THEOREM AddressMeansWhole == VaultSpec => []WholeUnlessTorn
PROOF
<1>1. VaultInv => WholeUnlessTorn
  BY DEF VaultInv, LoneInv, Provisioned, WholeUnlessTorn
<1> QED
  BY <1>1, VaultInductive, PTL

(* The open wallet signs with the key of the address it shows, with the    *)
(* same exceptions.                                                        *)
THEOREM SignaturesMatch == VaultSpec => []SignsAsShown
PROOF
<1>1. VaultInv => SignsAsShown
  BY DEF VaultInv, LoneInv, SignsAsShown
<1> QED
  BY <1>1, VaultInductive, PTL

(* A seed that is stored, synced or shown is that of a wallet of which     *)
(* establish has written every item on some device, without exception.     *)
THEOREM SeedsFollowWallets == VaultSpec => []SeedFollowsWallet
PROOF
<1>1. VaultInv => SeedFollowsWallet
  BY DEF VaultInv, SeedsInv, CloudInv, SeedFollowsWallet
<1> QED
  BY <1>1, VaultInductive, PTL
===============================================================================
