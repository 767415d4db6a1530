-------------------------------- MODULE Vault --------------------------------
(***************************************************************************)
(* The keys of a wallet on the user's devices: SecureSigner.swift, with    *)
(* the calls XendWallet makes of it.  A wallet is its recovery seed: the   *)
(* Ed25519 key and the address are functions of it, so a key, a phrase and *)
(* an address are each represented by the seed they come from.             *)
(*                                                                         *)
(* A device keeps a Secure Enclave key, three keychain items of its own    *)
(* (ct: the signing key wrapped by the enclave key, mn: the phrase wrapped *)
(* likewise, pub: the address in the clear) and a copy of the seed that    *)
(* iCloud Keychain carries between devices.  Every keychain or enclave     *)
(* call is one step.  There is no transaction around them: the app may be  *)
(* killed between any two, a deletion may be refused and nobody looks at   *)
(* its status, and the plugin executes its calls on a concurrent queue, so *)
(* that several may be at work on one device.                              *)
(***************************************************************************)
EXTENDS Naturals, Sequences

CONSTANTS
    Devices,      \* the user's devices
    Seeds,        \* recovery phrases
    EnclaveKeys,  \* key pairs a Secure Enclave may generate
    MaxCalls,     \* bound: calls that write to a store
    None

Services == {"ct", "mn", "pub"}

(* A wrapped item names the enclave key it was encrypted to; the address   *)
(* is not wrapped.                                                         *)
Item == [seed : Seeds, under : EnclaveKeys \cup {None}]
NoItem == [seed |-> None, under |-> None]

ASSUME NoneDistinct == None \notin Seeds \cup EnclaveKeys
ASSUME BoundIsNat == MaxCalls \in Nat

VARIABLES
    enclave,      \* the usable enclave keys with the wallet's tag, per device
    keychain,     \* the items of each device
    vault,        \* the synchronizable seed as each device sees it
    unsent,       \* devices whose vault has a change iCloud has not taken
    cloud,        \* the seed in iCloud
    local,        \* the copy kept on the device when iCloud refuses it
    call,         \* the native calls each device is executing
    calls,        \* how many calls that write have begun
    handle,       \* the XendWallet the app holds
    signer,       \* history: whose key made the signature the app got last
    known,        \* history: seeds that have existed
    whole,        \* history: seeds whose wallet has been provisioned somewhere
    torn,         \* history: devices whose wallet was cut down or over halfway
    crossed       \* history: devices where a native call began beside another

store == <<enclave, keychain, vault, unsent, local>>
app == <<handle, signer>>
phrases == <<known, whole>>
vaultVars == <<store, cloud, call, calls, app, phrases, torn, crossed>>

Kinds == {"create", "restore", "load", "recover", "delete"}
Steps == {"dropKey", "mintKey", "erase", "add", "eraseSeed", "addSeed",
          "eraseLocal", "addLocal", "register", "answer", "wipe", "eraseVault", "wipeKey"}

Idle(d) == call[d] = {}
Busy(d, kinds) == \E c \in call[d] : c.kind \in kinds

(* The address of the fast path, and what the device can surely unwrap:    *)
(* of several keys with one tag, any may be the one that is found.         *)
Address(d) == keychain[d]["pub"].seed
CanUnwrap(d, s) == enclave[d] = {keychain[d][s].under}

VaultInit ==
    /\ enclave = [d \in Devices |-> {}]
    /\ keychain = [d \in Devices |-> [s \in Services |-> NoItem]]
    /\ vault = [d \in Devices |-> None]
    /\ unsent = {}
    /\ cloud = None
    /\ local = [d \in Devices |-> None]
    /\ call = [d \in Devices |-> {}]
    /\ calls = 0
    /\ handle = [d \in Devices |-> None]
    /\ signer = [d \in Devices |-> None]
    /\ known = {} /\ whole = {}
    /\ torn = {} /\ crossed = {}

-------------------------------------------------------------------------------
(* How a call begins. *)

(* establish writes the items in this order.  The variant names the wallet *)
(* before its key is there.                                                *)
AddressFirst == <<"pub", "ct", "mn">>
WriteOrder == <<"ct", "mn", "pub">>

(* The queue is concurrent: a call does not wait for the one before it.    *)
Starts(d, c) ==
    /\ call' = [call EXCEPT ![d] = @ \cup {c}]
    /\ crossed' = IF Idle(d) THEN crossed ELSE crossed \cup {d}

Begin(d, kind, at, s) ==
    /\ calls < MaxCalls
    /\ calls' = calls + 1
    /\ Starts(d, [no |-> calls', kind |-> kind, at |-> at, seed |-> s, key |-> None,
                  todo |-> WriteOrder])

(* How it goes on, and how it ends. *)
Becomes(d, c, n) == call' = [call EXCEPT ![d] = (@ \ {c}) \cup {n}]
Step(d, c, at) == Becomes(d, c, [c EXCEPT !.at = at])
Ends(d, c) == call' = [call EXCEPT ![d] = @ \ {c}]

(* The app offers create and restore whenever it holds no wallet and is    *)
(* not busy with either: also while a load is under way.                   *)
Offered(d) == handle[d] = None /\ ~Busy(d, {"create", "restore"})

(* generateKeyPair: a phrase nobody has had *)
Create(d) ==
    /\ Offered(d)
    /\ \E s \in Seeds \ known :
         /\ Begin(d, "create", "dropKey", s)
         /\ known' = known \cup {s}
    /\ UNCHANGED <<store, cloud, app, whole, torn>>

(* restore: a valid phrase the user has written down *)
Restore(d) ==
    /\ Offered(d)
    /\ \E s \in Seeds :
         /\ Begin(d, "restore", "dropKey", s)
         /\ known' = known \cup {s}
    /\ UNCHANGED <<store, cloud, app, whole, torn>>

(* loadOrRecover: the app calls it once, without waiting.  The fast path   *)
(* takes the stored address at its word.                                   *)
Loads(d) == handle[d] = None /\ ~Busy(d, {"load", "recover"})

(* Variant: what iCloud holds goes before what the device holds. *)
SyncedWins(d) ==
    /\ Loads(d) /\ Address(d) # None
    /\ Starts(d, [no |-> 0, kind |-> "load", at |-> "answer", key |-> None, todo |-> <<>>,
                  seed |-> IF vault[d] # None THEN vault[d] ELSE Address(d)])
    /\ UNCHANGED <<calls, store, cloud, app, phrases, torn>>

LoadFast(d) ==
    /\ Loads(d) /\ Address(d) # None
    /\ Starts(d, [no |-> 0, kind |-> "load", at |-> "answer", key |-> None, todo |-> <<>>,
                  seed |-> Address(d)])
    /\ UNCHANGED <<calls, store, cloud, app, phrases, torn>>

(* The recovery path rebuilds the wallet from the synced seed, or else     *)
(* from the local copy.  Every read is under try?: what is there and       *)
(* cannot be read, as on a device that is locked, is taken for missing, so *)
(* that there may be an address, or a synced seed beside the local one.    *)
RecoverySeeds(d) == {vault[d], local[d]} \ {None}

LoadRecover(d) ==
    /\ Loads(d)
    /\ \E s \in RecoverySeeds(d) : Begin(d, "recover", "dropKey", s)
    /\ UNCHANGED <<store, cloud, app, phrases, torn>>

Delete(d) ==
    /\ handle[d] # None
    /\ Begin(d, "delete", "wipe", handle[d])
    /\ UNCHANGED <<store, cloud, app, phrases, torn>>

(* signMessage: unwraps whatever key is stored and signs with it *)
Sign(d) ==
    /\ handle[d] # None
    /\ keychain[d]["ct"].under \in enclave[d]
    /\ signer' = [signer EXCEPT ![d] = keychain[d]["ct"].seed]
    /\ UNCHANGED <<calls, store, cloud, call, handle, phrases, torn, crossed>>

-------------------------------------------------------------------------------
(* establish: a fresh enclave key, then each item erased and added. *)

(* Replacing a wallet that is there puts it at risk from here on, and so   *)
(* does a key that is not dropped: its deletion goes unchecked.            *)
DropKey(d, c) ==
    /\ c.at = "dropKey"
    /\ \E left \in {{}, enclave[d]} :
         /\ enclave' = [enclave EXCEPT ![d] = left]
         /\ torn' = IF Address(d) # None \/ left # {} THEN torn \cup {d} ELSE torn
    /\ Step(d, c, "mintKey")
    /\ UNCHANGED <<calls, keychain, vault, unsent, local, cloud, app, phrases, crossed>>

(* Keys a new one differs from *)
UsedOn(d) ==
    enclave[d] \cup {keychain[d][s].under : s \in Services} \cup {c.key : c \in call[d]}

(* Variant: the items are wrapped to no key. *)
ForgetKey(d, c) ==
    /\ c.at = "mintKey"
    /\ \E e \in EnclaveKeys \ UsedOn(d) : enclave' = [enclave EXCEPT ![d] = @ \cup {e}]
    /\ Step(d, c, "erase")
    /\ UNCHANGED <<calls, keychain, vault, unsent, local, cloud, app, phrases, torn, crossed>>

MintKey(d, c) ==
    /\ c.at = "mintKey"
    /\ \E e \in EnclaveKeys \ UsedOn(d) :
         /\ enclave' = [enclave EXCEPT ![d] = @ \cup {e}]
         /\ Becomes(d, c, [c EXCEPT !.at = "erase", !.key = e])
    /\ UNCHANGED <<calls, keychain, vault, unsent, local, cloud, app, phrases, torn, crossed>>

(* keychainSet deletes before it adds, and adds only where nothing is. *)
Erase(d, c) ==
    /\ c.at = "erase"
    /\ keychain' \in {keychain, [keychain EXCEPT ![d][Head(c.todo)] = NoItem]}
    /\ Step(d, c, "add")
    /\ UNCHANGED <<calls, enclave, vault, unsent, local, cloud, app, phrases, torn, crossed>>

(* What follows the last item: storeRecoverySeed for a new or restored     *)
(* wallet, the registration for a recovered one.                           *)
AfterItems(kind) == IF kind = "recover" THEN "register" ELSE "eraseSeed"

Add(d, c) ==
    LET s == Head(c.todo) IN
    /\ c.at = "add" /\ keychain[d][s] = NoItem
    /\ keychain' = [keychain EXCEPT ![d][s] =
         [seed |-> c.seed, under |-> IF s = "pub" THEN None ELSE c.key]]
    /\ IF Len(c.todo) > 1
         THEN /\ Becomes(d, c, [c EXCEPT !.at = "erase", !.todo = Tail(c.todo)])
              /\ UNCHANGED <<torn, whole>>
         ELSE /\ Step(d, c, AfterItems(c.kind))
              /\ torn' = IF enclave[d] = {c.key} THEN torn \ {d} ELSE torn
              /\ whole' = whole \cup {c.seed}
    /\ UNCHANGED <<calls, enclave, vault, unsent, local, cloud, app, known, crossed>>

(* The enclave or the keychain refuses, or an item is in the way of the    *)
(* one to be added: establish throws, what it has done so far stays.  The  *)
(* variant swallows the error.                                             *)
CarryOn(d, c) ==
    /\ c.at \in {"mintKey", "erase", "add"}
    /\ Step(d, c, AfterItems(c.kind))
    /\ UNCHANGED <<calls, store, cloud, app, phrases, torn, crossed>>

EstablishFails(d, c) ==
    /\ c.at \in {"mintKey", "erase", "add"}
    /\ Ends(d, c)
    /\ UNCHANGED <<calls, store, cloud, app, phrases, torn, crossed>>

(* storeRecoverySeed: best effort, the local copy only if iCloud refuses   *)
EraseSeed(d, c) ==
    /\ c.at = "eraseSeed"
    /\ \/ vault' = [vault EXCEPT ![d] = None] /\ unsent' = unsent \cup {d}
       \/ UNCHANGED <<vault, unsent>>
    /\ Step(d, c, "addSeed")
    /\ UNCHANGED <<calls, enclave, keychain, local, cloud, app, phrases, torn, crossed>>

AddSeed(d, c) ==
    /\ c.at = "addSeed"
    /\ \/ /\ vault[d] = None
          /\ vault' = [vault EXCEPT ![d] = c.seed]
          /\ unsent' = unsent \cup {d}
          /\ Step(d, c, "register")
       \/ Step(d, c, "eraseLocal") /\ UNCHANGED <<vault, unsent>>
    /\ UNCHANGED <<calls, enclave, keychain, local, cloud, app, phrases, torn, crossed>>

KeepLocal(d, c) ==
    /\ \/ /\ c.at = "eraseLocal"
          /\ local' \in {local, [local EXCEPT ![d] = None]}
          /\ Step(d, c, "addLocal")
       \/ /\ c.at = "addLocal"
          /\ \/ local[d] = None /\ local' = [local EXCEPT ![d] = c.seed]
             \/ UNCHANGED local
          /\ Step(d, c, "register")
    /\ UNCHANGED <<calls, enclave, keychain, vault, unsent, cloud, app, phrases, torn, crossed>>

(* create, restore and a recovering load register the address and hand out *)
(* the wallet; if the backend cannot be reached they throw and the app     *)
(* keeps what it has.                                                      *)
RegisterWallet(d, c) ==
    /\ c.at = "register"
    /\ handle' \in {handle, [handle EXCEPT ![d] = c.seed]}
    /\ Ends(d, c)
    /\ UNCHANGED <<calls, store, cloud, signer, phrases, torn, crossed>>

(* The fast path hands out the wallet of the address it has read. *)
LoadAnswers(d, c) ==
    /\ c.at = "answer"
    /\ handle' = [handle EXCEPT ![d] = c.seed]
    /\ Ends(d, c)
    /\ UNCHANGED <<calls, store, cloud, signer, phrases, torn, crossed>>

-------------------------------------------------------------------------------
(* deleteKey: the items in the same order, the seed, the enclave key.  The *)
(* status of every deletion is ignored: what is refused stays behind.      *)

Wipe(d, c) ==
    /\ c.at = "wipe"
    /\ keychain' \in {keychain, [keychain EXCEPT ![d][Head(c.todo)] = NoItem]}
    /\ torn' = torn \cup {d}
    /\ Becomes(d, c, [c EXCEPT !.at = IF Len(c.todo) > 1 THEN "wipe" ELSE "eraseVault",
                               !.todo = Tail(c.todo)])
    /\ UNCHANGED <<calls, enclave, vault, unsent, local, cloud, app, phrases, crossed>>

(* One query for both copies of the seed. *)
EraseVault(d, c) ==
    /\ c.at = "eraseVault"
    /\ \/ vault' = [vault EXCEPT ![d] = None] /\ unsent' = unsent \cup {d}
       \/ UNCHANGED <<vault, unsent>>
    /\ local' \in {local, [local EXCEPT ![d] = None]}
    /\ Step(d, c, "wipeKey")
    /\ UNCHANGED <<calls, enclave, keychain, cloud, app, phrases, torn, crossed>>

(* The app forgets the wallet, whatever is left of it.  The device is torn *)
(* no longer if nothing shows an address.                                  *)
WipeKey(d, c) ==
    /\ c.at = "wipeKey"
    /\ enclave' \in {enclave, [enclave EXCEPT ![d] = {}]}
    /\ handle' = [handle EXCEPT ![d] = None]
    /\ signer' = [signer EXCEPT ![d] = None]
    /\ torn' = IF Address(d) = None THEN torn \ {d} ELSE torn
    /\ Ends(d, c)
    /\ UNCHANGED <<calls, keychain, vault, unsent, local, cloud, phrases, crossed>>

-------------------------------------------------------------------------------
(* Outside the code: iOS, iCloud and the user. *)

(* The app is killed; the store is as the last call left it. *)
Kill(d) ==
    /\ ~ (Idle(d) /\ handle[d] = None)
    /\ call' = [call EXCEPT ![d] = {}]
    /\ handle' = [handle EXCEPT ![d] = None]
    /\ signer' = [signer EXCEPT ![d] = None]
    /\ UNCHANGED <<calls, store, cloud, phrases, torn, crossed>>

(* A change of the enrolled biometrics invalidates the enclave key, which  *)
(* is bound to the current set.                                            *)
Reenroll(d) ==
    /\ enclave[d] # {}
    /\ enclave' = [enclave EXCEPT ![d] = {}]
    /\ torn' = torn \cup {d}
    /\ UNCHANGED <<calls, keychain, vault, unsent, local, cloud, call, app, phrases, crossed>>

Upload(d) ==
    /\ d \in unsent
    /\ cloud' = vault[d]
    /\ unsent' = unsent \ {d}
    /\ UNCHANGED <<calls, enclave, keychain, vault, local, call, app, phrases, torn, crossed>>

Download(d) ==
    /\ d \notin unsent
    /\ vault[d] # cloud
    /\ vault' = [vault EXCEPT ![d] = cloud]
    /\ UNCHANGED <<calls, enclave, keychain, unsent, local, cloud, call, app, phrases,
                   torn, crossed>>

Establish(d, c) ==
    \/ DropKey(d, c) \/ MintKey(d, c) \/ Erase(d, c) \/ Add(d, c) \/ EstablishFails(d, c)
    \/ EraseSeed(d, c) \/ AddSeed(d, c) \/ KeepLocal(d, c) \/ RegisterWallet(d, c)

VaultNext ==
    \E d \in Devices :
      \/ Create(d) \/ Restore(d) \/ LoadFast(d) \/ LoadRecover(d) \/ Delete(d) \/ Sign(d)
      \/ \E c \in call[d] : \/ Establish(d, c) \/ LoadAnswers(d, c)
                            \/ Wipe(d, c) \/ EraseVault(d, c) \/ WipeKey(d, c)
      \/ Kill(d) \/ Reenroll(d) \/ Upload(d) \/ Download(d)

VaultSpec == VaultInit /\ [][VaultNext]_vaultVars

-------------------------------------------------------------------------------
(* What the calls guarantee. *)

(* What a call may have left to write or wipe. *)
Remaining == {WriteOrder, Tail(WriteOrder), Tail(Tail(WriteOrder)), << >>}
Calls == [no : 0..MaxCalls, kind : Kinds, at : Steps, seed : Seeds,
          key : EnclaveKeys \cup {None}, todo : Remaining]

(* The store, the calls and the history are of their types, a call has     *)
(* items left while it works on them, and a key while it writes them.      *)
VaultTypeOK ==
    /\ enclave \in [Devices -> SUBSET EnclaveKeys]
    /\ keychain \in [Devices -> [Services -> Item \cup {NoItem}]]
    /\ \A d \in Devices, s \in Services :
         keychain[d][s] # NoItem => (keychain[d][s].under = None <=> s = "pub")
    /\ vault \in [Devices -> Seeds \cup {None}]
    /\ local \in [Devices -> Seeds \cup {None}]
    /\ cloud \in Seeds \cup {None}
    /\ unsent \subseteq Devices /\ torn \subseteq Devices /\ crossed \subseteq Devices
    /\ handle \in [Devices -> Seeds \cup {None}]
    /\ signer \in [Devices -> Seeds \cup {None}]
    /\ calls \in 0..MaxCalls
    /\ whole \subseteq known /\ known \subseteq Seeds
    /\ call \in [Devices -> SUBSET Calls]
    /\ \A d \in Devices : \A c \in call[d] :
         /\ c.at \in {"erase", "add"} => c.key # None
         /\ c.at \in {"erase", "add", "wipe"} => c.todo # <<>>

(* A device that shows an address holds the key and the phrase of that     *)
(* address, wrapped by the one enclave key it has, after every kill and    *)
(* every refusal, of additions and deletions, in the middle of a call: the *)
(* address is what is written last.  The exceptions are the devices in     *)
(* "torn", where a wallet was being replaced or deleted, a deletion left   *)
(* the address or an older key behind, or the enrolled biometrics changed; *)
(* and those in "crossed", where native calls have overlapped.             *)
WholeUnlessTorn ==
    \A d \in Devices \ (torn \cup crossed) : Address(d) # None =>
      \A s \in {"ct", "mn"} :
        CanUnwrap(d, s) /\ keychain[d][s].seed = Address(d)

(* With the same exceptions, what the open wallet signs is signed by the   *)
(* key of the address it shows, whatever iCloud brings meanwhile and       *)
(* whichever wallets other devices create, restore or delete.              *)
SignsAsShown ==
    \A d \in Devices \ (torn \cup crossed) : signer[d] \in {None, handle[d]}

(* A recovery seed is stored, and so reaches iCloud and other devices, and *)
(* a wallet is handed out, only after establish has written every item of  *)
(* that wallet on some device: a create or a restore that is cut off       *)
(* before never spreads, on devices whose calls overlap as on others.      *)
SeedFollowsWallet ==
    \A d \in Devices :
      {vault[d], local[d], cloud, Address(d), handle[d]} \subseteq whole \cup {None}

(* SecureSigner.swift:119: a device on which the fast path finds an        *)
(* address "is already provisioned with a signing key".                    *)
FastPathIsProvisioned ==
    \A d \in Devices : Idle(d) /\ Address(d) # None =>
      CanUnwrap(d, "ct") /\ keychain[d]["ct"].seed = Address(d)
===============================================================================
