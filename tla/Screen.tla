-------------------------------- MODULE Screen --------------------------------
(***************************************************************************)
(* WalletScreen of the example app over XendWallet.load, create, restore   *)
(* and delete.  Every await is a place where the user or another answer    *)
(* may come in between: the screen stays responsive.  What establish and   *)
(* deleteKey do in the vault is one step here (Vault takes it apart), the  *)
(* reads of a load another; a wallet is its address.                       *)
(* Every start of the app is an initial state, whatever it left behind.    *)
(***************************************************************************)
EXTENDS Naturals, FiniteSets

CONSTANTS
    Wallets,       \* wallets there may be
    MaxAsks,       \* bound: requests told apart, of one kind for one wallet
    MaxDeletes,    \* bound: deletions confirmed
    None

ASSUME NoneIsNoWallet == None \notin Wallets
ASSUME ScreenBounds == MaxAsks \in Nat \ {0} /\ MaxDeletes \in Nat

VARIABLES
    device,     \* the wallet in the keychain of the device
    seed,       \* the recovery seed iCloud Keychain holds, or the local copy
    start,      \* _loadExisting: where it is and what it found
    jobs,       \* calls of create and restore under way
    deletes,    \* calls of delete under way: not yet, or already executed
    confirmed,  \* how many deletions have been confirmed
    modal,      \* the dialog over the screen
    wallet,     \* _wallet
    figures,    \* _balance and _history: of which wallet they are
    busy,
    loading,    \* _loadingBalance and _loadingHistory
    asks,       \* balance and history requests under way
    known,      \* history: wallets that have existed
    owned,      \* history: wallets found at the start or shown
    erased,     \* history: an owned wallet is gone and was not deleted
    hasty,      \* history: the user did not wait for what was under way
    failed,     \* history: a load, create or restore has failed
    refused     \* history: the keychain kept a secret, or what was to be deleted

keys == <<device, seed, known, erased>>
calls == <<start, jobs, deletes, confirmed>>
view == <<figures, loading, asks>>
marks == <<hasty, failed, refused>>
screenVars == <<keys, calls, view, marks, modal, wallet, busy, owned>>

Kinds == {"balance", "history"}
MaybeWallet == Wallets \cup {None}

ScreenInit ==
    /\ device \in MaybeWallet /\ seed \in MaybeWallet
    /\ start = [at |-> "native", found |-> None]
    /\ jobs = {} /\ deletes = [todo |-> 0, done |-> 0] /\ confirmed = 0
    /\ modal = "none"
    /\ wallet = None /\ figures = [k \in Kinds |-> None]
    /\ busy = FALSE /\ loading = {}
    /\ asks = [k \in Kinds |-> [w \in Wallets |-> 0]]
    /\ known = {device, seed} \ {None}
    /\ owned = known /\ erased = FALSE
    /\ hasty = FALSE /\ failed = FALSE /\ refused = FALSE

(* A wallet is shown, and its balance and records are asked for.           *)
Ask(w) ==
    /\ \A k \in Kinds : asks[k][w] < MaxAsks
    /\ asks' = [k \in Kinds |-> [asks[k] EXCEPT ![w] = @ + 1]]
    /\ loading' = Kinds
    /\ UNCHANGED figures

(* What is neither on the device nor in its seed any more is lost. *)
Loses == owned \cap ({device, seed} \ {device', seed'}) # {}

Show(w) ==
    /\ wallet' = w
    /\ owned' = owned \cup ({w} \ {None})
    /\ IF w = None THEN UNCHANGED view ELSE Ask(w)

-------------------------------------------------------------------------------
(* _loadExisting.  The screen offers Create from the first frame.          *)
Started == start.at \in {"done", "failed"}

(* loadOrRecover reads the address, and without one the seed.  Both reads  *)
(* are under try?: one that fails, as on a locked device, finds nothing.   *)
(* The variant asks for the seed first.                                    *)
SeedFirst(a, s) == IF s # None THEN s ELSE a
Found(a, s) == IF a # None THEN a ELSE s

LoadNative ==
    /\ start.at = "native"
    /\ \E a \in {device, None}, s \in {seed, None} :
         /\ start' = [at |-> IF a = None /\ s # None THEN "recover" ELSE "answer",
                      found |-> Found(a, s)]
         /\ refused' = (refused \/ <<a, s>> # <<device, seed>>)
    /\ UNCHANGED <<keys, jobs, deletes, confirmed, view, hasty, failed,
                   modal, wallet, busy, owned>>

(* establish rebuilds the wallet of the seed on the device, in place of    *)
(* whatever is there by now, or throws and may have cleared the address.   *)
LoadRecovers ==
    /\ start.at = "recover"
    /\ \/ /\ device' = start.found
          /\ start' = [start EXCEPT !.at = "register"]
          /\ UNCHANGED failed
       \/ /\ device' \in {device, None}
          /\ start' = [start EXCEPT !.at = "failed"]
          /\ failed' = TRUE
    /\ UNCHANGED seed
    /\ erased' = (erased \/ Loses)
    /\ UNCHANGED <<known, jobs, deletes, confirmed, view, hasty, refused,
                   modal, wallet, busy, owned>>

(* Nobody catches what load throws. *)
LoadFails ==
    /\ start.at = "register"
    /\ start' = [start EXCEPT !.at = "failed"]
    /\ failed' = TRUE
    /\ UNCHANGED <<keys, jobs, deletes, confirmed, view, hasty, refused,
                   modal, wallet, busy, owned>>

LoadReturns ==
    /\ start.at \in {"answer", "register"}
    /\ start' = [start EXCEPT !.at = "done"]
    /\ Show(start.found)
    /\ UNCHANGED <<keys, jobs, deletes, confirmed, marks, modal, busy>>

-------------------------------------------------------------------------------
(* _create and _restore *)

(* The buttons are there when no wallet is shown, and off while busy.      *)
ButtonsOn == modal = "none" /\ wallet = None /\ ~busy

Quiet == Started /\ jobs = {} /\ deletes.todo + deletes.done = 0
Answered == \A k \in Kinds, w \in Wallets : asks[k][w] = 0

Begin(w) ==
    /\ busy' = TRUE
    /\ jobs' = jobs \cup {[at |-> "native", wallet |-> w]}
    /\ hasty' = (hasty \/ ~Quiet \/ ~Answered)
    /\ UNCHANGED <<start, deletes, confirmed>>

(* A phrase nobody has had *)
Create ==
    /\ ButtonsOn
    /\ \E w \in Wallets \ known : Begin(w) /\ known' = known \cup {w}
    /\ UNCHANGED <<device, seed, erased, view, failed, refused, modal, wallet, owned>>

(* The dialog of _restore takes a phrase; what came in the meantime is not *)
(* looked at again.                                                        *)
AskPhrase ==
    /\ ButtonsOn
    /\ modal' = "phrase"
    /\ hasty' = (hasty \/ ~Quiet)
    /\ UNCHANGED <<keys, calls, view, failed, refused, wallet, busy, owned>>

Restore ==
    /\ modal = "phrase" /\ modal' = "none"
    /\ \E w \in Wallets : Begin(w) /\ known' = known \cup {w}
    /\ UNCHANGED <<device, seed, erased, view, failed, refused, wallet, owned>>

CloseModal ==
    /\ modal # "none" /\ modal' = "none"
    /\ UNCHANGED <<keys, calls, view, marks, wallet, busy, owned>>

(* generateKeyPair and restore write over the device and, if iCloud and    *)
(* the keychain let them, over the seed.                                   *)
Provision(j) ==
    /\ j \in jobs /\ j.at = "native"
    /\ device' = j.wallet /\ seed' \in {j.wallet, seed, None}
    /\ erased' = (erased \/ Loses)
    /\ jobs' = (jobs \ {j}) \cup {[j EXCEPT !.at = "register"]}
    /\ UNCHANGED <<known, start, deletes, confirmed, view, marks, modal, wallet, busy, owned>>

(* finally: the buttons come back, however it ended.  The variant forgets  *)
(* them after a failure.                                                   *)
StaysBusy(ok) == ~ok
BusyAfter(ok) == FALSE

(* The vault or the registration throws; a wallet whose registration       *)
(* failed stays on the device.                                             *)
JobFails(j) ==
    /\ j \in jobs
    /\ \/ UNCHANGED device
       \/ j.at = "native" /\ device' = None
    /\ UNCHANGED seed
    /\ jobs' = jobs \ {j}
    /\ busy' = BusyAfter(FALSE)
    /\ failed' = TRUE
    /\ erased' = (erased \/ Loses)
    /\ UNCHANGED <<known, start, deletes, confirmed, view, hasty, refused,
                   modal, wallet, owned>>

JobReturns(j) ==
    /\ j \in jobs /\ j.at = "register"
    /\ jobs' = jobs \ {j}
    /\ Show(j.wallet)
    /\ busy' = BusyAfter(TRUE)
    /\ UNCHANGED <<keys, start, deletes, confirmed, marks, modal>>

-------------------------------------------------------------------------------
(* _delete: confirmed in a dialog, executed by the vault for whatever      *)
(* wallet is there by then, and reflected on the screen when it returns.   *)
AskDelete ==
    /\ modal = "none" /\ wallet # None
    /\ modal' = "delete"
    /\ UNCHANGED <<keys, calls, view, marks, wallet, busy, owned>>

ConfirmDelete ==
    /\ modal = "delete" /\ modal' = "none"
    /\ confirmed < MaxDeletes
    /\ confirmed' = confirmed + 1
    /\ deletes' = [deletes EXCEPT !.todo = @ + 1]
    /\ hasty' = (hasty \/ ~Quiet \/ ~Answered)
    /\ UNCHANGED <<keys, start, jobs, view, failed, refused, wallet, busy, owned>>

(* What the keychain refuses to delete stays, and nobody is told. *)
DeleteNative ==
    /\ deletes.todo > 0
    /\ deletes' = [todo |-> deletes.todo - 1, done |-> deletes.done + 1]
    /\ device' \in {device, None} /\ seed' \in {seed, None}
    /\ refused' = (refused \/ {device', seed'} # {None})
    /\ UNCHANGED <<known, erased, start, jobs, confirmed, view, hasty, failed,
                   modal, wallet, busy, owned>>

(* The history of the wallet stays; the variant leaves the balance too.    *)
AsTheyWere == figures
FiguresAfterDelete == [figures EXCEPT !["balance"] = None]

DeleteReturns ==
    /\ deletes.done > 0
    /\ deletes' = [deletes EXCEPT !.done = @ - 1]
    /\ wallet' = None
    /\ figures' = FiguresAfterDelete
    /\ UNCHANGED <<keys, start, jobs, confirmed, loading, asks, marks, modal, busy, owned>>

-------------------------------------------------------------------------------
(* _refresh: by the button, off while the balance is loading, and after    *)
(* the dialog of a transfer, which does not look.                          *)
Refresh ==
    /\ modal = "none" /\ wallet # None
    /\ Ask(wallet)
    /\ hasty' = (hasty \/ ~Quiet)
    /\ UNCHANGED <<keys, calls, failed, refused, modal, wallet, busy, owned>>

(* An answer switches the spinner off even when another request is under   *)
(* way.                                                                    *)
SpinnerOff(k) == loading \ {k}

(* An answer is shown whichever wallet it was for; an error is told.       *)
Answer(k, w) ==
    /\ asks[k][w] > 0
    /\ asks' = [asks EXCEPT ![k][w] = @ - 1]
    /\ loading' = SpinnerOff(k)
    /\ figures' \in {figures, [figures EXCEPT ![k] = w]}
    /\ UNCHANGED <<keys, calls, marks, modal, wallet, busy, owned>>

-------------------------------------------------------------------------------
JobStep == \E j \in jobs : Provision(j) \/ JobFails(j) \/ JobReturns(j)
LoadStep == LoadNative \/ LoadRecovers \/ LoadFails \/ LoadReturns

ScreenNext ==
    \/ LoadStep \/ JobStep
    \/ Create \/ AskPhrase \/ Restore \/ CloseModal
    \/ AskDelete \/ ConfirmDelete \/ DeleteNative \/ DeleteReturns
    \/ Refresh \/ \E k \in Kinds, w \in Wallets : Answer(k, w)

ScreenSpec == ScreenInit /\ [][ScreenNext]_screenVars

-------------------------------------------------------------------------------
(* The screen never runs a create beside another, or beside a restore,     *)
(* however dialogs, the load and deletions come in between: busy says      *)
(* whether one is under way.  A load that recovers a wallet provisions the *)
(* vault too and does not set busy, so that the vault is at two wallets at *)
(* a time for a user who taps before the load has answered; for one who    *)
(* waits it never is.                                                      *)
Provisioning == Cardinality(jobs) + (IF start.at = "recover" THEN 1 ELSE 0)
OneProvisioning ==
    /\ Cardinality(jobs) = IF busy THEN 1 ELSE 0
    /\ ~hasty => Provisioning <= 1

(* A user who waits for what is under way, whose calls do not fail and     *)
(* whose keychain gives and deletes what it is asked to, sees the wallet   *)
(* the device holds.  A read that fails is told as no wallet at all.       *)
ScreenShowsDevice == ~hasty /\ ~failed /\ ~refused /\ Quiet => wallet = device

(* Such a user never sees the balance of one wallet under another.  It     *)
(* takes the deletion's clearing it; the history is not cleared.           *)
OwnBalance ==
    ~hasty /\ wallet # None => figures["balance"] \in {None, wallet}

(* "wallet must survive app restart" (main.dart 59): of the wallets the    *)
(* user had, none is overwritten while the keychain gives what it is asked *)
(* for; only a deletion takes one away.                                    *)
WalletSurvivesRestart == ~refused => ~erased
===============================================================================
