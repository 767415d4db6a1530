----------------------------- MODULE ScreenProofs -----------------------------
(***************************************************************************)
(* What the example app's screen shows, for any set of wallets, however    *)
(* the load, creates, restores, deletions and answers come in between: one *)
(* create or restore is under way at a time, and for a user who waits for  *)
(* what is under way the vault is at one wallet at a time and the screen   *)
(* has the wallet of the device and only its balance.                      *)
(***************************************************************************)
EXTENDS Screen, FiniteSetTheorems, TLAPS

(* What the screen keeps.                                                  *)
Underway == deletes.todo + deletes.done

ScreenTypes ==
    /\ device \in MaybeWallet /\ seed \in MaybeWallet /\ wallet \in MaybeWallet
    /\ start \in [at : {"native", "answer", "recover", "register", "done", "failed"},
                  found : MaybeWallet]
    /\ start.at = "recover" => start.found \in Wallets
    /\ jobs \subseteq [at : {"native", "register"}, wallet : Wallets]
    /\ deletes \in [todo : Nat, done : Nat]
    /\ modal \in {"none", "phrase", "delete"}
    /\ figures \in [Kinds -> MaybeWallet]
    /\ asks \in [Kinds -> [Wallets -> Nat]]
    /\ busy \in BOOLEAN
    /\ hasty \in BOOLEAN /\ failed \in BOOLEAN /\ refused \in BOOLEAN

(* busy says whether a create or restore is under way, and the dialog of a *)
(* restore is open only while none is.                                     *)
BusyInv ==
    /\ busy => \E j \in jobs : jobs = {j}
    /\ ~busy => jobs = {}
    /\ modal = "phrase" => ~busy

(* A user who waits has at most one thing under way: the load, a create or *)
(* restore, or a deletion, and no balance or history request beside the    *)
(* last two.  The requests are for the wallet on the screen.               *)
PatientInv ==
    ~hasty =>
      /\ ~Started => jobs = {} /\ Underway = 0 /\ wallet = None
      /\ jobs # {} => Underway = 0 /\ wallet = None /\ Answered
      /\ Underway # 0 => Underway = 1 /\ Answered
      /\ modal = "phrase" => Quiet /\ wallet = None
      /\ \A k \in Kinds, w \in Wallets : asks[k][w] # 0 => w = wallet
      /\ figures["balance"] \in {None, wallet}

(* If nothing failed either and the keychain gave and deleted what it was  *)
(* asked to, what is about to be shown is what the device holds.           *)
HeldInv ==
    ~hasty /\ ~failed /\ ~refused =>
      /\ start.at # "failed"
      /\ start.at \in {"answer", "register"} => start.found = device
      /\ \A j \in jobs : j.at = "register" => j.wallet = device
      /\ deletes.done # 0 => device = None
      /\ Quiet => wallet = device

ScreenInv == ScreenTypes /\ BusyInv /\ PatientInv /\ HeldInv

-------------------------------------------------------------------------------
(* A request is one more, for the wallet it is of.                         *)
LEMMA AskCounts ==
    ASSUME ScreenTypes, NEW w \in Wallets, Ask(w)
    PROVE  /\ asks' \in [Kinds -> [Wallets -> Nat]]
           /\ \A k \in Kinds, v \in Wallets : v # w => asks'[k][v] = asks[k][v]
           /\ figures' = figures
<1>1. \A k \in Kinds : asks[k] \in [Wallets -> Nat]
  BY DEF ScreenTypes
<1>2. \A k \in Kinds : [asks[k] EXCEPT ![w] = @ + 1] \in [Wallets -> Nat]
  BY <1>1
<1>3. asks' = [k \in Kinds |-> [asks[k] EXCEPT ![w] = @ + 1]] /\ figures' = figures
  BY DEF Ask
<1> QED  BY <1>1, <1>2, <1>3

(* A wallet that is shown is asked about; the figures stay.                *)
LEMMA ShowAsks ==
    ASSUME ScreenTypes, NEW w \in MaybeWallet, Show(w)
    PROVE  /\ wallet' = w
           /\ asks' \in [Kinds -> [Wallets -> Nat]]
           /\ \A k \in Kinds, v \in Wallets : v # w => asks'[k][v] = asks[k][v]
           /\ figures' = figures
<1>1. wallet' = w
  BY DEF Show
<1>2. CASE w = None
  BY <1>1, <1>2 DEF Show, view, ScreenTypes
<1>3. CASE w # None
  <2>1. w \in Wallets /\ Ask(w)
    BY <1>3 DEF Show, MaybeWallet
  <2> QED  BY <1>1, <2>1, AskCounts
<1> QED  BY <1>2, <1>3

(* An answer is one request less, and shown, if it is, of its wallet.      *)
LEMMA AnswerCounts ==
    ASSUME ScreenTypes, NEW k \in Kinds, NEW w \in Wallets, Answer(k, w)
    PROVE  /\ asks' \in [Kinds -> [Wallets -> Nat]]
           /\ \A l \in Kinds, v \in Wallets : asks'[l][v] # 0 => asks[l][v] # 0
           /\ asks[k][w] # 0
           /\ figures' \in [Kinds -> MaybeWallet]
           /\ figures'["balance"] \in {figures["balance"], w}
<1>1. asks[k] \in [Wallets -> Nat] /\ asks[k][w] \in Nat /\ asks[k][w] > 0
  BY DEF ScreenTypes, Answer
<1>2. asks' = [asks EXCEPT ![k] = [asks[k] EXCEPT ![w] = asks[k][w] - 1]]
  BY DEF Answer
<1>3. [asks[k] EXCEPT ![w] = asks[k][w] - 1] \in [Wallets -> Nat]
  BY <1>1
<1>4. /\ asks' \in [Kinds -> [Wallets -> Nat]]
      /\ \A l \in Kinds, v \in Wallets : asks'[l][v] # 0 => asks[l][v] # 0
  BY <1>1, <1>2, <1>3 DEF ScreenTypes
<1>5. /\ figures' \in [Kinds -> MaybeWallet]
      /\ figures'["balance"] \in {figures["balance"], w}
  BY DEF Answer, ScreenTypes, MaybeWallet, Kinds
<1> QED  BY <1>1, <1>4, <1>5

-------------------------------------------------------------------------------
(* The types, by each action.                                              *)
LEMMA TypesStep ==
    ASSUME ScreenTypes, [ScreenNext]_screenVars
    PROVE  ScreenTypes'
<1>1. CASE LoadNative
  <2> PICK a \in {device, None}, d \in {seed, None} :
           /\ start' = [at |-> IF a = None /\ d # None THEN "recover" ELSE "answer",
                        found |-> Found(a, d)]
           /\ refused' = (refused \/ <<a, d>> # <<device, seed>>)
    BY <1>1 DEF LoadNative
  <2>1. a \in MaybeWallet /\ d \in MaybeWallet
    BY DEF ScreenTypes, MaybeWallet
  <2>2. Found(a, d) \in MaybeWallet
    BY <2>1 DEF Found
  <2>3. a = None /\ d # None => Found(a, d) \in Wallets
    BY <2>1 DEF Found, MaybeWallet
  <2>4. /\ start' \in [at : {"native", "answer", "recover", "register", "done", "failed"},
                       found : MaybeWallet]
        /\ start'.at = "recover" => start'.found \in Wallets
    BY <2>2, <2>3
  <2>5. refused' \in BOOLEAN
    BY DEF ScreenTypes
  <2>6. UNCHANGED <<device, seed, wallet, jobs, deletes, modal, figures, asks,
                    busy, hasty, failed>>
    BY <1>1 DEF LoadNative, keys, view
  <2> QED  BY <2>4, <2>5, <2>6 DEF ScreenTypes
<1>2. CASE LoadFails
  BY <1>2 DEF LoadFails, ScreenTypes, MaybeWallet, Kinds, keys, view
<1>3. CASE LoadReturns
  <2>1. start.found \in MaybeWallet /\ Show(start.found)
    BY <1>3 DEF ScreenTypes, LoadReturns
  <2> QED  BY <1>3, <2>1, ShowAsks
              DEF LoadReturns, ScreenTypes, MaybeWallet, Kinds, keys, marks
<1>4. ASSUME NEW j \in jobs, Provision(j)  PROVE ScreenTypes'
  BY <1>4 DEF Provision, ScreenTypes, MaybeWallet, Kinds, view, marks
<1>5. ASSUME NEW j \in jobs, JobFails(j)  PROVE ScreenTypes'
  BY <1>5 DEF JobFails, BusyAfter, ScreenTypes, MaybeWallet, Kinds, view
<1>6. ASSUME NEW j \in jobs, JobReturns(j)  PROVE ScreenTypes'
  <2>1. j.wallet \in MaybeWallet /\ Show(j.wallet)
    BY <1>6 DEF ScreenTypes, JobReturns, MaybeWallet
  <2> QED  BY <1>6, <2>1, ShowAsks
              DEF JobReturns, BusyAfter, ScreenTypes, MaybeWallet, Kinds,
                keys, marks
<1>7. CASE Create
  BY <1>7 DEF Create, Begin, ButtonsOn, ScreenTypes, MaybeWallet, Kinds, view
<1>8. CASE AskPhrase
  BY <1>8
     DEF AskPhrase, ButtonsOn, ScreenTypes, MaybeWallet, Kinds, keys, calls,
       view
<1>9. CASE Restore
  BY <1>9 DEF Restore, Begin, ScreenTypes, MaybeWallet, Kinds, view
<1>10. CASE CloseModal
  BY <1>10
     DEF CloseModal, ScreenTypes, MaybeWallet, Kinds, keys, calls, view, marks
<1>11. CASE AskDelete
  BY <1>11
     DEF AskDelete, ScreenTypes, MaybeWallet, Kinds, keys, calls, view, marks
<1>12. CASE ConfirmDelete
  BY <1>12 DEF ConfirmDelete, ScreenTypes, MaybeWallet, Kinds, keys, view
<1>13. CASE DeleteNative
  BY <1>13 DEF DeleteNative, ScreenTypes, MaybeWallet, Kinds, view, marks
<1>14. CASE DeleteReturns
  BY <1>14
     DEF DeleteReturns, FiguresAfterDelete, ScreenTypes, MaybeWallet, Kinds,
       keys, marks
<1>15. CASE Refresh
  <2>1. wallet \in Wallets /\ Ask(wallet)
    BY <1>15 DEF ScreenTypes, Refresh, MaybeWallet
  <2> QED  BY <1>15, <2>1, AskCounts
              DEF Refresh, ScreenTypes, MaybeWallet, Kinds, keys, calls
<1>16. ASSUME NEW k \in Kinds, NEW w \in Wallets, Answer(k, w)  PROVE ScreenTypes'
  BY <1>16, AnswerCounts
     DEF Answer, ScreenTypes, MaybeWallet, Kinds, keys, calls, marks
<1>17. CASE UNCHANGED screenVars
  BY <1>17
     DEF screenVars, ScreenTypes, MaybeWallet, Kinds, keys, calls, view, marks
<1>18. CASE LoadRecovers
  <2>1. /\ start' \in [at : {"native", "answer", "recover", "register", "done", "failed"},
                       found : MaybeWallet]
        /\ start'.at # "recover"
    BY <1>18 DEF LoadRecovers, ScreenTypes
  <2>2. device' \in MaybeWallet /\ seed' = seed /\ failed' \in BOOLEAN
    BY <1>18 DEF LoadRecovers, ScreenTypes, MaybeWallet
  <2>3. UNCHANGED <<wallet, jobs, deletes, modal, figures, asks, busy, hasty, refused>>
    BY <1>18 DEF LoadRecovers, view
  <2> QED  BY <2>1, <2>2, <2>3 DEF ScreenTypes
<1> QED  BY <1>1, <1>2, <1>3, <1>4, <1>5, <1>6, <1>7, <1>8, <1>9, <1>10,
             <1>11, <1>12, <1>13, <1>14, <1>15, <1>16, <1>17, <1>18
     DEF ScreenNext, LoadStep, JobStep

(* One create or restore at a time: the buttons are off during it, and a   *)
(* dialog that was open when another began there is none.                  *)
LEMMA BusyStep ==
    ASSUME ScreenTypes, BusyInv, [ScreenNext]_screenVars
    PROVE  BusyInv'
<1>1. CASE LoadNative
  BY <1>1 DEF LoadNative, BusyInv, view
<1>2. CASE LoadFails
  BY <1>2 DEF LoadFails, BusyInv, keys, view
<1>3. CASE LoadReturns
  BY <1>3 DEF LoadReturns, BusyInv
<1>4. ASSUME NEW j \in jobs, Provision(j)  PROVE BusyInv'
  BY <1>4 DEF Provision, BusyInv, view, marks
<1>5. ASSUME NEW j \in jobs, JobFails(j)  PROVE BusyInv'
  BY <1>5 DEF JobFails, BusyAfter, BusyInv, view
<1>6. ASSUME NEW j \in jobs, JobReturns(j)  PROVE BusyInv'
  BY <1>6 DEF JobReturns, BusyAfter, BusyInv
<1>7. CASE Create
  <2>1. jobs = {} /\ modal' = "none"
    BY <1>7 DEF Create, ButtonsOn, BusyInv
  <2>2. busy' = TRUE /\ \E j : jobs' = jobs \cup {j}
    BY <1>7 DEF Create, Begin
  <2> QED  BY <2>1, <2>2 DEF BusyInv
<1>8. CASE AskPhrase
  BY <1>8 DEF AskPhrase, ButtonsOn, BusyInv, keys, calls, view
<1>9. CASE Restore
  <2>1. jobs = {} /\ modal' = "none"
    BY <1>9 DEF Restore, BusyInv
  <2>2. busy' = TRUE /\ \E j : jobs' = jobs \cup {j}
    BY <1>9 DEF Restore, Begin
  <2> QED  BY <2>1, <2>2 DEF BusyInv
<1>10. CASE CloseModal
  BY <1>10 DEF CloseModal, BusyInv, keys, calls, view, marks
<1>11. CASE AskDelete
  BY <1>11 DEF AskDelete, BusyInv, keys, calls, view, marks
<1>12. CASE ConfirmDelete
  BY <1>12 DEF ConfirmDelete, BusyInv, keys, view
<1>13. CASE DeleteNative
  BY <1>13 DEF DeleteNative, BusyInv, view, marks
<1>14. CASE DeleteReturns
  BY <1>14 DEF DeleteReturns, FiguresAfterDelete, BusyInv, keys, marks
<1>15. CASE Refresh
  BY <1>15 DEF Refresh, BusyInv, calls
<1>16. ASSUME NEW k \in Kinds, NEW w \in Wallets, Answer(k, w)  PROVE BusyInv'
  BY <1>16 DEF Answer, BusyInv, calls
<1>17. CASE UNCHANGED screenVars
  BY <1>17 DEF screenVars, BusyInv, keys, calls, view, marks
<1>18. CASE LoadRecovers
  BY <1>18 DEF LoadRecovers, BusyInv, view
<1> QED  BY <1>1, <1>2, <1>3, <1>4, <1>5, <1>6, <1>7, <1>8, <1>9, <1>10,
             <1>11, <1>12, <1>13, <1>14, <1>15, <1>16, <1>17, <1>18
     DEF ScreenNext, LoadStep, JobStep

(* What a user who waits has under way, by each action.                    *)
LEMMA PatientStep ==
    ASSUME ScreenTypes, BusyInv, PatientInv, [ScreenNext]_screenVars
    PROVE  PatientInv'
<1>1. CASE LoadNative
  <2>1. ~Started /\ start'.at \in {"recover", "answer"}
    BY <1>1 DEF LoadNative, Started
  <2>2. UNCHANGED <<hasty, jobs, deletes, wallet, figures, asks, modal>>
    BY <1>1 DEF LoadNative, view
  <2> QED  BY <2>1, <2>2 DEF PatientInv, Started, Quiet, Answered, Underway
<1>2. CASE LoadFails
  BY <1>2
     DEF LoadFails, PatientInv, Started, Quiet, Answered, Underway, keys, view
<1>3. CASE LoadReturns
  <2>1. start.found \in MaybeWallet /\ Show(start.found)
    BY <1>3 DEF ScreenTypes, LoadReturns
  <2>2. ~hasty => /\ jobs = {} /\ Underway = 0 /\ wallet = None
                  /\ modal # "phrase" /\ figures["balance"] = None
                  /\ \A k \in Kinds, w \in Wallets : asks[k][w] = 0
    BY <1>3, NoneIsNoWallet DEF LoadReturns, PatientInv, Started, Quiet
  <2>3. start'.at = "done"
    BY <1>3 DEF LoadReturns, ScreenTypes
  <2>4. UNCHANGED <<jobs, deletes, modal, hasty>>
    BY <1>3 DEF LoadReturns, marks
  <2>5. \A k \in Kinds, v \in Wallets : v # start.found => asks'[k][v] = asks[k][v]
    BY <2>1, ShowAsks
  <2>6. figures' = figures /\ wallet' = start.found
    BY <2>1, ShowAsks
  <2> QED  BY <2>2, <2>3, <2>4, <2>5, <2>6 DEF PatientInv, Started, Underway
<1>4. ASSUME NEW j \in jobs, Provision(j)  PROVE PatientInv'
  BY <1>4
     DEF Provision, PatientInv, Started, Quiet, Answered, Underway, view, marks
<1>5. ASSUME NEW j \in jobs, JobFails(j)  PROVE PatientInv'
  BY <1>5
     DEF JobFails, BusyAfter, PatientInv, Started, Quiet, Answered, Underway,
       view
<1>6. ASSUME NEW j \in jobs, JobReturns(j)  PROVE PatientInv'
  <2>1. j.wallet \in MaybeWallet /\ Show(j.wallet)
    BY <1>6 DEF ScreenTypes, JobReturns, MaybeWallet
  <2> QED  BY <1>6, <2>1, ShowAsks
              DEF JobReturns, BusyAfter, PatientInv, Started, Quiet, Answered,
                Underway, BusyInv, keys, marks
<1>7. CASE Create
  BY <1>7
     DEF Create, Begin, ButtonsOn, PatientInv, Started, Quiet, Answered,
       Underway, view
<1>8. CASE AskPhrase
  BY <1>8
     DEF AskPhrase, ButtonsOn, PatientInv, Started, Quiet, Answered, Underway,
       keys, calls, view
<1>9. CASE Restore
  BY <1>9
     DEF Restore, Begin, PatientInv, Started, Quiet, Answered, Underway, view
<1>10. CASE CloseModal
  BY <1>10
     DEF CloseModal, PatientInv, Started, Quiet, Answered, Underway, keys,
       calls, view, marks
<1>11. CASE AskDelete
  BY <1>11
     DEF AskDelete, PatientInv, Started, Quiet, Answered, Underway, keys,
       calls, view, marks
<1>12. CASE ConfirmDelete
  <2>1. deletes'.todo = deletes.todo + 1 /\ deletes'.done = deletes.done
    BY <1>12 DEF ConfirmDelete, ScreenTypes
  <2>2. deletes.todo \in Nat /\ deletes.done \in Nat
    BY DEF ScreenTypes
  <2>3. hasty' = (hasty \/ ~Quiet \/ ~Answered) /\ modal' = "none"
    BY <1>12 DEF ConfirmDelete
  <2>4. UNCHANGED <<start, jobs, device, wallet, figures, asks>>
    BY <1>12 DEF ConfirmDelete, keys, view
  <2>5. ~hasty' => ~hasty /\ Started /\ jobs = {} /\ Underway = 0 /\ Answered
    BY <2>3 DEF Quiet, Underway
  <2>6. Underway' = Underway + 1
    BY <2>1, <2>2 DEF Underway
  <2>7. Answered' = Answered /\ Started' = Started
    BY <2>4 DEF Answered, Started
  <2> QED  BY <2>3, <2>4, <2>5, <2>6, <2>7 DEF PatientInv
<1>13. CASE DeleteNative
  BY <1>13
     DEF DeleteNative, PatientInv, Started, Quiet, Answered, Underway,
       ScreenTypes, view, marks
<1>14. CASE DeleteReturns
  <2>1. deletes'.todo = deletes.todo /\ deletes'.done = deletes.done - 1
    BY <1>14 DEF DeleteReturns, ScreenTypes
  <2>2. deletes.todo \in Nat /\ deletes.done \in Nat /\ deletes.done > 0
    BY <1>14 DEF DeleteReturns, ScreenTypes
  <2>3. wallet' = None /\ figures'["balance"] = None
    BY <1>14 DEF DeleteReturns, FiguresAfterDelete, ScreenTypes, Kinds
  <2>4. UNCHANGED <<start, jobs, modal, asks, hasty>>
    BY <1>14 DEF DeleteReturns, marks
  <2>5. ~hasty => Underway' = 0 /\ Answered /\ modal # "phrase" /\ jobs = {} /\ Started
    BY <2>1, <2>2 DEF PatientInv, Underway, Quiet
  <2> QED  BY <2>3, <2>4, <2>5 DEF PatientInv, Started, Answered
<1>15. CASE Refresh
  <2>1. wallet \in Wallets /\ Ask(wallet)
    BY <1>15 DEF ScreenTypes, Refresh, MaybeWallet
  <2>2. UNCHANGED <<start, jobs, deletes, modal, wallet>> /\ modal = "none"
    BY <1>15 DEF Refresh, calls
  <2>3. ~hasty' => ~hasty /\ Started /\ jobs = {} /\ Underway = 0
    BY <1>15 DEF Refresh, Quiet, Underway
  <2>4. figures' = figures
    BY <2>1, AskCounts
  <2>5. \A k \in Kinds, v \in Wallets : v # wallet => asks'[k][v] = asks[k][v]
    BY <2>1, AskCounts
  <2> QED  BY <2>2, <2>3, <2>4, <2>5 DEF PatientInv, Started, Underway
<1>16. ASSUME NEW k \in Kinds, NEW w \in Wallets, Answer(k, w)  PROVE PatientInv'
  <2>1. UNCHANGED <<start, jobs, deletes, modal, wallet, hasty>>
    BY <1>16 DEF Answer, calls, marks
  <2>2. \A l \in Kinds, v \in Wallets : asks'[l][v] # 0 => asks[l][v] # 0
    BY <1>16, AnswerCounts
  <2>3. asks[k][w] # 0 /\ figures'["balance"] \in {figures["balance"], w}
    BY <1>16, AnswerCounts
  <2>4. Answered => Answered'
    BY <2>2 DEF Answered
  <2> QED  BY <2>1, <2>2, <2>3, <2>4 DEF PatientInv, Started, Quiet, Underway
<1>17. CASE UNCHANGED screenVars
  BY <1>17
     DEF screenVars, PatientInv, Started, Quiet, Answered, Underway, keys,
       calls, view, marks
<1>18. CASE LoadRecovers
  <2>1. ~Started
    BY <1>18 DEF LoadRecovers, Started
  <2>2. UNCHANGED <<hasty, jobs, deletes, wallet, figures, asks, modal>>
    BY <1>18 DEF LoadRecovers, view
  <2> QED  BY <2>1, <2>2 DEF PatientInv, Started, Quiet, Answered, Underway
<1> QED  BY <1>1, <1>2, <1>3, <1>4, <1>5, <1>6, <1>7, <1>8, <1>9, <1>10,
             <1>11, <1>12, <1>13, <1>14, <1>15, <1>16, <1>17, <1>18
     DEF ScreenNext, LoadStep, JobStep

(* What is about to be shown to them, by each action.                      *)
LEMMA HeldStep ==
    ASSUME ScreenTypes, BusyInv, PatientInv, HeldInv, [ScreenNext]_screenVars
    PROVE  HeldInv'
<1>1. CASE LoadNative
  <2>1. PICK a \in {device, None}, d \in {seed, None} :
           /\ start' = [at |-> IF a = None /\ d # None THEN "recover" ELSE "answer",
                        found |-> Found(a, d)]
           /\ refused' = (refused \/ <<a, d>> # <<device, seed>>)
    BY <1>1 DEF LoadNative
  <2>2. ~refused' => ~refused /\ a = device
    BY <2>1
  <2>3. start'.at \in {"recover", "answer"} /\ start'.found = Found(a, d)
    BY <2>1
  <2>4. start'.at = "answer" => Found(a, d) = a
    BY <2>1 DEF Found
  <2>5. UNCHANGED <<device, hasty, failed, jobs, deletes, wallet>>
    BY <1>1 DEF LoadNative, keys
  <2> QED  BY <2>2, <2>3, <2>4, <2>5 DEF HeldInv, Quiet, Started
<1>2. CASE LoadFails
  BY <1>2
     DEF LoadFails, PatientInv, HeldInv, Started, Quiet, Underway, keys, view
<1>3. CASE LoadReturns
  <2>1. start.found \in MaybeWallet /\ Show(start.found)
    BY <1>3 DEF ScreenTypes, LoadReturns
  <2> QED  BY <1>3, <2>1, ShowAsks
              DEF LoadReturns, PatientInv, HeldInv, Started, Quiet, Underway,
                keys, marks
<1>4. ASSUME NEW j \in jobs, Provision(j)  PROVE HeldInv'
  <2>1. jobs = {j} /\ device' = j.wallet /\ jobs' = {[j EXCEPT !.at = "register"]}
    BY <1>4 DEF Provision, BusyInv
  <2>2. [j EXCEPT !.at = "register"].wallet = j.wallet
    BY DEF ScreenTypes
  <2>3. UNCHANGED <<start, deletes, wallet, hasty, failed, refused>>
    BY <1>4 DEF Provision, marks
  <2>4. ~hasty => Started /\ deletes.todo + deletes.done = 0
    BY <2>1 DEF PatientInv, Underway
  <2>5. deletes.todo \in Nat /\ deletes.done \in Nat
    BY DEF ScreenTypes
  <2>6. ~hasty => deletes.done = 0
    BY <2>4, <2>5
  <2>7. jobs' # {} /\ \A i \in jobs' : i.wallet = device'
    BY <2>1, <2>2
  <2>8. ~hasty => start.at \in {"done", "failed"}
    BY <2>4 DEF Started
  <2> QED  BY <2>3, <2>6, <2>7, <2>8 DEF HeldInv, Quiet
<1>5. ASSUME NEW j \in jobs, JobFails(j)  PROVE HeldInv'
  BY <1>5
     DEF JobFails, BusyAfter, PatientInv, HeldInv, Started, Quiet, Underway,
       view
<1>6. ASSUME NEW j \in jobs, JobReturns(j)  PROVE HeldInv'
  <2>1. j.wallet \in MaybeWallet /\ Show(j.wallet)
    BY <1>6 DEF ScreenTypes, JobReturns, MaybeWallet
  <2> QED  BY <1>6, <2>1, ShowAsks
              DEF JobReturns, BusyAfter, PatientInv, HeldInv, Started, Quiet,
                Underway, keys, marks
<1>7. CASE Create
  BY <1>7
     DEF Create, Begin, ButtonsOn, PatientInv, HeldInv, Started, Quiet,
       Underway, ScreenTypes, view
<1>8. CASE AskPhrase
  BY <1>8
     DEF AskPhrase, ButtonsOn, PatientInv, HeldInv, Started, Quiet, Underway,
       keys, calls, view
<1>9. CASE Restore
  BY <1>9
     DEF Restore, Begin, PatientInv, HeldInv, Started, Quiet, Underway,
       ScreenTypes, view
<1>10. CASE CloseModal
  BY <1>10
     DEF CloseModal, PatientInv, HeldInv, Started, Quiet, Underway, keys,
       calls, view, marks
<1>11. CASE AskDelete
  BY <1>11
     DEF AskDelete, PatientInv, HeldInv, Started, Quiet, Underway, keys,
       calls, view, marks
<1>12. CASE ConfirmDelete
  BY <1>12
     DEF ConfirmDelete, PatientInv, HeldInv, Started, Quiet, Underway,
       ScreenTypes, keys, view
<1>13. CASE DeleteNative
  <2>1. ~refused' => ~refused /\ device' = None
    BY <1>13 DEF DeleteNative
  <2>2. UNCHANGED <<start, jobs, wallet, hasty, failed>>
    BY <1>13 DEF DeleteNative
  <2>3. deletes.todo \in Nat /\ deletes.done \in Nat /\ deletes.todo > 0
    BY <1>13 DEF DeleteNative, ScreenTypes
  <2>4. ~hasty => Started /\ jobs = {}
    BY <2>3 DEF PatientInv, Underway
  <2>5. deletes'.todo + deletes'.done # 0
    BY <1>13, <2>3 DEF DeleteNative
  <2> QED  BY <2>1, <2>2, <2>4, <2>5 DEF HeldInv, Started, Quiet
<1>14. CASE DeleteReturns
  BY <1>14
     DEF DeleteReturns, FiguresAfterDelete, PatientInv, HeldInv, Started,
       Quiet, Underway, keys, marks
<1>15. CASE Refresh
  <2>1. wallet \in Wallets /\ Ask(wallet)
    BY <1>15 DEF ScreenTypes, Refresh, MaybeWallet
  <2> QED  BY <1>15, <2>1, AskCounts
              DEF Refresh, PatientInv, HeldInv, Started, Quiet, Underway,
                keys, calls
<1>16. ASSUME NEW k \in Kinds, NEW w \in Wallets, Answer(k, w)  PROVE HeldInv'
  BY <1>16, AnswerCounts
     DEF Answer, PatientInv, HeldInv, Started, Quiet, Underway, keys, calls,
       marks
<1>17. CASE UNCHANGED screenVars
  BY <1>17
     DEF screenVars, PatientInv, HeldInv, Started, Quiet, Underway, keys,
       calls, view, marks
<1>18. CASE LoadRecovers
  <2> SUFFICES ASSUME ~hasty', ~failed', ~refused'
               PROVE  /\ start'.at = "register" /\ start'.found = device'
                      /\ jobs' = {} /\ deletes'.done = 0
    BY DEF HeldInv, Quiet, Started
  <2>1. ~hasty /\ ~Started
    BY <1>18 DEF LoadRecovers, Started
  <2>2. jobs = {} /\ deletes.todo + deletes.done = 0
    BY <2>1 DEF PatientInv, Underway
  <2>3. deletes.done = 0
    BY <2>2 DEF ScreenTypes
  <2>4. UNCHANGED <<jobs, deletes>>
    BY <1>18 DEF LoadRecovers
  <2>5. device' = start.found /\ start' = [start EXCEPT !.at = "register"]
    BY <1>18 DEF LoadRecovers
  <2>6. start'.at = "register" /\ start'.found = device'
    BY <2>5 DEF ScreenTypes
  <2> QED  BY <2>2, <2>3, <2>4, <2>6
<1> QED  BY <1>1, <1>2, <1>3, <1>4, <1>5, <1>6, <1>7, <1>8, <1>9, <1>10,
             <1>11, <1>12, <1>13, <1>14, <1>15, <1>16, <1>17, <1>18
     DEF ScreenNext, LoadStep, JobStep

-------------------------------------------------------------------------------
(* The invariant of the screen (main.dart, _WalletScreenState over           *)
(* XendWallet.load, create, restore and delete) holds however the awaits of  *)
(* its handlers interleave, reads of the keychain that fail and deletions it *)
(* refuses included.                                                         *)
THEOREM ScreenInductive == ScreenSpec => []ScreenInv
<1>1. ScreenInit => ScreenInv
  <2> SUFFICES ASSUME ScreenInit  PROVE ScreenInv
    OBVIOUS
  <2>1. ScreenTypes
    BY DEF ScreenInit, ScreenTypes, MaybeWallet
  <2>2. BusyInv
    BY DEF ScreenInit, BusyInv
  <2>3. PatientInv
    BY DEF ScreenInit, PatientInv, Started, Underway, Kinds
  <2>4. HeldInv
    BY DEF ScreenInit, HeldInv, Quiet, Started
  <2> QED  BY <2>1, <2>2, <2>3, <2>4 DEF ScreenInv
<1>2. ScreenInv /\ [ScreenNext]_screenVars => ScreenInv'
  BY TypesStep, BusyStep, PatientStep, HeldStep DEF ScreenInv
<1> QED  BY <1>1, <1>2, PTL DEF ScreenSpec

(* One create or restore at a time, and busy says when: the dialog of a      *)
(* restore, which does not look at busy again, cannot outlive the moment it  *)
(* was opened in.  A load that recovers a wallet is beside one only for a    *)
(* user who did not wait for it: loadOrRecover does not set busy.            *)
THEOREM ProvisionsOne == ScreenSpec => []OneProvisioning
<1>1. ScreenInv => OneProvisioning
  <2> SUFFICES ASSUME ScreenInv  PROVE OneProvisioning
    OBVIOUS
  <2>1. Cardinality(jobs) = IF busy THEN 1 ELSE 0
    BY FS_EmptySet, FS_Singleton DEF ScreenInv, BusyInv, ScreenTypes
  <2>2. ~hasty /\ start.at = "recover" => jobs = {}
    BY DEF ScreenInv, PatientInv, Started
  <2>3. start.at = "recover" /\ jobs = {} => Provisioning <= 1
    BY FS_EmptySet DEF Provisioning
  <2>4. start.at # "recover" => Provisioning <= 1
    BY <2>1 DEF Provisioning
  <2>5. ~hasty => Provisioning <= 1
    BY <2>2, <2>3, <2>4
  <2> QED  BY <2>1, <2>5 DEF OneProvisioning
<1> QED  BY <1>1, ScreenInductive, PTL

(* A user who waits, whose calls do not fail and whose keychain gives and    *)
(* deletes what it is asked to, sees the wallet the device holds once        *)
(* nothing is under way.                                                     *)
THEOREM ShowsTheDevice == ScreenSpec => []ScreenShowsDevice
<1>1. ScreenInv => ScreenShowsDevice
  BY DEF ScreenInv, HeldInv, ScreenShowsDevice
<1> QED  BY <1>1, ScreenInductive, PTL

(* A user who waits never sees the balance of one wallet under another: the  *)
(* requests under way are for the wallet shown, and a deletion clears it.    *)
THEOREM ShowsOwnBalance == ScreenSpec => []OwnBalance
<1>1. ScreenInv => OwnBalance
  BY DEF ScreenInv, PatientInv, OwnBalance
<1> QED  BY <1>1, ScreenInductive, PTL
===============================================================================
