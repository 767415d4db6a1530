------------------------------ MODULE SendSheet ------------------------------
(***************************************************************************)
(* The sheet of the example app in which a transfer is composed            *)
(* (_SendSheet), with its live preview of a .sol name: a timer restarted   *)
(* by every change of the field, lookups that answer in any order, and a   *)
(* transfer that goes on when the sheet is pulled away.                    *)
(*                                                                         *)
(* An address is what the lookup of its name answered and is represented   *)
(* by that name.                                                           *)
(***************************************************************************)
EXTENDS Naturals, FiniteSets

CONSTANTS
    Names,      \* recipients that end in .sol
    Address,    \* any other recipient
    MaxEdits,   \* bound: changes of the field per sheet
    MaxSheets,  \* bound: how often the sheet is opened
    Nothing

ASSUME InputsAreDistinct == Address \notin Names \cup {Nothing} /\ Nothing \notin Names
ASSUME SheetBounds == MaxEdits \in Nat /\ MaxSheets \in Nat

VARIABLES
    route,      \* what is on the screen: the wallet, the sheet or the dialog
    sheet,      \* how many sheets have been opened: the last may be open
    edits,      \* changes of the field of this sheet
    text,       \* the recipient field, Nothing when empty
    debounce,   \* the name the timer will look up
    lookups,    \* how many lookups of each name are under way
    resolving,  \* _resolving
    resolved,   \* _resolvedAddress: the name whose address is shown
    unresolved, \* _resolveError is set
    thrown,     \* history: a lookup of the name in the field ended uncaught
    sending,    \* _sending
    sends       \* the calls of XendWallet.send under way, of any sheet

field == <<edits, text>>
preview == <<debounce, lookups, resolving, resolved, unresolved, thrown>>
sheetVars == <<route, sheet, field, preview, sending, sends>>

Inputs == Names \cup {Address, Nothing}
NoLookups == [n \in Names |-> 0]

SheetInit ==
    /\ route = "wallet" /\ sheet = 0
    /\ edits = 0 /\ text = Nothing
    /\ debounce = Nothing /\ lookups = NoLookups
    /\ resolving = FALSE /\ resolved = Nothing /\ unresolved = FALSE /\ thrown = FALSE
    /\ sending = FALSE /\ sends = {}

(* A new sheet, and what is left of one that is gone: answers and timers   *)
(* find it unmounted and do nothing.                                       *)
Blank ==
    /\ edits' = 0 /\ text' = Nothing
    /\ debounce' = Nothing /\ lookups' = NoLookups
    /\ resolving' = FALSE /\ resolved' = Nothing /\ unresolved' = FALSE /\ thrown' = FALSE
    /\ sending' = FALSE

(* _openSend *)
OpenSheet ==
    /\ route = "wallet" /\ sheet < MaxSheets
    /\ route' = "sheet" /\ sheet' = sheet + 1
    /\ Blank
    /\ UNCHANGED sends

(* The fields are enabled while nothing is being sent.  The variant leaves *)
(* them enabled.                                                           *)
AlwaysEnabled == route = "sheet"
Enabled == route = "sheet" /\ ~sending

(* Timer(400 ms): the timer under way is cancelled.  The variant lets it   *)
(* run, as a throttle would.                                               *)
Throttled(t) == IF debounce = Nothing THEN t ELSE debounce
Scheduled(t) == t

(* _isSolName *)
IsSolName(t) == t \in Names

(* _onRecipientChanged: the controller tells of every change, one of the   *)
(* cursor included, and whatever was shown of a name goes.                 *)
Edit ==
    /\ Enabled /\ edits < MaxEdits
    /\ edits' = edits + 1
    /\ \E t \in Inputs :
         /\ text' = t
         /\ resolving' = IsSolName(t)
         /\ debounce' = IF IsSolName(t) THEN Scheduled(t) ELSE Nothing
    /\ resolved' = Nothing /\ unresolved' = FALSE /\ thrown' = FALSE
    /\ UNCHANGED <<route, sheet, lookups, sending, sends>>

(* The timer fires: _resolve *)
LookUp ==
    /\ debounce # Nothing
    /\ lookups' = [lookups EXCEPT ![debounce] = @ + 1]
    /\ debounce' = Nothing
    /\ UNCHANGED <<route, sheet, field, resolving, resolved, unresolved, thrown, sending, sends>>

(* An answer for a name that is no longer in the field is dropped.  The    *)
(* variant trusts the last answer.                                         *)
AnyAnswer(n) == route = "sheet"
StillAsked(n) == route = "sheet" /\ text = n

(* _resolve after the await: an address, or one of the two errors          *)
Resolved(n) ==
    /\ lookups[n] > 0
    /\ lookups' = [lookups EXCEPT ![n] = @ - 1]
    /\ IF StillAsked(n)
         THEN /\ resolving' = FALSE
              /\ \/ resolved' = n /\ UNCHANGED unresolved
                 \/ unresolved' = TRUE /\ UNCHANGED resolved
         ELSE UNCHANGED <<resolving, resolved, unresolved>>
    /\ UNCHANGED <<route, sheet, field, debounce, thrown, sending, sends>>

(* An answer that is no JSON object, as of a proxy, makes _get throw what  *)
(* is no XendError: _resolve catches nothing else and has no finally, so   *)
(* that the lookup is over and the spinner stays.                          *)
Unreadable(n) ==
    /\ lookups[n] > 0
    /\ lookups' = [lookups EXCEPT ![n] = @ - 1]
    /\ thrown' = (thrown \/ StillAsked(n))
    /\ UNCHANGED <<route, sheet, field, debounce, resolving, resolved, unresolved, sending, sends>>

(* _send: an empty recipient or a bad amount is told inline and changes    *)
(* nothing else; the button is off while a transfer is under way.          *)
Tap ==
    /\ Enabled
    /\ text # Nothing
    /\ sending' = TRUE
    /\ sends' = sends \cup {[sheet |-> sheet, to |-> text]}
    /\ UNCHANGED <<route, sheet, field, preview>>

(* XendWallet.send returns.  A sheet that is still there shows the error   *)
(* or pops with the signature; for one that is gone nothing happens.       *)
Mounted(s) == route = "sheet" /\ s.sheet = sheet

SendFails(s) ==
    /\ s \in sends
    /\ sends' = sends \ {s}
    /\ sending' = (sending /\ ~Mounted(s))
    /\ UNCHANGED <<route, sheet, field, preview>>

SendReturns(s) ==
    /\ s \in sends /\ Mounted(s)
    /\ sends' = sends \ {s}
    /\ route' = "dialog"
    /\ Blank
    /\ UNCHANGED sheet

SendReturnsUnseen(s) ==
    /\ s \in sends /\ ~Mounted(s)
    /\ sends' = sends \ {s}
    /\ UNCHANGED <<route, sheet, field, preview, sending>>

(* The sheet is dragged away or the barrier tapped, also during a send. *)
Dismiss ==
    /\ route = "sheet"
    /\ route' = "wallet"
    /\ Blank
    /\ UNCHANGED <<sheet, sends>>

SheetStep ==
    \/ OpenSheet \/ Edit \/ LookUp \/ Tap \/ Dismiss
    \/ \E n \in Names : Resolved(n) \/ Unreadable(n)
    \/ \E s \in sends : SendFails(s) \/ SendReturnsUnseen(s)

-------------------------------------------------------------------------------
(* The preview never shows the address of another name than the one in the *)
(* field, in whatever order the lookups of the names typed answer.         *)
PreviewIsOfField == resolved # Nothing => resolved = text

(* Under a name there is always a spinner, an address or an error, and a   *)
(* spinner is owed an answer: the timer or a lookup of that very name is   *)
(* under way.  The one way for it to turn on for nobody is a lookup of     *)
(* that name, since it was typed, whose answer could not be read.          *)
SpinnerIsOwedAnAnswer ==
    /\ route = "sheet" /\ text \in Names => resolving \/ unresolved \/ resolved # Nothing
    /\ resolving => text \in Names /\ (debounce = text \/ lookups[text] > 0 \/ thrown)

(* What the open sheet is sending goes to the recipient it shows, and it   *)
(* sends one transfer at a time.                                           *)
SendsWhatItShows ==
    LET own == {s \in sends : Mounted(s)} IN
    /\ \A s \in own : s.to = text
    /\ sending <=> Cardinality(own) = 1
===============================================================================
