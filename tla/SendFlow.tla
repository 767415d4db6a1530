------------------------------- MODULE SendFlow -------------------------------
(***************************************************************************)
(* One payment as the user of the example app sees it: the sheet in which  *)
(* it is composed, and, once send has returned its signature, the dialog   *)
(* that watches it (_openSend).                                            *)
(***************************************************************************)
EXTENDS SendSheet, Watch

flowVars == <<sheetVars, watchVars>>

FlowInit == SheetInit /\ WatchInit

(* Navigator.pop(context, tx.id): the dialog takes the place of the sheet. *)
ShowSent(s) == SendReturns(s) /\ Listen

(* Done: the dialog goes.  The flow follows one signature. *)
Done ==
    /\ route = "dialog"
    /\ route' = "wallet"
    /\ \/ CancelWatch
       \/ phase \in Ended /\ UNCHANGED watchVars
    /\ UNCHANGED <<sheet, field, preview, sending, sends>>

(* The sheet, before a signature is watched.  What sheets that are gone    *)
(* still send shows nowhere and is left where it is.                       *)
Compose == phase = "idle" /\ SheetStep /\ UNCHANGED watchVars

(* The transaction may have spread while send was under way: the first     *)
(* poll cannot tell that from its having spread just before the poll.      *)
Spread ==
    /\ ClusterStep
    /\ phase # "idle"
    /\ UNCHANGED sheetVars

Observe == StreamStep /\ UNCHANGED sheetVars

FlowNext ==
    \/ Compose
    \/ \E s \in sends : ShowSent(s)
    \/ Done \/ Observe \/ Spread

(* A poll is answered or fails, and its timer fires. *)
FlowSpec == FlowInit /\ [][FlowNext]_flowVars /\ WF_flowVars(Observe)

===============================================================================
