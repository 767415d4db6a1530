-------------------------------- MODULE Watch --------------------------------
(***************************************************************************)
(* XendWallet.watch polling GET /v1/tx/:signature (handlers/tx.rs, status; *)
(* chain/solana.rs, status) and the dialog of the example app that shows   *)
(* what the stream emits.  An async* stream does nothing before somebody   *)
(* listens to it.                                                          *)
(*                                                                         *)
(* The cluster executes the transaction, may fork away from a block that   *)
(* is not final, and confirms and finalizes.  The RPC endpoint is a pool   *)
(* of nodes: one that lags answers with any earlier state.                 *)
(***************************************************************************)
EXTENDS Naturals, Sequences

CONSTANTS
    MaxPolls,   \* polls that fit into the timeout (45 with the defaults)
    MaxForks,   \* bound: how often a block is abandoned
    None

ASSUME PollsAssumption == MaxPolls \in Nat \ {0} /\ MaxForks \in Nat
ASSUME NoneIsNoState ==
    None \notin {"pending", "processed", "confirmed", "finalized", "failed"}

VARIABLES
    truth,    \* the state of the transaction in the cluster
    been,     \* the states it has been in: what a node may answer
    forks,    \* how many forks have been abandoned
    phase,    \* where the stream is
    polls,    \* polls made
    last,     \* lastEmitted, with hasEmitted: the commitment emitted last
    emitted,  \* history: the last two states the stream emitted
    shown     \* the state the dialog shows

cluster == <<truth, been, forks>>
stream == <<polls, last, emitted>>
watchVars == <<cluster, phase, stream, shown>>

Levels == {"none", "processed", "confirmed", "finalized"}
Executions == [level : Levels \ {"none"}, err : BOOLEAN]
Unknown == [level |-> "none", err |-> FALSE]

(* TxCommitment and the states of TxStatus. *)
Commitments == {"processed", "confirmed", "finalized"}
States == {"pending", "confirmed", "finalized", "failed"}
Final == {"finalized", "failed"}
Running == {"poll", "delay"}   \* before: "idle"
Ended == {"done", "error", "cancelled"}

WatchInit ==
    /\ truth = Unknown /\ been = {Unknown} /\ forks = 0
    /\ phase = "idle" /\ polls = 0
    /\ last = None /\ emitted = <<>>
    /\ shown = "pending"

(* SolanaAdapter::status: no record, and an answer that is an error, count *)
(* as processed; an execution that failed counts as failed at any level.   *)
(* The variant asks for the level only.                                    *)
LevelOnly(s) == IF s.level = "none" THEN "processed" ELSE s.level
Commitment(s) ==
    IF s.level = "none" THEN "processed"
    ELSE IF s.err THEN "failed" ELSE s.level

(* txStatusFromBackend *)
State(raw) == IF raw = "processed" THEN "pending" ELSE raw
CommitmentOf(raw) == IF raw = "failed" THEN None ELSE raw

(* Emit on the first observation, on a change and on failure. *)
News(raw) ==
    \/ emitted = <<>>
    \/ CommitmentOf(raw) # last
    \/ raw = "failed"

LastTwo(q) == IF Len(q) > 2 THEN Tail(q) ELSE q

(* Whether the stream returns after this observation; the deadline may     *)
(* pass at any poll and has passed when MaxPolls delays have.  The         *)
(* variants poll on after a failure, and for ever.                         *)
OnlyOnFinalized(raw, late) == raw = "finalized" \/ late
NoDeadline(raw, late) == raw \in Final
Returns(raw, late) == raw \in Final \/ late

(* The dialog opens and its StreamBuilder listens. *)
Listen ==
    /\ phase = "idle"
    /\ phase' = "poll"
    /\ UNCHANGED <<cluster, stream, shown>>

(* One turn of the loop: getTransactionStatus answers what some node knew, *)
(* or an RPC error that reads as no record.                                *)
Poll ==
    /\ phase = "poll"
    /\ polls' = IF polls < MaxPolls THEN polls + 1 ELSE polls
    /\ \E s \in been \cup {Unknown}, late \in {polls = MaxPolls, TRUE} :
         LET raw == Commitment(s) IN
         /\ IF News(raw)
              THEN /\ emitted' = LastTwo(Append(emitted, State(raw)))
                   /\ last' = CommitmentOf(raw)
                   /\ shown' = State(raw)
              ELSE UNCHANGED <<emitted, last, shown>>
         /\ phase' = IF Returns(raw, late) THEN "done" ELSE "delay"
    /\ UNCHANGED cluster

(* Future.delayed(pollInterval) *)
Delay ==
    /\ phase = "delay"
    /\ phase' = "poll"
    /\ UNCHANGED <<cluster, stream, shown>>

(* A poll that throws ends the stream with the error; the builder of the   *)
(* dialog then has no data and falls back to pending.                      *)
PollFails ==
    /\ phase = "poll"
    /\ phase' = "error"
    /\ shown' = "pending"
    /\ UNCHANGED <<cluster, stream>>

(* The dialog is closed and the builder cancels.  A poll that was under    *)
(* way still ends, but nobody hears of it.                                 *)
CancelWatch ==
    /\ phase \in Running
    /\ phase' = "cancelled"
    /\ UNCHANGED <<cluster, stream, shown>>

(* The cluster: external. *)
Reach(s) == truth' = s /\ been' = been \cup {s}

Process ==
    /\ truth = Unknown
    /\ \E err \in BOOLEAN : Reach([level |-> "processed", err |-> err])
    /\ UNCHANGED <<forks, phase, stream, shown>>

Advance ==
    /\ \/ truth.level = "processed" /\ Reach([truth EXCEPT !.level = "confirmed"])
       \/ truth.level = "confirmed" /\ Reach([truth EXCEPT !.level = "finalized"])
    /\ UNCHANGED <<forks, phase, stream, shown>>

Fork ==
    /\ truth.level \in {"processed", "confirmed"} /\ forks < MaxForks
    /\ Reach(Unknown)
    /\ forks' = forks + 1
    /\ UNCHANGED <<phase, stream, shown>>

StreamStep == Poll \/ Delay \/ PollFails
ClusterStep == Process \/ Advance \/ Fork

-------------------------------------------------------------------------------
(* "once per change.  Completes on finalized/failed" (xend_wallet.dart     *)
(* 310-311): the stream never emits a state twice in a row, although it    *)
(* compares commitments and a failure has none, and emits nothing after a  *)
(* final one, however far behind the next node is.                         *)
OncePerChange ==
    /\ Len(emitted) = 2 => emitted[1] # emitted[2] /\ emitted[1] \notin Final
    /\ (\E i \in DOMAIN emitted : emitted[i] \in Final) => phase \in Ended

(* A stream that says finalized is right for ever, and one that says       *)
(* confirmed or failed repeats what the cluster once held, over any number *)
(* of forks and lagging nodes.                                             *)
EmittedWasTrue ==
    \A i \in DOMAIN emitted :
      /\ emitted[i] = "finalized" => truth = [level |-> "finalized", err |-> FALSE]
      /\ emitted[i] = "confirmed" => [level |-> "confirmed", err |-> FALSE] \in been
      /\ emitted[i] = "failed" => \E s \in been : s.err

(* The stream ends, whether or not the transaction is ever executed.       *)
WatchEnds == phase \in Running ~> phase \in Ended
===============================================================================
