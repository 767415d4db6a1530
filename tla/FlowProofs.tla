------------------------------ MODULE FlowProofs ------------------------------
(***************************************************************************)
(* Theorems about a payment on the screen: what the sheet shows and sends, *)
(* for any names, edits and sheets; and what the stream of watch emits,    *)
(* for any timeout, any number of forks, and nodes that lag as they like.  *)
(***************************************************************************)
EXTENDS SendFlow, SequenceTheorems, FiniteSetTheorems, TLAPS

Observations == [level : Levels, err : BOOLEAN]

(* The cluster: what it has been in includes what it is in, a transaction  *)
(* without a record has not failed, and what is finalized stays.           *)
ClusterInv ==
    /\ truth \in been /\ Unknown \in been /\ been \subseteq Observations
    /\ \A s \in been : /\ s.level = "none" => s = Unknown
                       /\ s.level = "finalized" => truth = s

(* The stream: lastEmitted is what was emitted last, and the loop is only  *)
(* under way while that is no final state.                                 *)
Latest == emitted[Len(emitted)]
StreamInv ==
    /\ emitted \in Seq(States) /\ Len(emitted) <= 2
    /\ phase \in {"idle"} \cup Running \cup Ended
    /\ phase = "idle" => emitted = <<>>
    /\ emitted # <<>> => IF last = None THEN Latest = "failed"
                                         ELSE last \in Commitments /\ Latest = State(last)
    /\ Len(emitted) = 2 => emitted[1] # emitted[2] /\ emitted[1] \notin Final
    /\ emitted # <<>> /\ phase \notin Ended => Latest \notin Final

WatchInv == ClusterInv /\ StreamInv /\ EmittedWasTrue

(* A payment that has just been sent is known to nobody. *)
LEMMA InitWatchInv == FlowInit => WatchInv
PROOF
<1> SUFFICES ASSUME FlowInit PROVE WatchInv
  OBVIOUS
<1>1. emitted = <<>> /\ phase = "idle" /\ truth = Unknown /\ been = {Unknown}
  BY DEF FlowInit, WatchInit
<1>2. Unknown \in Observations /\ Unknown.level # "finalized"
  BY DEF Unknown, Observations, Levels
<1> QED
  BY <1>1, <1>2 DEF WatchInv, ClusterInv, StreamInv, EmittedWasTrue

(* What the cluster does contradicts nothing that was emitted. *)
LEMMA ClusterKeeps ==
    ASSUME WatchInv, ClusterStep
    PROVE  WatchInv'
PROOF
<1>1. UNCHANGED <<phase, stream, shown>>
  BY DEF ClusterStep, Process, Advance, Fork
<1>2. PICK s \in Observations :
        /\ truth' = s /\ been' = been \cup {s} /\ truth.level # "finalized"
        /\ s.level = "none" => s = Unknown
  <2>1. truth \in Observations
    BY DEF WatchInv, ClusterInv
  <2>2. CASE Process
    BY <2>2 DEF Process, Reach, Unknown, Observations, Levels
  <2>3. CASE Advance
    BY <2>1, <2>3 DEF Advance, Reach, Observations, Levels
  <2>4. CASE Fork
    BY <2>4 DEF Fork, Reach, Unknown, Observations, Levels
  <2> QED
    BY <2>2, <2>3, <2>4 DEF ClusterStep
<1>3. ClusterInv'
  BY <1>2 DEF WatchInv, ClusterInv
<1>4. StreamInv'
  BY <1>1 DEF WatchInv, StreamInv, stream, Latest
<1>5. EmittedWasTrue'
  BY <1>1, <1>2 DEF WatchInv, EmittedWasTrue, stream
<1> QED
  BY <1>3, <1>4, <1>5 DEF WatchInv

(* Two emissions are remembered. *)
LEMMA RemembersTwo ==
    ASSUME NEW S, NEW q \in Seq(S), Len(q) <= 2, NEW x \in S
    PROVE  /\ LastTwo(Append(q, x)) \in Seq(S)
           /\ Len(LastTwo(Append(q, x))) = IF q = <<>> THEN 1 ELSE 2
           /\ LastTwo(Append(q, x))[Len(LastTwo(Append(q, x)))] = x
           /\ q # <<>> => /\ Len(q) \in DOMAIN q /\ q[Len(q)] \in S
                          /\ LastTwo(Append(q, x))[1] = q[Len(q)]
PROOF
<1> DEFINE a == Append(q, x)
<1>1. Len(q) \in Nat /\ Len(q) <= 2 /\ (q # <<>> => Len(q) > 0) /\ DOMAIN q = 1..Len(q)
  BY LenProperties, EmptySeq
<1>2. /\ a \in Seq(S) /\ Len(a) = Len(q) + 1 /\ a[Len(q) + 1] = x
      /\ \A i \in 1..Len(q) : a[i] = q[i]
  OBVIOUS
<1>3. q = <<>> => Len(q) = 0
  OBVIOUS
<1>4. q # <<>> => Len(q) \in DOMAIN q /\ q[Len(q)] \in S
  BY <1>1, ElementOfSeq
<1> HIDE DEF a
<1>5. CASE Len(q) = 2
  <2>1. a # <<>> /\ Len(a) = 3 /\ q # <<>>
    BY <1>2, <1>3, <1>5
  <2>2. Tail(a) \in Seq(S) /\ Len(Tail(a)) = 2 /\ Tail(a)[1] = a[2] /\ Tail(a)[2] = a[3]
    <3>1. a \in Seq(S) /\ a # <<>>
      BY <1>2, <2>1
    <3>2. /\ Tail(a) \in Seq(S) /\ Len(Tail(a)) = Len(a) - 1
          /\ \A i \in 1..Len(Tail(a)) : Tail(a)[i] = a[i + 1]
      BY <3>1, HeadTailProperties, Zenon
    <3> HIDE DEF a
    <3> DEFINE l == Tail(a)
    <3>3. l \in Seq(S) /\ Len(l) = 2 /\ \A i \in 1..Len(l) : l[i] = a[i + 1]
      BY <2>1, <3>2
    <3> HIDE DEF l
    <3>4. l[1] = a[2] /\ l[2] = a[3]
      BY <3>3
    <3> QED
      BY <3>3, <3>4 DEF l
  <2>4. a[2] = q[2] /\ a[3] = x
    BY <1>2, <1>5
  <2>5. LastTwo(a) = Tail(a)
    BY <2>1 DEF LastTwo
  <2> QED
    BY <1>4, <1>5, <2>1, <2>2, <2>4, <2>5 DEF a
<1>6. CASE Len(q) \in {0, 1}
  <2>1. LastTwo(a) = a
    BY <1>1, <1>2, <1>6 DEF LastTwo
  <2>2. Len(q) = IF q = <<>> THEN 0 ELSE 1
    BY <1>1, <1>3, <1>6
  <2>3. q # <<>> => a[1] = q[1]
    BY <1>2, <2>2
  <2> QED
    BY <1>2, <1>4, <2>1, <2>2, <2>3 DEF a
<1> QED
  BY <1>1, <1>5, <1>6

(* What is emitted, if it is news, differs from what was emitted before,   *)
(* and the last two are what is remembered.                                *)
LEMMA NewsDiffers ==
    ASSUME WatchInv, phase = "poll", NEW s \in been, News(Commitment(s)),
           emitted' = LastTwo(Append(emitted, State(Commitment(s)))),
           last' = CommitmentOf(Commitment(s))
    PROVE  LET e == State(Commitment(s)) IN
           /\ emitted' \in Seq(States) /\ Latest' = e /\ e \in States
           /\ Len(emitted') = IF emitted = <<>> THEN 1 ELSE 2
           /\ emitted # <<>> => emitted'[1] = Latest
           /\ emitted # <<>> => Latest \in States /\ Latest # e /\ Latest \notin Final
           /\ IF last' = None THEN e = "failed" ELSE last' \in Commitments /\ e = State(last')
PROOF
<1> DEFINE raw == Commitment(s)
           e == State(raw)
<1>1. raw \in Commitments \cup {"failed"}
  BY DEF WatchInv, ClusterInv, Observations, Levels, Commitment, Commitments
<1>2. e \in States /\ (raw \in Commitments => e = State(raw) /\ e # "failed")
  BY <1>1 DEF State, States, Commitments
<1>3. IF last' = None THEN e = "failed" ELSE last' \in Commitments /\ e = State(last')
  BY <1>1, NoneIsNoState DEF CommitmentOf, State, Commitments
<1>4. ASSUME emitted # <<>>
      PROVE  Latest \in States /\ Latest # e /\ Latest \notin Final
  <2>1. Latest \in States /\ Latest \notin Final
    <3>1. emitted \in Seq(States) /\ Len(emitted) <= 2 /\ Latest \notin Final
      BY <1>4 DEF WatchInv, StreamInv, Ended
    <3>2. Latest \in States
      BY <1>2, <1>4, <3>1, RemembersTwo DEF Latest
    <3> QED
      BY <3>1, <3>2
  <2>2. last # None /\ last \in Commitments /\ Latest = State(last)
    BY <1>4, <2>1 DEF WatchInv, StreamInv, Final
  <2>3. CASE raw = "failed"
    BY <2>1, <2>3 DEF State, Final
  <2>4. CASE raw # "failed"
    <3>1. raw \in Commitments
      BY <1>1, <2>4
    <3>2. CommitmentOf(raw) # last
      BY <1>4, <2>4 DEF News
    <3>3. raw # last
      BY <2>4, <3>2 DEF CommitmentOf
    <3> HIDE DEF raw
    <3>4. State(raw) # State(last)
      BY <2>2, <3>1, <3>3 DEF State, Commitments
    <3> QED
      BY <2>1, <2>2, <3>4 DEF raw
  <2> QED
    BY <2>1, <2>3, <2>4
<1> HIDE DEF e, raw
<1>5. /\ emitted' \in Seq(States) /\ Latest' = e
      /\ Len(emitted') = IF emitted = <<>> THEN 1 ELSE 2
      /\ emitted # <<>> => emitted'[1] = Latest
  <2>1. emitted \in Seq(States) /\ Len(emitted) <= 2 /\ e \in States
    BY <1>2 DEF WatchInv, StreamInv
  <2>2. emitted' = LastTwo(Append(emitted, e))
    BY DEF e, raw
  <2> QED
    BY <2>1, <2>2, RemembersTwo DEF Latest
<1> QED
  BY <1>2, <1>3, <1>4, <1>5 DEF e, raw

(* A poll emits what some node has seen. *)
LEMMA PollKeeps ==
    ASSUME WatchInv, Poll
    PROVE  WatchInv'
PROOF
<1>1. PICK s \in been, late \in BOOLEAN :
        /\ IF News(Commitment(s))
             THEN /\ emitted' = LastTwo(Append(emitted, State(Commitment(s))))
                  /\ last' = CommitmentOf(Commitment(s))
             ELSE UNCHANGED <<emitted, last>>
        /\ phase' = IF Returns(Commitment(s), late) THEN "done" ELSE "delay"
  <2>1. Unknown \in been
    BY DEF WatchInv, ClusterInv
  <2> QED
    BY <2>1 DEF Poll
<1>2. phase = "poll" /\ UNCHANGED cluster
  BY DEF Poll
<1>3. ClusterInv'
  BY <1>2 DEF WatchInv, ClusterInv, cluster
<1>4. phase' \in {"done", "delay"} /\ (phase' = "delay" => Commitment(s) \notin Final)
  BY <1>1 DEF Returns
<1> DEFINE raw == Commitment(s)
           e == State(raw)
<1>5. CASE News(raw)
  <2>1. /\ emitted' \in Seq(States) /\ Latest' = e /\ e \in States
        /\ Len(emitted') = IF emitted = <<>> THEN 1 ELSE 2
        /\ emitted # <<>> => emitted'[1] = Latest
        /\ emitted # <<>> => Latest \in States /\ Latest # e /\ Latest \notin Final
        /\ IF last' = None THEN e = "failed" ELSE last' \in Commitments /\ e = State(last')
    BY <1>1, <1>2, <1>5, NewsDiffers
  <2>2. e \in Final => raw \in Final
    BY DEF State, Final
  <2>3. /\ e = "finalized" => truth = [level |-> "finalized", err |-> FALSE]
        /\ e = "confirmed" => [level |-> "confirmed", err |-> FALSE] \in been
        /\ e = "failed" => \E x \in been : x.err
    <3>1. s \in Observations /\ (s.level = "finalized" => truth = s)
      BY DEF WatchInv, ClusterInv
    <3>2. s = [level |-> s.level, err |-> s.err] /\ s.err \in BOOLEAN
      BY <3>1 DEF Observations
    <3> QED
      BY <3>1, <3>2 DEF State, Commitment, Observations, Levels
  <2> HIDE DEF e, raw
  <2>4. StreamInv'
    <3>1. emitted' # <<>>
      BY <2>1, EmptySeq
    <3>2. phase' # "idle" /\ phase' \in Running \cup Ended
      BY <1>4 DEF Running, Ended
    <3>3. phase' \notin Ended => phase' = "delay" /\ e \notin Final
      BY <1>4, <2>2 DEF Ended, raw
    <3>4. Len(emitted') = 2 => emitted'[1] # emitted'[2] /\ emitted'[1] \notin Final
      BY <2>1 DEF Latest
    <3>5. Len(emitted') <= 2
      BY <2>1
    <3> QED
      BY <2>1, <3>1, <3>2, <3>3, <3>4, <3>5 DEF StreamInv
  <2>5. EmittedWasTrue'
    <3>1. truth' = truth /\ been' = been
      BY <1>2 DEF cluster
    <3>2. emitted # <<>> => \E i \in DOMAIN emitted : emitted[i] = Latest
      BY <2>1, RemembersTwo DEF WatchInv, StreamInv, Latest
    <3>3. \A i \in DOMAIN emitted' :
            emitted'[i] = e \/ \E j \in DOMAIN emitted : emitted'[i] = emitted[j]
      <4>1. DOMAIN emitted' = 1..Len(emitted')
        BY <2>1, LenProperties
      <4> QED
        BY <2>1, <3>2, <4>1 DEF Latest
    <3> QED
      BY <2>3, <3>1, <3>3 DEF WatchInv, EmittedWasTrue
  <2> QED
    BY <1>3, <2>4, <2>5 DEF WatchInv
<1>6. CASE ~ News(raw)
  <2>1. UNCHANGED <<emitted, last>>
    BY <1>1, <1>6
  <2>2. StreamInv'
    BY <1>2, <1>4, <2>1 DEF WatchInv, StreamInv, Latest, Running, Ended
  <2>3. EmittedWasTrue'
    BY <1>2, <2>1 DEF WatchInv, EmittedWasTrue, cluster
  <2> QED
    BY <1>3, <2>2, <2>3 DEF WatchInv
<1> QED
  BY <1>5, <1>6

(* The other steps emit nothing, and an ended stream stays ended. *)
LEMMA QuietKeeps ==
    ASSUME WatchInv, UNCHANGED <<cluster, stream>>,
           phase' \in Running \cup Ended \cup {"idle"},
           phase' = "idle" => phase = "idle", phase \in Ended => phase' \in Ended
    PROVE  WatchInv'
PROOF
<1>1. ClusterInv'
  BY DEF WatchInv, ClusterInv, cluster
<1>2. StreamInv'
  BY DEF WatchInv, StreamInv, stream, Latest
<1>3. EmittedWasTrue'
  BY DEF WatchInv, EmittedWasTrue, cluster, stream
<1> QED
  BY <1>1, <1>2, <1>3 DEF WatchInv

(* Every step of the flow is one of these. *)
LEMMA WatchStep == WatchInv /\ [FlowNext]_flowVars => WatchInv'
PROOF
<1> SUFFICES ASSUME WatchInv, [FlowNext]_flowVars
             PROVE  WatchInv'
  OBVIOUS
<1>1. phase \in Running \cup Ended \cup {"idle"}
  BY DEF WatchInv, StreamInv
<1>2. ASSUME UNCHANGED watchVars
      PROVE  WatchInv'
  BY <1>1, <1>2, QuietKeeps DEF watchVars
<1>3. ASSUME Listen \/ Delay \/ PollFails \/ CancelWatch
      PROVE  WatchInv'
  BY <1>1, <1>3, QuietKeeps DEF Listen, Delay, PollFails, CancelWatch, Running, Ended
<1> QED
  BY <1>2, <1>3, ClusterKeeps, PollKeeps
     DEF FlowNext, flowVars, Compose, ShowSent, Done, Observe, StreamStep, Spread

(* The stream emits once per change and nothing after a final state.       *)
THEOREM StreamTellsChanges == FlowSpec => []OncePerChange
PROOF
<1>1. WatchInv => OncePerChange
  <2> SUFFICES ASSUME WatchInv PROVE OncePerChange
    OBVIOUS
  <2>1. emitted \in Seq(States) /\ Len(emitted) <= 2
    BY DEF WatchInv, StreamInv
  <2>2. DOMAIN emitted = 1..Len(emitted) /\ Len(emitted) \in Nat
    BY <2>1, LenProperties
  <2>3. ASSUME NEW i \in DOMAIN emitted, emitted[i] \in Final
        PROVE  phase \in Ended
    <3>1. emitted # <<>> /\ (i = Len(emitted) \/ (i = 1 /\ Len(emitted) = 2))
      BY <2>1, <2>2
    <3> QED
      BY <2>3, <3>1 DEF WatchInv, StreamInv, Latest
  <2> QED
    BY <2>3 DEF WatchInv, StreamInv, OncePerChange
<1> QED
  BY <1>1, InitWatchInv, WatchStep, PTL DEF FlowSpec

(* What the stream says of the transaction was so in the cluster.          *)
THEOREM StreamTellsTruth == FlowSpec => []EmittedWasTrue
PROOF
<1>1. WatchInv => EmittedWasTrue
  BY DEF WatchInv
<1> QED
  BY <1>1, InitWatchInv, WatchStep, PTL DEF FlowSpec

-------------------------------------------------------------------------------
Own == {s \in sends : Mounted(s)}

SheetTypes ==
    /\ sheet \in Nat /\ text \in Inputs /\ debounce \in Names \cup {Nothing}
    /\ lookups \in [Names -> Nat]
    /\ resolving \in BOOLEAN /\ unresolved \in BOOLEAN /\ thrown \in BOOLEAN
    /\ sending \in BOOLEAN
    /\ \A s \in sends : s.sheet \in 0..sheet

(* The timer and the address are of the name in the field, and only the    *)
(* open sheet has a spinner or a button that is off.                       *)
PreviewInv ==
    /\ debounce # Nothing => debounce = text
    /\ PreviewIsOfField /\ SpinnerIsOwedAnAnswer
    /\ resolving => route = "sheet"

(* The open sheet sends nothing, or one transfer to what the field says.   *)
SendingInv ==
    /\ sending => route = "sheet"
    /\ IF sending THEN \E s \in sends : s.to = text /\ Own = {s} ELSE Own = {}

SheetInv == SheetTypes /\ PreviewInv /\ SendingInv

(* The sheet opens empty.                                                  *)
LEMMA InitSheetInv == FlowInit => SheetInv
PROOF
<1> SUFFICES ASSUME FlowInit PROVE SheetInv
  OBVIOUS
<1>1. SheetTypes
  BY DEF FlowInit, SheetInit, SheetTypes, NoLookups, Inputs
<1>2. PreviewInv
  BY DEF FlowInit, SheetInit, PreviewInv, PreviewIsOfField, SpinnerIsOwedAnAnswer
<1>3. SendingInv
  BY DEF FlowInit, SheetInit, SendingInv, Own
<1> QED
  BY <1>1, <1>2, <1>3 DEF SheetInv

(* A fresh sheet, or none, owes nothing and sends nothing. *)
LEMMA BlankKeeps ==
    ASSUME SheetInv, Blank, sends' \subseteq sends, sheet' \in Nat, sheet' >= sheet,
           route' = "sheet" => sheet' = sheet + 1
    PROVE  SheetInv'
PROOF
<1>1. SheetTypes'
  <2>1. \A s \in sends' : s.sheet \in 0..sheet'
    BY DEF SheetInv, SheetTypes
  <2>2. lookups' \in [Names -> Nat]
    BY DEF Blank, NoLookups
  <2> QED
    BY <2>1, <2>2 DEF SheetTypes, Blank, Inputs
<1>2. PreviewInv'
  BY InputsAreDistinct DEF Blank, PreviewInv, PreviewIsOfField, SpinnerIsOwedAnAnswer
<1>3. Own' = {}
  BY DEF SheetInv, SheetTypes, Own, Mounted
<1> QED
  BY <1>1, <1>2, <1>3 DEF SheetInv, SendingInv, Blank

(* What is under way stays so while neither the field nor the sheet changes. *)
LEMMA SameSends ==
    ASSUME SheetInv, UNCHANGED <<route, sheet, text, sending, sends>>
    PROVE  SendingInv'
PROOF
<1>1. Own' = Own
  BY DEF Own, Mounted
<1> QED
  BY <1>1 DEF SheetInv, SendingInv

(* An edit clears what is shown and schedules a look-up of what is typed.  *)
LEMMA EditKeeps ==
    ASSUME SheetInv, Edit
    PROVE  SheetInv'
PROOF
<1>1. PICK t \in Inputs :
        /\ text' = t /\ resolving' = (t \in Names)
        /\ debounce' = IF t \in Names THEN t ELSE Nothing
  BY DEF Edit, IsSolName, Scheduled
<1>2. /\ route = "sheet" /\ ~sending /\ resolved' = Nothing /\ unresolved' = FALSE
      /\ thrown' = FALSE
      /\ UNCHANGED <<route, sheet, lookups, sending, sends>>
  BY DEF Edit, Enabled
<1>3. SheetTypes'
  <2>1. resolving' \in BOOLEAN
    BY <1>1
  <2>2. text' \in Inputs' /\ debounce' \in Names \cup {Nothing}
    BY <1>1 DEF Inputs
  <2> QED
    BY <1>2, <2>1, <2>2 DEF SheetInv, SheetTypes
<1>4. PreviewInv'
  BY <1>1, <1>2, InputsAreDistinct DEF PreviewInv, PreviewIsOfField, SpinnerIsOwedAnAnswer
<1>5. Own' = Own
  BY <1>2 DEF Own, Mounted
<1> QED
  BY <1>2, <1>3, <1>4, <1>5 DEF SheetInv, SendingInv

(* The debounced look-up is of the text in the field.                      *)
LEMMA LookUpKeeps ==
    ASSUME SheetInv, LookUp
    PROVE  SheetInv'
PROOF
<1>1. /\ debounce \in Names /\ debounce = text /\ debounce' = Nothing
      /\ lookups' = [lookups EXCEPT ![debounce] = @ + 1]
      /\ UNCHANGED <<route, sheet, text, resolving, resolved, unresolved, thrown, sending,
                     sends>>
  BY DEF LookUp, field, SheetInv, SheetTypes, PreviewInv
<1>2. SheetTypes'
  BY <1>1 DEF SheetInv, SheetTypes
<1>3. lookups'[text] > 0
  BY <1>1 DEF SheetInv, SheetTypes
<1>4. PreviewInv'
  BY <1>1, <1>3 DEF SheetInv, PreviewInv, PreviewIsOfField, SpinnerIsOwedAnAnswer
<1> QED
  BY <1>1, <1>2, <1>4, SameSends DEF SheetInv

(* An answer is shown only if its name is still in the field.              *)
LEMMA ResolvedKeeps ==
    ASSUME SheetInv, NEW n \in Names, Resolved(n)
    PROVE  SheetInv'
PROOF
<1>1. /\ lookups[n] > 0 /\ lookups' = [lookups EXCEPT ![n] = @ - 1]
      /\ UNCHANGED <<route, sheet, text, debounce, thrown, sending, sends>>
  BY DEF Resolved, field
<1>2. SheetTypes'
  <2>1. resolving' \in BOOLEAN /\ unresolved' \in BOOLEAN
    <3>1. resolving \in BOOLEAN /\ unresolved \in BOOLEAN
      BY DEF SheetInv, SheetTypes
    <3>2. \/ resolving' = FALSE /\ unresolved' = unresolved
          \/ resolving' = FALSE /\ unresolved' = TRUE
          \/ resolving' = resolving /\ unresolved' = unresolved
      BY DEF Resolved
    <3> QED
      BY <3>1, <3>2
  <2>2. lookups' \in [Names -> Nat]
    BY <1>1 DEF SheetInv, SheetTypes
  <2>3. text' \in Inputs'
    BY <1>1 DEF SheetInv, SheetTypes, Inputs
  <2> QED
    BY <1>1, <2>1, <2>2, <2>3 DEF SheetInv, SheetTypes
<1>3. CASE StillAsked(n)
  <2>1. resolving' = FALSE /\ ((resolved' = n /\ unresolved' = unresolved)
                               \/ (unresolved' = TRUE /\ resolved' = resolved))
    BY <1>3 DEF Resolved
  <2>2. PreviewInv'
    BY <1>1, <1>3, <2>1, InputsAreDistinct
       DEF SheetInv, PreviewInv, PreviewIsOfField, SpinnerIsOwedAnAnswer, StillAsked
  <2> QED
    BY <1>1, <1>2, <2>2, SameSends DEF SheetInv
<1>4. CASE ~ StillAsked(n)
  <2>1. UNCHANGED <<resolving, resolved, unresolved>>
    BY <1>4 DEF Resolved
  <2>2. resolving => text # n
    BY <1>4 DEF SheetInv, PreviewInv, StillAsked
  <2>3. text # n /\ text \in Names => lookups'[text] = lookups[text]
    BY <1>1 DEF SheetInv, SheetTypes
  <2>4. PreviewInv'
    BY <1>1, <2>1, <2>2, <2>3 DEF SheetInv, PreviewInv, PreviewIsOfField, SpinnerIsOwedAnAnswer
  <2> QED
    BY <1>1, <1>2, <2>4, SameSends DEF SheetInv
<1> QED
  BY <1>3, <1>4

(* An answer that cannot be read leaves the spinner, and is remembered if  *)
(* it was for the name in the field.                                       *)
LEMMA UnreadableKeeps ==
    ASSUME SheetInv, NEW n \in Names, Unreadable(n)
    PROVE  SheetInv'
PROOF
<1>1. /\ lookups[n] > 0 /\ lookups' = [lookups EXCEPT ![n] = @ - 1]
      /\ thrown' = (thrown \/ StillAsked(n))
      /\ UNCHANGED <<route, sheet, text, debounce, resolving, resolved, unresolved, sending, sends>>
  BY DEF Unreadable, field
<1>2. SheetTypes'
  <2>1. lookups' \in [Names -> Nat]
    BY <1>1 DEF SheetInv, SheetTypes
  <2>2. thrown' \in BOOLEAN
    BY <1>1 DEF SheetInv, SheetTypes
  <2>3. text' \in Inputs'
    BY <1>1 DEF SheetInv, SheetTypes, Inputs
  <2> QED
    BY <1>1, <2>1, <2>2, <2>3 DEF SheetInv, SheetTypes
<1>3. resolving => thrown' \/ text # n
  BY <1>1 DEF SheetInv, PreviewInv, StillAsked
<1>4. text # n /\ text \in Names => lookups'[text] = lookups[text]
  BY <1>1 DEF SheetInv, SheetTypes
<1>5. thrown => thrown'
  BY <1>1
<1>6. PreviewInv'
  BY <1>1, <1>3, <1>4, <1>5 DEF SheetInv, PreviewInv, PreviewIsOfField, SpinnerIsOwedAnAnswer
<1> QED
  BY <1>1, <1>2, <1>6, SameSends DEF SheetInv

(* The steps of a transfer leave the preview alone. *)
LEMMA SamePreview ==
    ASSUME SheetInv, UNCHANGED <<route, sheet, field, preview>>, sending' \in BOOLEAN,
           \A s \in sends' : s.sheet \in 0..sheet
    PROVE  SheetTypes' /\ PreviewInv'
PROOF
<1>1. SheetTypes'
  BY DEF SheetInv, SheetTypes, field, preview
<1>2. PreviewInv'
  BY DEF SheetInv, PreviewInv, PreviewIsOfField, SpinnerIsOwedAnAnswer, field, preview
<1> QED
  BY <1>1, <1>2

(* Tapping Send starts one send, of what is typed.                         *)
LEMMA TapKeeps ==
    ASSUME SheetInv, Tap
    PROVE  SheetInv'
PROOF
<1> DEFINE t == [sheet |-> sheet, to |-> text]
<1>1. /\ route = "sheet" /\ ~sending /\ sending' = TRUE /\ sends' = sends \cup {t}
      /\ UNCHANGED <<route, sheet, field, preview>> /\ text' = text
  BY DEF Tap, Enabled, field
<1>2. \A s \in sends' : s.sheet \in 0..sheet
  BY <1>1 DEF SheetInv, SheetTypes
<1>3. Own' = {t} /\ t.to = text
  BY <1>1 DEF SheetInv, SendingInv, Own, Mounted
<1> QED
  BY <1>1, <1>2, <1>3, SamePreview DEF SheetInv, SendingInv

(* A send that fails, or returns unseen, is no longer under way.           *)
LEMMA SendFailsKeeps ==
    ASSUME SheetInv, NEW s \in sends, SendFails(s) \/ SendReturnsUnseen(s)
    PROVE  SheetInv'
PROOF
<1>1. /\ sends' = sends \ {s} /\ sending' = (sending /\ ~Mounted(s))
      /\ UNCHANGED <<route, sheet, field, preview>> /\ text' = text
  BY DEF SendFails, SendReturnsUnseen, SheetInv, SheetTypes, field
<1>2. Own' = Own \ {s}
  BY <1>1 DEF Own, Mounted
<1>3. SendingInv'
  <2>1. CASE Mounted(s)
    BY <1>1, <1>2, <2>1 DEF SheetInv, SendingInv, Own
  <2>2. CASE ~ Mounted(s)
    BY <1>1, <1>2, <2>2 DEF SheetInv, SendingInv, Own
  <2> QED
    BY <2>1, <2>2
<1> QED
  BY <1>1, <1>3, SamePreview DEF SheetInv, SheetTypes

(* Every step of the flow is one of the sheet or leaves the sheet alone.   *)
LEMMA SheetStepKeeps == SheetInv /\ [FlowNext]_flowVars => SheetInv'
PROOF
<1> SUFFICES ASSUME SheetInv, [FlowNext]_flowVars
             PROVE  SheetInv'
  OBVIOUS
<1>1. sheet \in Nat
  BY DEF SheetInv, SheetTypes
<1>2. ASSUME SheetStep PROVE SheetInv'
  <2>1. CASE OpenSheet
    BY <1>1, <2>1, BlankKeeps DEF OpenSheet
  <2>2. CASE Dismiss
    BY <1>1, <2>2, BlankKeeps DEF Dismiss
  <2> QED
    BY <1>2, <2>1, <2>2, EditKeeps, LookUpKeeps, TapKeeps, ResolvedKeeps, UnreadableKeeps,
       SendFailsKeeps
       DEF SheetStep
<1>3. ASSUME NEW s \in sends, SendReturns(s) PROVE SheetInv'
  BY <1>1, <1>3, BlankKeeps DEF SendReturns
<1>4. ASSUME route = "dialog", route' = "wallet",
             UNCHANGED <<sheet, field, preview, sending, sends>>
      PROVE  SheetInv'
  <2>1. SheetTypes'
    BY <1>4 DEF SheetInv, SheetTypes, field, preview
  <2>2. PreviewInv'
    BY <1>4 DEF SheetInv, PreviewInv, PreviewIsOfField, SpinnerIsOwedAnAnswer, field, preview
  <2>3. SendingInv'
    BY <1>4 DEF SheetInv, SendingInv, Own, Mounted
  <2> QED
    BY <2>1, <2>2, <2>3 DEF SheetInv
<1>5. ASSUME UNCHANGED sheetVars PROVE SheetInv'
  <2>1. SheetTypes' /\ PreviewInv'
    BY <1>5, SamePreview DEF sheetVars, SheetInv, SheetTypes
  <2>2. SendingInv'
    BY <1>5, SameSends DEF sheetVars, field
  <2> QED
    BY <2>1, <2>2 DEF SheetInv
<1> QED
  BY <1>2, <1>3, <1>4, <1>5 DEF FlowNext, flowVars, Compose, ShowSent, Done, Observe, Spread

(* The preview is of the name in the field, however lookups overtake each  *)
(* other.                                                                  *)
THEOREM PreviewIsHonest == FlowSpec => []PreviewIsOfField
PROOF
<1>1. SheetInv => PreviewIsOfField
  BY DEF SheetInv, PreviewInv
<1> QED
  BY <1>1, InitSheetInv, SheetStepKeeps, PTL DEF FlowSpec

(* A name is shown with a spinner, an address or an error, and a spinner   *)
(* is owed an answer unless a lookup of its name ended in an answer that   *)
(* could not be read, past every catch of _resolve.                        *)
THEOREM SpinnersAreOwed == FlowSpec => []SpinnerIsOwedAnAnswer
PROOF
<1>1. SheetInv => SpinnerIsOwedAnAnswer
  BY DEF SheetInv, PreviewInv
<1> QED
  BY <1>1, InitSheetInv, SheetStepKeeps, PTL DEF FlowSpec

(* The open sheet sends one transfer at a time, to what the field says.    *)
THEOREM SheetSendsOnce == FlowSpec => []SendsWhatItShows
PROOF
<1>1. SheetInv => SendsWhatItShows
  <2> SUFFICES ASSUME SheetInv PROVE SendsWhatItShows
    OBVIOUS
  <2>1. \A s \in Own : s.to = text
    BY DEF SheetInv, SendingInv
  <2>2. sending <=> Cardinality(Own) = 1
    <3>1. Cardinality({}) = 0 /\ \A s : Cardinality({s}) = 1
      BY FS_EmptySet, FS_Singleton
    <3>2. IF sending THEN \E s \in sends : Own = {s} ELSE Own = {}
      BY DEF SheetInv, SendingInv
    <3>3. sending => Cardinality(Own) = 1
      BY <3>1, <3>2
    <3>4. ~ sending => Cardinality(Own) = 0
      BY <3>1, <3>2
    <3> QED
      BY <3>3, <3>4, 0 # 1
  <2> QED
    BY <2>1, <2>2 DEF SendsWhatItShows, Own
<1> QED
  BY <1>1, InitSheetInv, SheetStepKeeps, PTL DEF FlowSpec
===============================================================================
