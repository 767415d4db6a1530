---------------------------- MODULE PaymentProofs ----------------------------
(***************************************************************************)
(* Theorems about Submit, for any number of keys, transactions, wallets,   *)
(* handlers and requests, and about Payment over it, for any number of     *)
(* payments and attempts.  A step of Payment is a step of Submit or leaves *)
(* its variables alone, so that what the first part shows of the server is *)
(* at hand in the second.                                                  *)
(***************************************************************************)
EXTENDS Payment, TLAPS

-------------------------------------------------------------------------------
(*****************************************************************************)
(* Part 1.  The endpoint: Submit.                                            *)
(*****************************************************************************)

(* The disjuncts of Next, one by one. *)
LEMMA NextCases ==
    ASSUME Next
    PROVE  \/ \E p \in Wallets : Register(p)
           \/ \E h \in Handlers, r \in Requests : Receive(h, r)
           \/ \E h \in Handlers : \/ Find(h) \/ FindWallet(h) \/ Claim(h)
                                  \/ Relay(h) \/ ReadReply(h) \/ Mark(h)
                                  \/ NodeAccepts(h) \/ NodeRefuses(h)
                                  \/ DbFails(h) \/ RpcFails(h)
                                  \/ Drop(h) \/ Close(h)
           \/ \E t \in Txs : OrphanArrives(t) \/ Execute(t) \/ Expire(t)
PROOF BY DEF Next, Serve, HandlerStep, NodeReplies, Fault, Network

-------------------------------------------------------------------------------
(* The statements of the ledger keep its rows within the schema. *)
LEMMA InsertType ==
    ASSUME NEW table \in [Keys -> Row], NEW k \in Keys,
           NEW w \in Wallets \cup {None}, NEW i \in Intents
    PROVE  InsertPending(table, k, w, i) \in [Keys -> Row]
PROOF BY DEF InsertPending, Pending, Exists, Row, Statuses

(* mark_submitted keeps every row within the schema.                       *)
LEMMA MarkType ==
    ASSUME NEW table \in [Keys -> Row], NEW k \in Keys, NEW t \in Txs
    PROVE  MarkSubmitted(table, k, t) \in [Keys -> Row]
PROOF BY DEF MarkSubmitted, Exists, Row, Statuses

(* A handler that is not idle serves a request, and one that has been      *)
(* answered by the node holds the answer.                                  *)
Serving ==
    \A h \in Handlers :
      /\ pc[h] # "idle" => req[h] \in Requests
      /\ pc[h] = "replied" => reply[h] # "none"

(* The server starts with an empty ledger and no handler at work.          *)
LEMMA InitTypeOK == Init => TypeOK /\ Serving
PROOF BY DEF Init, TypeOK, Serving, EmptyTable, NoRow, Row, Statuses, Locations, Working,
             AwaitingDb, Responses

(* The fields of a request a client sends are of the types the handler     *)
(* reads.                                                                  *)
LEMMA RequestFields ==
    ASSUME NEW r \in Requests
    PROVE  /\ r.key \in Keys /\ r.tx \in Txs
           /\ r.pubkey \in Wallets \cup {None} /\ r.intent \in Intents
PROOF BY RequestsAssumption DEF SubmitRequest

(* Ending in an answer or moving on keeps pc and resp well typed. *)
LEMMA ControlType ==
    ASSUME pc \in [Handlers -> Locations], resp \in [Handlers -> Responses],
           NEW h \in Handlers,
           \/ \E l \in Locations : Goto(h, l)
           \/ \E t \in Txs : Ok(h, t)
           \/ \E e \in Errors : Err(h, e)
    PROVE  pc' \in [Handlers -> Locations] /\ resp' \in [Handlers -> Responses]
PROOF
<1>1. "done" \in Locations
  BY DEF Locations
<1>2. ASSUME NEW l \in Locations, Goto(h, l)
      PROVE  pc' \in [Handlers -> Locations] /\ resp' \in [Handlers -> Responses]
  BY <1>2 DEF Goto
<1>3. ASSUME NEW t \in Txs, Ok(h, t)
      PROVE  pc' \in [Handlers -> Locations] /\ resp' \in [Handlers -> Responses]
  BY <1>1, <1>3 DEF Ok, Responses
<1>4. ASSUME NEW e \in Errors, Err(h, e)
      PROVE  pc' \in [Handlers -> Locations] /\ resp' \in [Handlers -> Responses]
  BY <1>1, <1>4 DEF Err, Responses
<1> QED
  BY <1>2, <1>3, <1>4

(* No step of a handler, of a client or of the network leaves the types.   *)
LEMMA TypeStep ==
    ASSUME TypeOK, Serving, [Next]_vars
    PROVE  TypeOK' /\ Serving'
PROOF
<1> USE DEF TypeOK, Serving, db, local, network
<1>1. ASSUME NEW p \in Wallets, Register(p)
      PROVE  TypeOK' /\ Serving'
  BY <1>1 DEF Register
<1>2. ASSUME NEW h \in Handlers, NEW r \in Requests, Receive(h, r)
      PROVE  TypeOK' /\ Serving'
  <2>1. (\E l \in Locations : Goto(h, l)) \/ (\E e \in Errors : Err(h, e))
    BY <1>2 DEF Receive, Errors, Locations, Working, AwaitingDb
  <2>2. pc' \in [Handlers -> Locations] /\ resp' \in [Handlers -> Responses]
    BY <2>1, ControlType
  <2>3. req' = [req EXCEPT ![h] = r] /\ late' \subseteq Handlers
    BY <1>2 DEF Receive
  <2>4. /\ pc'[h] # "replied"
        /\ \A g \in Handlers : g # h => pc'[g] = pc[g]
    BY <1>2 DEF Receive, Goto, Err
  <2>5. Serving' /\ req' \in [Handlers -> Requests \cup {NoRequest}]
    BY <1>2, <2>3, <2>4 DEF Receive
  <2> QED
    BY <1>2, <2>2, <2>3, <2>5 DEF Receive
<1>3. ASSUME NEW h \in Handlers,
             \/ Find(h) \/ FindWallet(h) \/ Claim(h)
             \/ Relay(h) \/ ReadReply(h) \/ Mark(h)
             \/ NodeAccepts(h) \/ NodeRefuses(h)
             \/ DbFails(h) \/ RpcFails(h)
      PROVE  TypeOK' /\ Serving'
  <2>0. /\ pc[h] # "idle"
        /\ req[h] \in Requests
        /\ req[h].key \in Keys /\ req[h].tx \in Txs
        /\ req[h].pubkey \in Wallets \cup {None} /\ req[h].intent \in Intents
    BY <1>3, RequestFields DEF Find, FindWallet, Claim, Relay, ReadReply, Mark,
           NodeAccepts, NodeRefuses, DbFails, RpcFails, AwaitingDb
  <2>1. \/ \E l \in Locations : Goto(h, l)
        \/ \E t \in Txs : Ok(h, t)
        \/ \E e \in Errors : Err(h, e)
    <3>1. Recorded(rows, req[h].key) => rows[req[h].key].signature \in Txs
      BY <2>0 DEF Recorded, Row
    <3>2. CASE Find(h)
      BY <2>0, <3>1, <3>2 DEF Find, Locations, Working, AwaitingDb
    <3>3. CASE FindWallet(h) \/ Claim(h) \/ Relay(h)
      BY <3>3 DEF FindWallet, Claim, Relay, Locations, Working, AwaitingDb, Errors
    <3>4. CASE ReadReply(h)
      <4>1. reply[h] \in {"none", "ok"} \cup Refusals
        OBVIOUS
      <4> QED
        BY <3>4, <4>1 DEF ReadReply, Locations, Working, AwaitingDb, Errors
    <3>5. CASE Mark(h)
      BY <2>0, <3>5 DEF Mark, Errors
    <3>6. CASE NodeAccepts(h) \/ NodeRefuses(h)
      BY <3>6 DEF NodeAccepts, NodeRefuses, Locations, Working
    <3>7. CASE DbFails(h) \/ RpcFails(h)
      BY <3>7 DEF DbFails, RpcFails, Errors
    <3> QED
      BY <1>3, <3>2, <3>3, <3>4, <3>5, <3>6, <3>7
  <2>2. pc' \in [Handlers -> Locations] /\ resp' \in [Handlers -> Responses]
    BY <2>1, ControlType
  <2>3. UNCHANGED req /\ UNCHANGED <<registered, expired, late>>
    BY <1>3 DEF Find, FindWallet, Claim, Relay, ReadReply, Mark,
           NodeAccepts, NodeRefuses, DbFails, RpcFails
  <2>4. \A g \in Handlers : g # h => pc'[g] = pc[g]
    BY <2>1 DEF Goto, Ok, Err
  <2>5. Serving'
    <3>1. pc'[h] = "replied" => reply'[h] # "none"
      BY <1>3, <2>0 DEF Find, FindWallet, Claim, Relay, ReadReply, Mark, NodeAccepts,
             NodeRefuses, DbFails, RpcFails, Goto, Ok, Err, Refusals
    <3>2. \A g \in Handlers : g # h => reply'[g] = reply[g]
      BY <1>3 DEF Find, FindWallet, Claim, Relay, ReadReply, Mark, NodeAccepts,
             NodeRefuses, DbFails, RpcFails
    <3> QED
      BY <2>0, <2>3, <2>4, <3>1, <3>2
  <2>6. rows' \in [Keys -> Row]
    <3>1. CASE Claim(h)
      BY <2>0, <3>1, InsertType DEF Claim
    <3>2. CASE Mark(h)
      BY <2>0, <3>2, MarkType DEF Mark
    <3> QED
      BY <1>3, <3>1, <3>2 DEF Find, FindWallet, Relay, ReadReply,
           NodeAccepts, NodeRefuses, DbFails, RpcFails
  <2>7. walletId' \in [Handlers -> Wallets \cup {None}]
    BY <1>3, <2>0 DEF Find, FindWallet, Claim, Relay, ReadReply, Mark,
           NodeAccepts, NodeRefuses, DbFails, RpcFails
  <2>8. reply' \in [Handlers -> {"none", "ok"} \cup Refusals]
    BY <1>3, <2>0 DEF Find, FindWallet, Claim, Relay, ReadReply, Mark,
           NodeAccepts, NodeRefuses, DbFails, RpcFails
  <2>9. /\ chain' \in [Txs -> {"unseen", "relayed", "landed", "failed"}]
        /\ orphans' \subseteq Txs
    BY <1>3, <2>0 DEF Find, FindWallet, Claim, Relay, ReadReply, Mark, NodeAccepts,
           NodeRefuses, DbFails, RpcFails, Admit, LeftOnWire
  <2> QED
    BY <2>2, <2>3, <2>5, <2>6, <2>7, <2>8, <2>9
<1>4. ASSUME NEW h \in Handlers, Drop(h) \/ Close(h)
      PROVE  TypeOK' /\ Serving'
  <2>1. pc[h] # "idle" /\ req[h].tx \in Txs
    BY <1>4, RequestFields DEF Drop, Close, Working, AwaitingDb
  <2>2. NoResponse \in Responses /\ "idle" \in Locations
    BY DEF Responses, Locations
  <2>3. orphans' \subseteq Txs
    BY <1>4, <2>1 DEF Drop, Close, LeftOnWire
  <2> QED
    BY <1>4, <2>1, <2>2, <2>3 DEF Drop, Close, Forget
<1>5. ASSUME NEW t \in Txs, OrphanArrives(t) \/ Execute(t) \/ Expire(t)
      PROVE  TypeOK' /\ Serving'
  BY <1>5 DEF OrphanArrives, Execute, Expire, Admit
<1>6. CASE UNCHANGED vars
  BY <1>6 DEF vars
<1> QED
  BY <1>1, <1>2, <1>3, <1>4, <1>5, <1>6, NextCases

(* In every reachable state the ledger fits its schema and every handler   *)
(* is at one of the awaits of submit().                                    *)
THEOREM TypeCorrect == Spec => []TypeOK
PROOF
<1>1. Init => TypeOK /\ Serving
  BY InitTypeOK
<1>2. (TypeOK /\ Serving) /\ [Next]_vars => (TypeOK /\ Serving)'
  BY TypeStep
<1> QED
  BY <1>1, <1>2, PTL DEF Spec

-------------------------------------------------------------------------------
(* What one step may do to each part of the state. *)

ServedAction(h) ==
    \/ Find(h) \/ FindWallet(h) \/ Claim(h) \/ Relay(h) \/ ReadReply(h) \/ Mark(h)
    \/ NodeAccepts(h) \/ NodeRefuses(h)
    \/ DbFails(h) \/ RpcFails(h) \/ Drop(h) \/ Close(h)

HandlerAction(h) == (\E r \in Requests : Receive(h, r)) \/ ServedAction(h)

(* All but the arrival of requests. *)
Served ==
    \/ \E p \in Wallets : Register(p)
    \/ \E h \in Handlers : Close(h)
    \/ Serve

Stays(h) ==
    /\ pc'[h] = pc[h] /\ req'[h] = req[h] /\ walletId'[h] = walletId[h]
    /\ reply'[h] = reply[h] /\ resp'[h] = resp[h] /\ (h \in late' <=> h \in late)

(* A step moves one handler at most and leaves the others as they are. *)
LEMMA OneServed ==
    ASSUME TypeOK, Served, NEW h \in Handlers, ~ ServedAction(h)
    PROVE  Stays(h)
PROOF
<1> USE DEF TypeOK, Stays, db, local, network
<1>1. ASSUME NEW p \in Wallets, Register(p)
      PROVE  Stays(h)
  BY <1>1 DEF Register
<1>2. ASSUME NEW g \in Handlers, g # h,
             \/ Find(g) \/ FindWallet(g) \/ Claim(g)
             \/ Relay(g) \/ ReadReply(g) \/ Mark(g)
             \/ NodeAccepts(g) \/ NodeRefuses(g) \/ DbFails(g) \/ RpcFails(g)
      PROVE  Stays(h)
  BY <1>2 DEF Find, FindWallet, Claim, Relay, ReadReply, Mark, NodeAccepts,
         NodeRefuses, DbFails, RpcFails, Goto, Ok, Err
<1>3. ASSUME NEW g \in Handlers, g # h, Drop(g) \/ Close(g)
      PROVE  Stays(h)
  BY <1>3 DEF Drop, Close, Forget
<1>4. ASSUME NEW t \in Txs, OrphanArrives(t) \/ Execute(t) \/ Expire(t)
      PROVE  Stays(h)
  BY <1>4 DEF OrphanArrives, Execute, Expire
<1> QED
  BY <1>1, <1>2, <1>3, <1>4
     DEF ServedAction, Served, Serve, HandlerStep, NodeReplies, Fault, Network

(* The same with requests that arrive. *)
LEMMA OneMover ==
    ASSUME TypeOK, [Next]_vars, NEW h \in Handlers, ~ HandlerAction(h)
    PROVE  Stays(h)
PROOF
<1> USE DEF TypeOK, Stays, db, local, network
<1>1. ASSUME NEW g \in Handlers, g # h, NEW r \in Requests, Receive(g, r)
      PROVE  Stays(h)
  BY <1>1 DEF Receive, Goto, Err
<1>2. CASE UNCHANGED vars
  BY <1>2 DEF vars
<1> QED
  BY <1>1, <1>2, OneServed DEF HandlerAction, Next, Served

(* A step writes at most one row, and does so in Claim or in Mark. *)
LEMMA RowsStep ==
    ASSUME TypeOK, Serving, [Next]_vars
    PROVE  \/ UNCHANGED rows
           \/ \E h \in Handlers :
                /\ Claim(h)
                /\ ~Exists(rows, req[h].key)
                /\ rows' = [rows EXCEPT ![req[h].key] = Pending(walletId[h], req[h].intent)]
           \/ \E h \in Handlers :
                /\ Mark(h)
                /\ Exists(rows, req[h].key)
                /\ ~SignatureTaken(rows, req[h].key, req[h].tx)
                /\ rows' = [rows EXCEPT ![req[h].key] =
                                        [@ EXCEPT !.signature = req[h].tx, !.status = "submitted"]]
PROOF
<1> USE DEF db, local, network
<1>1. ASSUME NEW h \in Handlers, Claim(h)
      PROVE  \/ UNCHANGED rows
             \/ /\ ~Exists(rows, req[h].key)
                /\ rows' = [rows EXCEPT ![req[h].key] = Pending(walletId[h], req[h].intent)]
  BY <1>1 DEF Claim, InsertPending
<1>2. ASSUME NEW h \in Handlers, Mark(h)
      PROVE  \/ UNCHANGED rows
             \/ /\ Exists(rows, req[h].key)
                /\ ~SignatureTaken(rows, req[h].key, req[h].tx)
                /\ rows' = [rows EXCEPT ![req[h].key] =
                                        [@ EXCEPT !.signature = req[h].tx, !.status = "submitted"]]
  BY <1>2 DEF Mark, MarkSubmitted
<1>3. ASSUME NEW h \in Handlers,
             \/ Find(h) \/ FindWallet(h) \/ Relay(h) \/ ReadReply(h)
             \/ NodeAccepts(h) \/ NodeRefuses(h) \/ DbFails(h) \/ RpcFails(h)
             \/ Drop(h) \/ Close(h)
      PROVE  UNCHANGED rows
  BY <1>3 DEF Find, FindWallet, Relay, ReadReply, NodeAccepts, NodeRefuses,
         DbFails, RpcFails, Drop, Close
<1>4. ASSUME NEW t \in Txs, OrphanArrives(t) \/ Execute(t) \/ Expire(t)
      PROVE  UNCHANGED rows
  BY <1>4 DEF OrphanArrives, Execute, Expire
<1>5. ASSUME NEW p \in Wallets, Register(p)
      PROVE  UNCHANGED rows
  BY <1>5 DEF Register
<1>6. ASSUME NEW h \in Handlers, NEW r \in Requests, Receive(h, r)
      PROVE  UNCHANGED rows
  BY <1>6 DEF Receive
<1>7. CASE UNCHANGED vars
  BY <1>7 DEF vars
<1> QED
  BY <1>1, <1>2, <1>3, <1>4, <1>5, <1>6, <1>7, NextCases

(* A claimed key stays claimed with its metadata, a recorded key stays     *)
(* recorded, and only a row that is claimed carries a signature.           *)
LEMMA RowsGrow ==
    ASSUME TypeOK, Serving, [Next]_vars, NEW k \in Keys
    PROVE  /\ Exists(rows, k) => /\ Exists(rows', k)
                                 /\ rows'[k].wallet = rows[k].wallet
                                 /\ rows'[k].intent = rows[k].intent
           /\ Exists(rows, k) /\ Recorded(rows, k) => Recorded(rows', k)
PROOF
<1> USE DEF TypeOK, Exists, Recorded, Pending, Row
<1>1. CASE UNCHANGED rows
  BY <1>1
<1>2. ASSUME NEW h \in Handlers, ~Exists(rows, req[h].key),
             rows' = [rows EXCEPT ![req[h].key] = Pending(walletId[h], req[h].intent)]
      PROVE  Exists(rows, k) => rows'[k] = rows[k]
  BY <1>2
<1>3. ASSUME NEW h \in Handlers, Mark(h),
             rows' = [rows EXCEPT ![req[h].key] =
                                  [@ EXCEPT !.signature = req[h].tx, !.status = "submitted"]]
      PROVE  /\ rows'[k].wallet = rows[k].wallet
             /\ rows'[k].intent = rows[k].intent
             /\ Exists(rows, k) => Exists(rows', k)
             /\ Recorded(rows, k) => Recorded(rows', k)
  <2>1. req[h].tx \in Txs
    BY <1>3, RequestFields DEF Serving, Mark
  <2> QED
    BY <1>3, <2>1, NoneAssumption
<1> QED
  BY <1>1, <1>2, <1>3, RowsStep

(* The network learns of a transaction from a handler that has posted it   *)
(* or from a request such a handler left on the wire, and never forgets it.*)
LEMMA NetworkGrows ==
    ASSUME TypeOK, Serving, [Next]_vars, NEW t \in Txs
    PROVE  /\ Seen(t) => Seen(t)'
           /\ Seen(t)' \/ t \in orphans' =>
                \/ Seen(t) \/ t \in orphans
                \/ \E h \in Handlers : /\ NodeAccepts(h) \/ RpcFails(h) \/ Drop(h)
                                       /\ pc[h] = "sent" /\ req[h].tx = t
PROOF
<1> USE DEF TypeOK, Seen, db, local, network
<1>1. ASSUME NEW h \in Handlers, NodeAccepts(h)
      PROVE  /\ Seen(t) => Seen(t)'
             /\ Seen(t)' => Seen(t) \/ (pc[h] = "sent" /\ req[h].tx = t)
             /\ UNCHANGED orphans
  BY <1>1 DEF NodeAccepts, Admit
<1>2. ASSUME NEW h \in Handlers, RpcFails(h) \/ Drop(h)
      PROVE  /\ UNCHANGED chain
             /\ t \in orphans' => t \in orphans \/ (pc[h] = "sent" /\ req[h].tx = t)
  BY <1>2 DEF RpcFails, Drop, LeftOnWire
<1>3. ASSUME NEW h \in Handlers,
             \/ Find(h) \/ FindWallet(h) \/ Claim(h) \/ Relay(h) \/ ReadReply(h)
             \/ Mark(h) \/ NodeRefuses(h) \/ DbFails(h) \/ Close(h)
      PROVE  UNCHANGED <<chain, orphans>>
  BY <1>3 DEF Find, FindWallet, Claim, Relay, ReadReply, Mark, NodeRefuses, DbFails, Close
<1>4. ASSUME NEW u \in Txs, OrphanArrives(u)
      PROVE  /\ Seen(t) => Seen(t)'
             /\ Seen(t)' => Seen(t) \/ t \in orphans
             /\ t \in orphans' => t \in orphans
  BY <1>4 DEF OrphanArrives, Admit
<1>5. ASSUME NEW u \in Txs, Execute(u) \/ Expire(u)
      PROVE  (Seen(t)' <=> Seen(t)) /\ UNCHANGED orphans
  BY <1>5 DEF Execute, Expire
<1>6. ASSUME \/ \E p \in Wallets : Register(p)
             \/ \E h \in Handlers, r \in Requests : Receive(h, r)
             \/ UNCHANGED vars
      PROVE  UNCHANGED <<chain, orphans>>
  BY <1>6 DEF Register, Receive, vars
<1> QED
  BY <1>1, <1>2, <1>3, <1>4, <1>5, <1>6, NextCases

-------------------------------------------------------------------------------
(* What the handlers know at each await.  None of RecordedWasRelayed,      *)
(* ClaimPrecedesBroadcast, OnlyVerifiedRelayed and AttributionSound is     *)
(* inductive: each rests on what a suspended handler has already           *)
(* established about the request it serves.                                *)

Progress(h) ==
    /\ pc[h] \in Working => req[h].tx \notin Garbled
    /\ pc[h] \in {"relay", "sent", "replied", "mark"} => Exists(rows, req[h].key)
    /\ pc[h] \in {"sent", "replied", "mark"} => req[h].tx \notin Forged
    /\ (pc[h] = "replied" /\ reply[h] = "ok") \/ pc[h] = "mark" => Seen(req[h].tx)
    /\ pc[h] = "claim" /\ walletId[h] # None =>
         walletId[h] \in registered /\ walletId[h] = req[h].pubkey

HandlerInv == \A h \in Handlers : Progress(h)

RowInv ==
    /\ \A k \in Keys : ~Exists(rows, k) => rows[k] = NoRow
    /\ RecordedWasRelayed
    /\ AttributionSound

NetworkInv == ClaimPrecedesBroadcast /\ OnlyVerifiedRelayed

IInv == TypeOK /\ Serving /\ HandlerInv /\ RowInv /\ NetworkInv

(* Initially nothing is claimed and nothing has been relayed.              *)
LEMMA InitIInv == Init => IInv
PROOF
<1> SUFFICES ASSUME Init PROVE IInv
  OBVIOUS
<1>1. TypeOK /\ Serving
  BY InitTypeOK
<1>2. HandlerInv
  BY DEF Init, HandlerInv, Progress, Working, AwaitingDb
<1>3. RowInv
  BY DEF Init, RowInv, RecordedWasRelayed, AttributionSound, EmptyTable, NoRow, Exists, Recorded
<1>4. NetworkInv
  BY DEF Init, NetworkInv, ClaimPrecedesBroadcast, OnlyVerifiedRelayed, Seen
<1> QED
  BY <1>1, <1>2, <1>3, <1>4 DEF IInv

(* No step removes a wallet from the wallets table.                        *)
LEMMA RegisteredGrows ==
    ASSUME [Next]_vars
    PROVE  registered \subseteq registered'
PROOF BY NextCases DEF Register, Receive, Find, FindWallet, Claim, Relay, ReadReply, Mark,
         NodeAccepts, NodeRefuses, DbFails, RpcFails, Drop, Close, OrphanArrives, Execute,
         Expire, vars, db

(* The insert leaves a row behind, its own or the one it found. *)
LEMMA ClaimExists ==
    ASSUME TypeOK, Serving, NEW h \in Handlers, Claim(h)
    PROVE  Exists(rows', req[h].key)
PROOF
<1>1. req[h].key \in Keys
  BY RequestFields DEF Serving, Claim
<1> QED
  BY <1>1 DEF Claim, InsertPending, Exists, Pending, TypeOK

(* What a handler knows at an await - its key is claimed, its payload      *)
(* verified, its transaction seen by a node that accepted it - stays true  *)
(* while others run.                                                       *)
LEMMA HandlerInvStep ==
    ASSUME TypeOK, Serving, HandlerInv, RowInv, [Next]_vars
    PROVE  HandlerInv'
PROOF
<1> SUFFICES ASSUME NEW h \in Handlers PROVE Progress(h)'
  BY DEF HandlerInv
<1> USE DEF db, local, network
<1>0. /\ Progress(h)
      /\ pc[h] # "idle" => /\ req[h] \in Requests
                           /\ req[h].key \in Keys /\ req[h].tx \in Txs
      /\ pc \in [Handlers -> Locations] /\ req \in [Handlers -> Requests \cup {NoRequest}]
      /\ walletId \in [Handlers -> Wallets \cup {None}]
      /\ reply \in [Handlers -> {"none", "ok"} \cup Refusals]
  BY RequestFields DEF HandlerInv, Serving, TypeOK
<1>1. CASE Stays(h)
  <2>1. pc[h] # "idle" /\ Exists(rows, req[h].key) => Exists(rows', req[h].key)
    BY <1>0, RowsGrow
  <2>2. pc[h] # "idle" /\ chain[req[h].tx] # "unseen" => chain'[req[h].tx] # "unseen"
    BY <1>0, NetworkGrows DEF Seen
  <2> QED
    BY <1>0, <1>1, <2>1, <2>2, RegisteredGrows
       DEF Progress, Stays, Working, AwaitingDb, Seen
<1>2. ASSUME NEW r \in Requests, Receive(h, r)
      PROVE  Progress(h)'
  BY <1>0, <1>2 DEF Progress, Receive, Goto, Err, Working, AwaitingDb
<1>3. CASE Find(h)
  BY <1>0, <1>3 DEF Progress, Find, Goto, Ok, Working, AwaitingDb
<1>4. CASE FindWallet(h)
  BY <1>0, <1>4 DEF Progress, FindWallet, Goto, Working, AwaitingDb
<1>5. CASE Claim(h)
  BY <1>0, <1>5, ClaimExists DEF Progress, Claim, Goto, Err, Working, AwaitingDb
<1>6. CASE Relay(h)
  BY <1>0, <1>6 DEF Progress, Relay, Goto, Err, Working, AwaitingDb
<1>7. CASE ReadReply(h)
  BY <1>0, <1>7 DEF Progress, ReadReply, Goto, Err, Working, AwaitingDb, Seen
<1>8. CASE Mark(h) \/ DbFails(h) \/ RpcFails(h)
  BY <1>0, <1>8 DEF Progress, Mark, DbFails, RpcFails, Goto, Ok, Err, Working, AwaitingDb
<1>9. CASE NodeAccepts(h)
  <2>1. chain'[req[h].tx] # "unseen"
    BY <1>0, <1>9 DEF NodeAccepts, Admit, Seen, TypeOK
  <2> QED
    BY <1>0, <1>9, <2>1 DEF Progress, NodeAccepts, Goto, Working, AwaitingDb, Seen
<1>10. CASE NodeRefuses(h)
  BY <1>0, <1>10 DEF Progress, NodeRefuses, Goto, Working, AwaitingDb, Refusals
<1>11. CASE Drop(h) \/ Close(h)
  BY <1>0, <1>11 DEF Progress, Drop, Close, Forget, Working, AwaitingDb
<1> QED
  BY <1>1, <1>2, <1>3, <1>4, <1>5, <1>6, <1>7, <1>8, <1>9, <1>10, <1>11, OneMover
     DEF HandlerAction, ServedAction

(* Whatever is on the network or on its way there was verified and its key *)
(* claimed before: no step of a handler posts anything else.               *)
LEMMA NetworkInvStep ==
    ASSUME TypeOK, Serving, HandlerInv, NetworkInv, [Next]_vars
    PROVE  NetworkInv'
PROOF
<1> SUFFICES ASSUME NEW t \in Txs, Seen(t)' \/ t \in orphans'
             PROVE  /\ \E r \in Requests : r.tx = t /\ Exists(rows', r.key)
                    /\ t \notin Garbled \cup Forged
  BY DEF NetworkInv, ClaimPrecedesBroadcast, OnlyVerifiedRelayed
<1>1. \/ Seen(t) \/ t \in orphans
      \/ \E h \in Handlers : pc[h] = "sent" /\ req[h].tx = t
  BY NetworkGrows
<1>2. /\ \E r \in Requests : r.tx = t /\ Exists(rows, r.key)
      /\ t \notin Garbled \cup Forged
  <2>1. CASE Seen(t) \/ t \in orphans
    BY <2>1 DEF NetworkInv, ClaimPrecedesBroadcast, OnlyVerifiedRelayed
  <2>2. ASSUME NEW h \in Handlers, pc[h] = "sent", req[h].tx = t
        PROVE  /\ \E r \in Requests : r.tx = t /\ Exists(rows, r.key)
               /\ t \notin Garbled \cup Forged
    BY <2>2 DEF HandlerInv, Progress, Serving, Working
  <2> QED
    BY <1>1, <2>1, <2>2
<1> QED
  BY <1>2, RowsGrow, RequestFields

(* mark_submitted records only what a node has taken, and insert_pending   *)
(* attributes a row only to a registered wallet.                           *)
LEMMA RowInvStep ==
    ASSUME TypeOK, Serving, HandlerInv, RowInv, [Next]_vars
    PROVE  RowInv'
PROOF
<1>1. ASSUME NEW k \in Keys, NEW t \in Txs, Seen(t)
      PROVE  Seen(t)'
  BY <1>1, NetworkGrows
<1>2. \A k \in Keys : Recorded(rows, k) => rows[k].signature \in Txs
  BY DEF TypeOK, Row, Recorded
<1>3. CASE UNCHANGED rows
  BY <1>1, <1>2, <1>3, RegisteredGrows
     DEF RowInv, RecordedWasRelayed, AttributionSound, Exists, Recorded
<1>4. ASSUME NEW h \in Handlers, Claim(h), ~Exists(rows, req[h].key),
             rows' = [rows EXCEPT ![req[h].key] = Pending(walletId[h], req[h].intent)]
      PROVE  RowInv'
  <2>1. /\ req[h] \in Requests /\ req[h].key \in Keys
        /\ walletId[h] # None => walletId[h] \in registered /\ walletId[h] = req[h].pubkey
    BY <1>4, RequestFields DEF Claim, Serving, HandlerInv, Progress
  <2>2. /\ \A k \in Keys \ {req[h].key} : rows'[k] = rows[k]
        /\ rows'[req[h].key] = Pending(walletId[h], req[h].intent)
    BY <1>4, <2>1 DEF TypeOK
  <2>3. (\A k \in Keys : ~Exists(rows, k) => rows[k] = NoRow)'
    BY <2>1, <2>2 DEF RowInv, Exists, Pending
  <2>4. RecordedWasRelayed'
    BY <1>1, <1>2, <2>1, <2>2 DEF RowInv, RecordedWasRelayed, Recorded, Pending
  <2>5. AttributionSound'
    BY <2>1, <2>2, RegisteredGrows DEF RowInv, AttributionSound, Pending
  <2> QED
    BY <2>3, <2>4, <2>5 DEF RowInv
<1>5. ASSUME NEW h \in Handlers, Mark(h), Exists(rows, req[h].key),
             rows' = [rows EXCEPT ![req[h].key] =
                                  [@ EXCEPT !.signature = req[h].tx, !.status = "submitted"]]
      PROVE  RowInv'
  <2>1. /\ req[h].key \in Keys /\ req[h].tx \in Txs
        /\ Seen(req[h].tx)
    BY <1>5, RequestFields DEF Mark, Serving, HandlerInv, Progress
  <2>2. /\ \A k \in Keys \ {req[h].key} : rows'[k] = rows[k]
        /\ rows'[req[h].key].signature = req[h].tx
        /\ rows'[req[h].key].status = "submitted"
        /\ rows'[req[h].key].wallet = rows[req[h].key].wallet
    BY <1>5, <2>1 DEF TypeOK, Row
  <2>3. (\A k \in Keys : ~Exists(rows, k) => rows[k] = NoRow)'
    BY <2>1, <2>2 DEF RowInv, Exists
  <2>4. RecordedWasRelayed'
    BY <1>1, <1>2, <2>1, <2>2 DEF RowInv, RecordedWasRelayed, Recorded
  <2>5. AttributionSound'
    BY <2>1, <2>2, RegisteredGrows DEF RowInv, AttributionSound
  <2> QED
    BY <2>3, <2>4, <2>5 DEF RowInv
<1> QED
  BY <1>3, <1>4, <1>5, RowsStep

(* The inductive invariant: at each await of submit() the ledger and the   *)
(* network already bear out what the handler relies on after it.           *)
THEOREM Inductive == Spec => []IInv
PROOF
<1>1. IInv /\ [Next]_vars => IInv'
  BY TypeStep, HandlerInvStep, NetworkInvStep, RowInvStep DEF IInv
<1> QED
  BY <1>1, InitIInv, PTL DEF Spec

(* Whatever is recorded was taken by a node: mark_submitted never writes   *)
(* the signature of a transaction that was not broadcast.                  *)
THEOREM RecordedIsRelayed == Spec => []RecordedWasRelayed
PROOF BY Inductive, PTL DEF IInv, RowInv

(* The key is claimed before a byte of its transaction leaves the server.  *)
THEOREM ClaimedFirst == Spec => []ClaimPrecedesBroadcast
PROOF BY Inductive, PTL DEF IInv, NetworkInv

(* Only what validate_signed accepted ever reaches the network.            *)
THEOREM VerifiedOnly == Spec => []OnlyVerifiedRelayed
PROOF BY Inductive, PTL DEF IInv, NetworkInv

(* A row is attributed to a registered wallet its own request named.       *)
THEOREM AttributionIsSound == Spec => []AttributionSound
PROOF BY Inductive, PTL DEF IInv, RowInv

-------------------------------------------------------------------------------
(* A request whose key is recorded when it begins. *)

LateInv ==
    \A h \in late :
      \/ pc[h] = "done"
      \/ pc[h] = "find" /\ Exists(rows, req[h].key) /\ Recorded(rows, req[h].key)

(* A handler whose key was recorded when it began is either at the lookup, *)
(* which will find the record, or done.                                    *)
LEMMA LateInvStep ==
    ASSUME IInv, LateInv, [Next]_vars
    PROVE  LateInv'
PROOF
<1> SUFFICES ASSUME NEW h \in Handlers, h \in late'
             PROVE  \/ pc'[h] = "done"
                    \/ pc'[h] = "find" /\ Exists(rows', req'[h].key)
                                       /\ Recorded(rows', req'[h].key)
  BY TypeStep DEF LateInv, IInv, TypeOK
<1> USE DEF db, local, network
<1>0. /\ TypeOK /\ Serving
      /\ pc[h] # "idle" => req[h].key \in Keys
      /\ h \in late => pc[h] \in {"find", "done"}
  BY RequestFields DEF IInv, Serving, LateInv
<1>1. CASE Stays(h)
  BY <1>0, <1>1, RowsGrow DEF Stays, LateInv
<1>2. ASSUME NEW r \in Requests, Receive(h, r)
      PROVE  \/ pc'[h] = "done"
             \/ pc'[h] = "find" /\ Exists(rows', req'[h].key) /\ Recorded(rows', req'[h].key)
  <2>1. h \notin late /\ r.key \in Keys
    BY <1>0, <1>2, RequestFields DEF Receive
  <2>2. Recorded(rows, r.key) /\ UNCHANGED rows /\ req'[h] = r
    BY <1>0, <1>2, <2>1 DEF Receive, TypeOK
  <2>3. Exists(rows, r.key)
    BY <2>1, <2>2 DEF IInv, RowInv, Recorded, NoRow
  <2>4. pc'[h] \in {"find", "done"}
    BY <1>0, <1>2 DEF Receive, Goto, Err, TypeOK
  <2> QED
    BY <2>2, <2>3, <2>4
<1>3. CASE Find(h)
  BY <1>0, <1>3 DEF Find, Ok, LateInv, TypeOK
<1>4. CASE DbFails(h)
  BY <1>0, <1>4 DEF DbFails, Err, TypeOK
<1>5. CASE \/ FindWallet(h) \/ Claim(h) \/ Relay(h) \/ ReadReply(h) \/ Mark(h)
           \/ NodeAccepts(h) \/ NodeRefuses(h) \/ RpcFails(h)
  BY <1>0, <1>5 DEF FindWallet, Claim, Relay, ReadReply, Mark, NodeAccepts, NodeRefuses,
         RpcFails
<1>6. CASE Drop(h) \/ Close(h)
  BY <1>6 DEF Drop, Close, Forget
<1> QED
  BY <1>0, <1>1, <1>2, <1>3, <1>4, <1>5, <1>6, OneMover DEF HandlerAction, ServedAction

(* A request that begins after its key was recorded never reaches the      *)
(* network, whatever else is in flight.                                    *)
THEOREM LateRetryIsIdle == Spec => []LateRetryNeverBroadcasts
PROOF
<1>1. Init => LateInv
  BY DEF Init, LateInv
<1>2. LateInv => LateRetryNeverBroadcasts
  BY DEF LateInv, LateRetryNeverBroadcasts
<1> QED
  BY <1>1, <1>2, LateInvStep, Inductive, PTL DEF Spec

-------------------------------------------------------------------------------
(* Blind retries: the promise of the endpoint holds as long as a key comes *)
(* with one body only.                                                     *)

RowMatches(k) ==
    Exists(rows, k) =>
      /\ \E r \in Requests :
           /\ r.key = k
           /\ rows[k].intent = r.intent
           /\ rows[k].signature \in {None, r.tx}
           /\ rows[k].wallet \in {None, r.pubkey}
      /\ Recorded(rows, k) => rows[k].status = "submitted"

AnswerMatches(h) ==
    resp[h].kind = "ok" =>
      /\ pc[h] = "done"
      /\ resp[h].signature # None
      /\ rows[req[h].key].signature = resp[h].signature

BlindInv ==
    /\ \A k \in Keys : RowMatches(k)
    /\ \A h \in Handlers : AnswerMatches(h)

(* Initially no row and no answer is there to disagree with a request.     *)
LEMMA InitBlindInv == Init => BlindInv
PROOF BY DEF Init, BlindInv, RowMatches, AnswerMatches, EmptyTable, NoRow, Exists, NoResponse

(* A handler that is about to mark a recorded key writes what is there.    *)
LEMMA MarkRepeats ==
    ASSUME BlindRetry, IInv, BlindInv, NEW h \in Handlers, pc[h] = "mark",
           Recorded(rows, req[h].key)
    PROVE  rows[req[h].key].signature = req[h].tx
PROOF
<1>1. req[h] \in Requests /\ req[h].key \in Keys /\ Exists(rows, req[h].key)
  BY RequestFields DEF IInv, Serving, HandlerInv, Progress
<1>2. PICK r \in Requests : r.key = req[h].key /\ rows[req[h].key].signature \in {None, r.tx}
  BY <1>1 DEF BlindInv, RowMatches
<1> QED
  BY <1>1, <1>2 DEF BlindRetry, Recorded

(* Under blind retries the unguarded update of mark_submitted rewrites a   *)
(* recorded row with what it holds.                                        *)
LEMMA RecordedRowsStay ==
    ASSUME BlindRetry, IInv, BlindInv, [Next]_vars, NEW k \in Keys, Recorded(rows, k)
    PROVE  rows'[k] = rows[k]
PROOF
<1>0. TypeOK /\ Serving /\ Exists(rows, k)
  BY DEF IInv, RowInv, Recorded, NoRow
<1>1. ASSUME NEW h \in Handlers, Claim(h), ~Exists(rows, req[h].key),
             rows' = [rows EXCEPT ![req[h].key] = Pending(walletId[h], req[h].intent)]
      PROVE  rows'[k] = rows[k]
  BY <1>0, <1>1 DEF TypeOK
<1>2. ASSUME NEW h \in Handlers, Mark(h),
             rows' = [rows EXCEPT ![req[h].key] =
                                  [@ EXCEPT !.signature = req[h].tx, !.status = "submitted"]]
      PROVE  rows'[k] = rows[k]
  <2>1. CASE req[h].key # k
    BY <1>0, <1>2, <2>1 DEF TypeOK
  <2>2. CASE req[h].key = k
    <3>1. rows[k].signature = req[h].tx /\ rows[k].status = "submitted"
      BY <1>0, <1>2, <2>2, MarkRepeats DEF Mark, BlindInv, RowMatches
    <3>2. rows[k] \in Row
      BY <1>0 DEF TypeOK
    <3> QED
      BY <1>0, <1>2, <2>2, <3>1, <3>2 DEF TypeOK, Row
  <2> QED
    BY <2>1, <2>2
<1> QED
  BY <1>0, <1>1, <1>2, RowsStep

(* Under blind retries every row and every answer stays about the one      *)
(* transaction of its key.                                                 *)
LEMMA BlindInvStep ==
    ASSUME BlindRetry, IInv, BlindInv, [Next]_vars
    PROVE  BlindInv'
PROOF
<1>0. TypeOK /\ Serving
  BY DEF IInv
<1>1. ASSUME NEW k \in Keys
      PROVE  RowMatches(k)'
  <2>1. CASE rows'[k] = rows[k]
    BY <2>1 DEF BlindInv, RowMatches, Exists, Recorded
  <2>2. ASSUME NEW h \in Handlers, Claim(h), req[h].key = k,
               rows' = [rows EXCEPT ![req[h].key] = Pending(walletId[h], req[h].intent)]
        PROVE  RowMatches(k)'
    <3>1. req[h] \in Requests /\ walletId[h] \in {None, req[h].pubkey}
      BY <2>2 DEF Claim, IInv, Serving, HandlerInv, Progress
    <3>2. rows'[k] = Pending(walletId[h], req[h].intent)
      BY <1>0, <2>2 DEF TypeOK
    <3> QED
      BY <2>2, <3>1, <3>2 DEF RowMatches, Pending, Recorded
  <2>3. ASSUME NEW h \in Handlers, Mark(h), req[h].key = k, Exists(rows, k),
               rows' = [rows EXCEPT ![req[h].key] =
                                    [@ EXCEPT !.signature = req[h].tx, !.status = "submitted"]]
        PROVE  RowMatches(k)'
    <3>1. req[h] \in Requests
      BY <2>3 DEF Mark, IInv, Serving
    <3>2. PICK r \in Requests : /\ r.key = k /\ rows[k].intent = r.intent
                                /\ rows[k].wallet \in {None, r.pubkey}
      BY <2>3 DEF BlindInv, RowMatches
    <3>3. req[h].tx = r.tx
      BY <2>3, <3>1, <3>2 DEF BlindRetry
    <3>4. /\ rows'[k].intent = rows[k].intent /\ rows'[k].wallet = rows[k].wallet
          /\ rows'[k].signature = req[h].tx /\ rows'[k].status = "submitted"
      BY <1>0, <2>3 DEF TypeOK, Row
    <3> QED
      BY <3>2, <3>3, <3>4 DEF RowMatches
  <2>4. (\E h \in Handlers : req[h].key = k /\ (Claim(h) \/ Mark(h))) \/ rows'[k] = rows[k]
    BY <1>0, RowsStep DEF TypeOK
  <2> QED
    BY <1>0, <2>1, <2>2, <2>3, <2>4, RowsStep DEF TypeOK
<1>2. ASSUME NEW h \in Handlers
      PROVE  AnswerMatches(h)'
  <2> USE DEF db, local, network
  <2>0. /\ AnswerMatches(h)
        /\ pc[h] # "idle" => /\ req[h].key \in Keys /\ req[h].tx \in Txs
                             /\ Recorded(rows, req[h].key) =>
                                  rows'[req[h].key] = rows[req[h].key]
        /\ pc \in [Handlers -> Locations] /\ resp \in [Handlers -> Responses]
    BY <1>0, RequestFields, RecordedRowsStay DEF BlindInv, Serving, TypeOK
  <2>1. CASE Stays(h)
    BY <2>0, <2>1 DEF Stays, AnswerMatches, Recorded
  <2>2. ASSUME NEW r \in Requests, Receive(h, r)
        PROVE  AnswerMatches(h)'
    BY <2>0, <2>2 DEF AnswerMatches, Receive, Goto, Err, Errors, Refusals
  <2>3. CASE Find(h)
    BY <2>0, <2>3 DEF AnswerMatches, Find, Goto, Ok, Recorded
  <2>4. CASE FindWallet(h) \/ Claim(h) \/ Relay(h) \/ NodeAccepts(h) \/ NodeRefuses(h)
    BY <2>0, <2>4 DEF AnswerMatches, FindWallet, Claim, Relay, NodeAccepts, NodeRefuses,
           Goto, Err
  <2>5. CASE ReadReply(h)
    BY <2>0, <2>5 DEF AnswerMatches, ReadReply, Goto, Err
  <2>6. CASE DbFails(h) \/ RpcFails(h)
    BY <2>0, <2>6 DEF AnswerMatches, DbFails, RpcFails, Err
  <2>7. CASE Mark(h)
    <3>1. pc[h] = "mark" /\ UNCHANGED req /\ Exists(rows, req[h].key)
      BY <2>7 DEF Mark, IInv, HandlerInv, Progress
    <3>2. CASE Err(h, "internal")
      BY <2>0, <3>1, <3>2 DEF AnswerMatches, Err
    <3>3. CASE /\ Ok(h, req[h].tx)
               /\ rows' = MarkSubmitted(rows, req[h].key, req[h].tx)
      <4>1. rows'[req[h].key].signature = req[h].tx
        BY <1>0, <2>0, <3>1, <3>3 DEF MarkSubmitted, TypeOK, Row
      <4>2. req[h].tx # None
        BY <2>0, <3>1, NoneAssumption
      <4> QED
        BY <2>0, <3>1, <3>3, <4>1, <4>2 DEF AnswerMatches, Ok
    <3> QED
      BY <2>7, <3>2, <3>3 DEF Mark
  <2>8. CASE Drop(h) \/ Close(h)
    BY <2>0, <2>8 DEF AnswerMatches, Drop, Close, Forget, NoResponse
  <2> QED
    BY <1>0, <2>1, <2>2, <2>3, <2>4, <2>5, <2>6, <2>7, <2>8, OneMover DEF HandlerAction, ServedAction
<1> QED
  BY <1>1, <1>2 DEF BlindInv

(* If a client retries a key only with the bytes it sent first, each row   *)
(* matches the requests of its key and each answer matches the row.        *)
THEOREM BlindInductive ==
    ASSUME BlindRetry
    PROVE  Spec => [](IInv /\ BlindInv)
PROOF
<1>1. BlindInv /\ IInv /\ [Next]_vars => BlindInv'
  BY BlindInvStep
<1> QED
  BY <1>1, InitBlindInv, Inductive, PTL DEF Spec

(* A client that is told a signature finds that signature recorded.        *)
THEOREM AnswersAreRecorded ==
    ASSUME BlindRetry
    PROVE  Spec => []OkMeansRecorded
PROOF
<1>1. BlindInv => OkMeansRecorded
  BY DEF BlindInv, AnswerMatches, OkMeansRecorded
<1> QED
  BY <1>1, BlindInductive, PTL

(* Metadata and signature of a row describe one transfer.                  *)
THEOREM RowsDescribeTransfers ==
    ASSUME BlindRetry
    PROVE  Spec => []RowDescribesItsTransaction
PROOF
<1>1. BlindInv => RowDescribesItsTransaction
  BY DEF BlindInv, RowMatches, RowDescribesItsTransaction
<1> QED
  BY <1>1, BlindInductive, PTL

(* A recorded row is final, although the update is unconditional.          *)
THEOREM SignaturesAreStable ==
    ASSUME BlindRetry
    PROVE  Spec => SignatureStable
PROOF
<1>1. IInv /\ BlindInv /\ [Next]_vars
        => [\A k \in Keys : Recorded(rows, k) => rows'[k] = rows[k]]_vars
  BY RecordedRowsStay
<1> QED
  BY <1>1, BlindInductive, PTL DEF Spec, SignatureStable

-------------------------------------------------------------------------------
(* The endpoint implements IdempotentSubmit. *)

(* The empty ledger is the initial state of the abstract promise.          *)
LEMMA PromiseInit == Init => Promise!Init
PROOF
<1> SUFFICES ASSUME Init PROVE Promise!Init
  OBVIOUS
<1>1. {k \in Keys : Exists(rows, k)} = {}
  BY DEF Init, EmptyTable, NoRow, Exists
<1>2. [k \in Keys |-> rows[k].signature] = [k \in Keys |-> None]
  BY DEF Init, EmptyTable, NoRow
<1>3. {t \in Txs : Seen(t)} = {}
  BY DEF Init, Seen
<1>4. [h \in Handlers |-> resp[h].signature] = [h \in Handlers |-> None]
  BY DEF Init, NoResponse
<1> QED
  BY <1>1, <1>2, <1>3, <1>4 DEF Promise!Init

(* The abstract state a concrete one stands for. *)
ClaimedKeys == {k \in Keys : Exists(rows, k)}
RecordedSigs == [k \in Keys |-> rows[k].signature]
RelayedTxs == {t \in Txs : Seen(t)}
Answers == [h \in Handlers |-> resp[h].signature]

(* A step that leaves the ledger, the network and the answers alone is a   *)
(* stutter of the promise.                                                 *)
LEMMA PromiseVars ==
    ASSUME UNCHANGED <<ClaimedKeys, RecordedSigs, RelayedTxs, Answers>>
    PROVE  UNCHANGED Promise!vars
PROOF BY DEF ClaimedKeys, RecordedSigs, RelayedTxs, Answers, Promise!vars

(* An answer without a signature is no answer to the abstract caller.      *)
LEMMA SilentAnswer ==
    ASSUME BlindInv, resp \in [Handlers -> Responses], NEW h \in Handlers,
           pc[h] # "done",
           (\E l \in Locations : Goto(h, l)) \/ (\E e \in Errors : Err(h, e))
    PROVE  UNCHANGED Answers
PROOF
<1>1. resp[h].signature = None
  BY DEF BlindInv, AnswerMatches, Responses, NoResponse
<1> QED
  BY <1>1 DEF Goto, Err, Answers

(* Each action of a handler and of the network is a Claim, Relay, Record,  *)
(* Answer or Release of the promise, or a stutter.                         *)
LEMMA PromiseStep ==
    ASSUME BlindRetry, IInv, BlindInv, [Next]_vars
    PROVE  [Promise!Next]_(Promise!vars)
PROOF
<1> USE DEF db, local, network
<1>0. /\ TypeOK /\ Serving
      /\ rows \in [Keys -> Row] /\ resp \in [Handlers -> Responses]
      /\ chain \in [Txs -> {"unseen", "relayed", "landed", "failed"}]
      /\ reply \in [Handlers -> {"none", "ok"} \cup Refusals]
  BY DEF IInv, TypeOK
<1>1. ASSUME NEW p \in Wallets, Register(p)
      PROVE  UNCHANGED Promise!vars
  BY <1>1, PromiseVars DEF Register, ClaimedKeys, RecordedSigs, RelayedTxs, Answers, Seen
<1>2. ASSUME NEW h \in Handlers, NEW r \in Requests, Receive(h, r)
      PROVE  UNCHANGED Promise!vars
  <2>1. UNCHANGED Answers
    BY <1>0, <1>2, SilentAnswer DEF Receive, Errors, Locations, Working, AwaitingDb
  <2> QED
    BY <1>2, <2>1, PromiseVars DEF Receive, ClaimedKeys, RecordedSigs, RelayedTxs, Seen
<1>3. ASSUME NEW h \in Handlers, Find(h)
      PROVE  [Promise!Next]_(Promise!vars)
  <2>1. req[h].key \in Keys
    BY <1>0, <1>3, RequestFields DEF Find, Serving
  <2>2. UNCHANGED <<ClaimedKeys, RecordedSigs, RelayedTxs>>
    BY <1>3 DEF Find, ClaimedKeys, RecordedSigs, RelayedTxs, Seen
  <2>3. CASE Recorded(rows, req[h].key) /\ Ok(h, rows[req[h].key].signature)
    <3>1. Answers' = [Answers EXCEPT ![h] = RecordedSigs[req[h].key]]
      BY <1>0, <2>1, <2>3 DEF Ok, Answers, RecordedSigs
    <3>2. RecordedSigs[req[h].key] # None
      BY <2>1, <2>3 DEF RecordedSigs, Recorded
    <3>3. PICK j \in Keys : j = req[h].key
      BY <2>1
    <3>4. Promise!Answer(h, j)
      BY <2>2, <3>1, <3>2, <3>3
         DEF Promise!Answer, ClaimedKeys, RecordedSigs, RelayedTxs, Answers
    <3> QED
      BY <3>4 DEF Promise!Next
  <2>4. CASE Goto(h, "relay") \/ Goto(h, "wallet")
    <3>1. UNCHANGED Answers
      BY <1>0, <1>3, <2>4, SilentAnswer DEF Find, Locations, Working, AwaitingDb
    <3> QED
      BY <2>2, <3>1, PromiseVars
  <2> QED
    BY <1>3, <2>3, <2>4 DEF Find
<1>4. ASSUME NEW h \in Handlers, Claim(h)
      PROVE  [Promise!Next]_(Promise!vars)
  <2>1. req[h].key \in Keys
    BY <1>0, <1>4, RequestFields DEF Claim, Serving
  <2>2. UNCHANGED Answers
    BY <1>0, <1>4, SilentAnswer DEF Claim, Locations, Working, AwaitingDb, Errors
  <2>3. UNCHANGED RelayedTxs
    BY <1>4 DEF Claim, RelayedTxs, Seen
  <2>4. CASE Exists(rows, req[h].key)
    <3>1. UNCHANGED <<ClaimedKeys, RecordedSigs>>
      BY <1>4, <2>4 DEF Claim, InsertPending, ClaimedKeys, RecordedSigs
    <3> QED
      BY <2>2, <2>3, <3>1, PromiseVars
  <2>5. CASE ~Exists(rows, req[h].key)
    <3>1. rows' = [rows EXCEPT ![req[h].key] = Pending(walletId[h], req[h].intent)]
      BY <1>4, <2>5 DEF Claim, InsertPending
    <3>2. rows[req[h].key].signature = None
      BY <2>1, <2>5 DEF IInv, RowInv, NoRow
    <3>3. UNCHANGED RecordedSigs
      BY <1>0, <2>1, <3>1, <3>2 DEF RecordedSigs, Pending
    <3>4. ClaimedKeys' = ClaimedKeys \cup {req[h].key}
      BY <1>0, <2>1, <3>1 DEF ClaimedKeys, Exists, Pending
    <3>5. Promise!Claim(req[h].key)
      BY <2>2, <2>3, <3>3, <3>4
         DEF Promise!Claim, ClaimedKeys, RecordedSigs, RelayedTxs, Answers
    <3> QED
      BY <2>1, <3>5 DEF Promise!Next
  <2> QED
    BY <2>4, <2>5
<1>5. ASSUME NEW h \in Handlers,
             FindWallet(h) \/ Relay(h) \/ ReadReply(h) \/ NodeRefuses(h) \/ DbFails(h)
             \/ RpcFails(h)
      PROVE  UNCHANGED Promise!vars
  <2>1. /\ pc[h] # "done"
        /\ (\E l \in Locations : Goto(h, l)) \/ (\E e \in Errors : Err(h, e))
    BY <1>0, <1>5 DEF FindWallet, Relay, ReadReply, NodeRefuses, DbFails, RpcFails, Locations,
           Working, AwaitingDb, Errors, Serving
  <2>2. UNCHANGED <<rows, chain>>
    BY <1>5 DEF FindWallet, Relay, ReadReply, NodeRefuses, DbFails, RpcFails
  <2> QED
    BY <1>0, <2>1, <2>2, SilentAnswer, PromiseVars DEF ClaimedKeys, RecordedSigs, RelayedTxs, Seen
<1>6. ASSUME NEW h \in Handlers, Mark(h)
      PROVE  [Promise!Next]_(Promise!vars)
  <2>0. /\ req[h].key \in Keys /\ req[h].tx \in Txs /\ Exists(rows, req[h].key)
        /\ Seen(req[h].tx) /\ pc[h] = "mark"
    BY <1>6, RequestFields DEF Mark, IInv, Serving, HandlerInv, Progress
  <2>k. PICK k \in Keys : k = req[h].key
    BY <2>0
  <2>t. PICK t \in Txs : t = req[h].tx
    BY <2>0
  <2>1. Exists(rows, k) /\ Seen(t) /\ pc[h] = "mark"
    BY <2>0, <2>k, <2>t
  <2>2. UNCHANGED RelayedTxs
    BY <1>6 DEF Mark, RelayedTxs, Seen
  <2>3. CASE Err(h, "internal") /\ UNCHANGED rows
    <3>1. UNCHANGED Answers
      BY <1>0, <2>1, <2>3, SilentAnswer DEF Errors
    <3> QED
      BY <2>2, <2>3, <3>1, PromiseVars DEF ClaimedKeys, RecordedSigs
  <2>4. CASE /\ ~SignatureTaken(rows, k, t)
             /\ rows' = MarkSubmitted(rows, k, t)
             /\ Ok(h, t) \/ Err(h, "internal")
    <3>1. rows' = [rows EXCEPT ![k] = [@ EXCEPT !.signature = t, !.status = "submitted"]]
      BY <2>1, <2>4 DEF MarkSubmitted
    <3>2. UNCHANGED ClaimedKeys
      BY <1>0, <2>1, <3>1 DEF ClaimedKeys, Exists, Row
    <3>3. RecordedSigs' = [RecordedSigs EXCEPT ![k] = t]
      BY <1>0, <2>1, <3>1 DEF RecordedSigs, Row
    <3>4. RecordedSigs[k] \in {None, t}
      BY <2>1, <2>k, <2>t, MarkRepeats DEF RecordedSigs, Recorded
    <3>5. \A j \in Keys \ {k} : RecordedSigs[j] # t
      BY <2>4 DEF SignatureTaken, RecordedSigs
    <3>6. Answers' \in {Answers, [Answers EXCEPT ![h] = t]}
      <4>1. CASE Ok(h, t)
        BY <1>0, <4>1 DEF Ok, Answers
      <4>2. CASE Err(h, "internal")
        BY <1>0, <2>1, <4>2, SilentAnswer DEF Errors
      <4> QED
        BY <2>4, <4>1, <4>2
    <3>7. k \in ClaimedKeys /\ t \in RelayedTxs
      BY <2>1 DEF ClaimedKeys, RelayedTxs
    <3>8. Promise!Record(h, k, t)
      BY <2>2, <3>2, <3>3, <3>4, <3>5, <3>6, <3>7
         DEF Promise!Record, ClaimedKeys, RecordedSigs, RelayedTxs, Answers
    <3> QED
      BY <3>8 DEF Promise!Next
  <2> QED
    BY <1>6, <2>k, <2>t, <2>3, <2>4 DEF Mark
<1>7. ASSUME NEW t \in Txs, chain' \in {Admit(t), chain}, UNCHANGED <<rows, resp>>
      PROVE  [Promise!Next]_(Promise!vars)
  <2>1. UNCHANGED <<ClaimedKeys, RecordedSigs, Answers>>
    BY <1>7 DEF ClaimedKeys, RecordedSigs, Answers
  <2>2. CASE chain' = chain
    BY <2>1, <2>2, PromiseVars DEF RelayedTxs, Seen
  <2>3. CASE chain' = Admit(t)
    <3>1. RelayedTxs' = RelayedTxs \cup {t}
      BY <1>0, <2>3 DEF RelayedTxs, Admit, Seen
    <3>2. Promise!Relay(t)
      BY <2>1, <3>1 DEF Promise!Relay, ClaimedKeys, RecordedSigs, RelayedTxs, Answers
    <3> QED
      BY <3>2 DEF Promise!Next
  <2> QED
    BY <1>7, <2>2, <2>3
<1>8. ASSUME NEW h \in Handlers, NodeAccepts(h)
      PROVE  [Promise!Next]_(Promise!vars)
  <2>1. req[h].tx \in Txs
    BY <1>0, <1>8, RequestFields DEF NodeAccepts, Serving
  <2> QED
    BY <1>7, <1>8, <2>1 DEF NodeAccepts, Goto
<1>9. ASSUME NEW t \in Txs, OrphanArrives(t)
      PROVE  [Promise!Next]_(Promise!vars)
  BY <1>7, <1>9 DEF OrphanArrives
<1>10. ASSUME NEW t \in Txs, Execute(t) \/ Expire(t)
       PROVE  UNCHANGED Promise!vars
  <2>1. UNCHANGED RelayedTxs
    BY <1>0, <1>10 DEF Execute, Expire, RelayedTxs, Seen
  <2> QED
    BY <1>10, <2>1, PromiseVars DEF Execute, Expire, ClaimedKeys, RecordedSigs, Answers
<1>11. ASSUME NEW h \in Handlers, Drop(h) \/ Close(h)
       PROVE  [Promise!Next]_(Promise!vars)
  <2>1. UNCHANGED <<ClaimedKeys, RecordedSigs, RelayedTxs>>
    BY <1>11 DEF Drop, Close, ClaimedKeys, RecordedSigs, RelayedTxs, Seen
  <2>2. Answers' = [Answers EXCEPT ![h] = None]
    <3>1. resp' = [resp EXCEPT ![h] = NoResponse]
      BY <1>11 DEF Drop, Close, Forget
    <3> QED
      BY <1>0, <3>1 DEF Answers, NoResponse
  <2>3. Promise!Release(h)
    BY <2>1, <2>2 DEF Promise!Release, ClaimedKeys, RecordedSigs, RelayedTxs, Answers
  <2> QED
    BY <2>3 DEF Promise!Next
<1>12. CASE UNCHANGED vars
  BY <1>12, PromiseVars DEF vars, ClaimedKeys, RecordedSigs, RelayedTxs, Answers, Seen
<1> QED
  BY <1>1, <1>2, <1>3, <1>4, <1>5, <1>6, <1>8, <1>9, <1>10, <1>11, <1>12, NextCases

(* However the handlers interleave, whichever of them vanish and whatever  *)
(* the node answers, the endpoint keeps the promise of IdempotentSubmit.   *)
THEOREM ImplementsPromise ==
    ASSUME BlindRetry
    PROVE  Spec => KeepsPromise
PROOF
<1>1. IInv /\ BlindInv /\ [Next]_vars => [Promise!Next]_(Promise!vars)
  BY PromiseStep
<1> QED
  BY <1>1, PromiseInit, BlindInductive, PTL DEF Spec, KeepsPromise, Promise!Spec

-------------------------------------------------------------------------------
(*****************************************************************************)
(* Part 2.  The payments of the SDK over it: Payment.                        *)
(*****************************************************************************)

Outcomes ==
    {NoResponse} \cup [kind : {"ok"}, signature : Txs] \cup [kind : Thrown, signature : {None}]

ClientTypes ==
    /\ stage \in [Keys -> Stages]
    /\ built \in [Keys -> Txs \cup {None}]
    /\ line \in [Keys -> Handlers \cup {None}]
    /\ outcome \in [Keys -> Outcomes]

(* What a call of send holds on to. *)
Tied(k) ==
    /\ stage[k] \in {"sign", "post", "wait"} => built[k] \in Txs /\ Pays[built[k]] = k
    /\ stage[k] \in {"post", "wait"} => built[k] \in approved
    /\ stage[k] = "wait" => line[k] \in Handlers

(* The request a handler serves carries an approved transaction of the     *)
(* payment its key stands for.                                             *)
Ours(h) ==
    pc[h] # "idle" => req[h].tx \in approved /\ Pays[req[h].tx] = req[h].key

RecordedPays == \A k \in Keys : Recorded(rows, k) => Pays[rows[k].signature] = k

PayInv ==
    /\ ClientTypes
    /\ \A k \in Keys : Tied(k)
    /\ \A h \in Handlers : Ours(h)
    /\ RelayedWasApproved
    /\ RecordedPays

-------------------------------------------------------------------------------
(* Where a payment stands: nothing of it has reached the server, or all    *)
(* that has is about one transaction.                                      *)

Busy(k) == {h \in Handlers : pc[h] # "idle" /\ req[h].key = k}

Traces(k) == {t \in Txs : Pays[t] = k /\ (Seen(t) \/ t \in orphans)}

Silent(k) == Busy(k) = {} /\ Traces(k) = {}

AboutOne(k, u) == Traces(k) \subseteq {u} /\ \A h \in Busy(k) : req[h].tx = u

(* The network has not heard of what handler h was asked to relay. *)
Unheard(h) ==
    \/ pc[h] \in {"find", "wallet", "claim", "relay", "sent"}
    \/ pc[h] = "replied" /\ reply[h] # "ok"
    \/ pc[h] = "done" /\ resp[h].kind \in Refusals

(* What is known while the client waits for handler h. *)
Waiting(k, h) ==
    /\ Busy(k) \subseteq {h}
    /\ pc[h] # "idle" => req[h].key = k
    /\ AboutOne(k, built[k])
    /\ Unheard(h) => Traces(k) = {}
    /\ pc[h] = "done" /\ resp[h].kind = "ok" => rows[k].signature = resp[h].signature

Fate(k) ==
    /\ stage[k] \in {"new", "build", "sign", "post"} => Silent(k)
    /\ stage[k] = "wait" => Waiting(k, line[k])
    /\ stage[k] = "threw" =>
         /\ outcome[k].kind # "network" => Silent(k)
         /\ outcome[k].kind = "network" => \E u \in Txs \cup {None} : AboutOne(k, u)
    /\ stage[k] = "returned" =>
         /\ Busy(k) = {}
         /\ \E u \in Txs \cup {None} : AboutOne(k, u)
         /\ outcome[k].signature \in Txs
         /\ rows[k].signature = outcome[k].signature
    /\ outcome[k].kind = "user_cancelled" => stage[k] = "threw"

FateInv == \A k \in Keys : Fate(k)

-------------------------------------------------------------------------------
(* The steps of Payment as steps of Submit. *)

(* A step is one of the server and the network, a request that arrives, an *)
(* answer that is taken, or one of the client alone.                       *)
LEMMA PayCases ==
    ASSUME [PayNext]_payVars
    PROVE  \/ Served /\ UNCHANGED client
           \/ \E k \in Keys : Arrive(k)
           \/ \E k \in Keys : Answered(k)
           \/ \E k \in Keys :
                \/ Send(k) \/ Build(k) \/ Approve(k)
                \/ Cancel(k) \/ TurnedAway(k) \/ LoseConnection(k)
           \/ UNCHANGED payVars
PROOF BY SenderAssumption
      DEF PayNext, ClientStep, ServerStep, CloseUnheard, NetworkStep, RegisterSender, Served, Serve

(* What the client posts is a request of Submit, so every step of Payment  *)
(* is a step of Submit or changes none of its variables.                   *)
LEMMA PayStepIsStep ==
    ASSUME ClientTypes, \A k \in Keys : Tied(k), [PayNext]_payVars
    PROVE  [Next]_vars
PROOF
<1>1. CASE Served
  BY <1>1 DEF Served, Next
<1>2. ASSUME NEW k \in Keys, Arrive(k)
      PROVE  Next
  <2>1. Body(k, built[k]) \in Requests
    BY <1>2, BodiesAssumption DEF Arrive, Tied
  <2> QED
    BY <1>2, <2>1 DEF Arrive, Next
<1>3. ASSUME NEW k \in Keys, Answered(k)
      PROVE  Next
  BY <1>3 DEF Answered, Tied, Next
<1>4. ASSUME NEW k \in Keys,
             \/ Send(k) \/ Build(k) \/ Approve(k)
             \/ Cancel(k) \/ TurnedAway(k) \/ LoseConnection(k)
      PROVE  UNCHANGED vars
  BY <1>4 DEF Send, Build, Approve, Cancel, TurnedAway, LoseConnection
<1> QED
  BY <1>1, <1>2, <1>3, <1>4, PayCases DEF payVars

(* Taking an answer ends the call, with the answer or with the error it is *)
(* mapped to.                                                              *)
LEMMA AnsweredEnds ==
    ASSUME NEW k \in Keys, Answered(k)
    PROVE  /\ built' = [built EXCEPT ![k] = None]
           /\ line' = [line EXCEPT ![k] = None]
           /\ UNCHANGED <<attempts, made, approved>>
           /\ \/ /\ resp[line[k]].kind = "ok"
                 /\ stage' = [stage EXCEPT ![k] = "returned"]
                 /\ outcome' = [outcome EXCEPT ![k] = resp[line[k]]]
              \/ /\ resp[line[k]].kind # "ok"
                 /\ stage' = [stage EXCEPT ![k] = "threw"]
                 /\ outcome' = [outcome EXCEPT
                                  ![k] = [kind |-> MapError(resp[line[k]].kind),
                                          signature |-> None]]
PROOF BY DEF Answered, Throw

(* A handler that serves a request served it before, unless the request    *)
(* has just come in.                                                       *)
LEMMA ServedKeeps ==
    ASSUME TypeOK, Served \/ UNCHANGED vars, NEW h \in Handlers, pc'[h] # "idle"
    PROVE  pc[h] # "idle" /\ req'[h] = req[h]
PROOF
<1> USE DEF local, db, network
<1>1. CASE UNCHANGED vars
  BY <1>1 DEF vars
<1>2. CASE Stays(h)
  BY <1>2 DEF Stays
<1>3. ASSUME \/ Find(h) \/ FindWallet(h) \/ Claim(h) \/ Relay(h) \/ ReadReply(h) \/ Mark(h)
             \/ NodeAccepts(h) \/ NodeRefuses(h) \/ DbFails(h) \/ RpcFails(h)
      PROVE  pc[h] # "idle" /\ req'[h] = req[h]
  BY <1>3 DEF Find, FindWallet, Claim, Relay, ReadReply, Mark,
         NodeAccepts, NodeRefuses, DbFails, RpcFails, AwaitingDb
<1>4. CASE Drop(h) \/ Close(h)
  BY <1>4 DEF Drop, Close, Forget, TypeOK
<1> QED
  BY <1>1, <1>2, <1>3, <1>4, OneServed DEF ServedAction

-------------------------------------------------------------------------------
(* Payments start with nothing built, nothing approved and an empty server.*)
LEMMA InitPayInv == PayInit => PayInv /\ FateInv
PROOF
<1> SUFFICES ASSUME PayInit PROVE PayInv /\ FateInv
  OBVIOUS
<1> USE DEF PayInit, Init
<1>1. ClientTypes
  BY DEF ClientTypes, Stages, Outcomes
<1>2. /\ \A k \in Keys : Tied(k)
      /\ \A h \in Handlers : Ours(h)
  BY DEF Tied, Ours
<1>3. RelayedWasApproved /\ RecordedPays
  BY DEF RelayedWasApproved, RecordedPays, Seen, Recorded, EmptyTable, NoRow
<1>4. ASSUME NEW k \in Keys
      PROVE  Fate(k)
  BY DEF Fate, Silent, Busy, Traces, Seen, NoResponse
<1> QED
  BY <1>1, <1>2, <1>3, <1>4 DEF PayInv, FateInv

(* The errors of the endpoint reach the app as errors send throws. *)
LEMMA AnswerTypes ==
    ASSUME ClientTypes, TypeOK, NEW k \in Keys, Answered(k), line[k] \in Handlers
    PROVE  ClientTypes'
PROOF
<1>1. resp[line[k]] \in Responses
  BY DEF TypeOK
<1>2. CASE resp[line[k]].kind = "ok"
  <2>1. resp[line[k]] \in Outcomes
    BY <1>1, <1>2 DEF Responses, NoResponse, Outcomes, Errors, Refusals
  <2>2. "returned" \in Stages
    BY DEF Stages
  <2> QED
    BY <1>2, <2>1, <2>2, AnsweredEnds DEF ClientTypes
<1>3. CASE resp[line[k]].kind # "ok"
  <2>1. [kind |-> MapError(resp[line[k]].kind), signature |-> None] \in Outcomes
    BY DEF MapError, Outcomes, Thrown
  <2>2. "threw" \in Stages
    BY DEF Stages
  <2> QED
    BY <1>3, <2>1, <2>2, AnsweredEnds DEF ClientTypes
<1> QED
  BY <1>2, <1>3

(* No step leaves the types of the client's variables.                     *)
LEMMA ClientTypeStep ==
    ASSUME ClientTypes, TypeOK, \A k \in Keys : Tied(k), [PayNext]_payVars
    PROVE  ClientTypes'
PROOF
<1>1. CASE UNCHANGED client
  BY <1>1 DEF ClientTypes, client
<1>2. ASSUME NEW k \in Keys, Arrive(k)
      PROVE  ClientTypes'
  BY <1>2 DEF ClientTypes, Arrive, Stages
<1>3. ASSUME NEW k \in Keys, Answered(k)
      PROVE  ClientTypes'
  BY <1>3, AnswerTypes DEF Answered, Tied
<1>4. ASSUME NEW k \in Keys, Send(k) \/ Build(k) \/ Approve(k)
      PROVE  ClientTypes'
  BY <1>4 DEF ClientTypes, Send, Build, Approve, Stages, Outcomes
<1>5. ASSUME NEW k \in Keys, Cancel(k) \/ TurnedAway(k) \/ LoseConnection(k)
      PROVE  ClientTypes'
  BY <1>5 DEF ClientTypes, Cancel, TurnedAway, LoseConnection, Throw, Stages, Outcomes, Thrown
<1> QED
  BY <1>1, <1>2, <1>3, <1>4, <1>5, PayCases DEF payVars

(* A call that has built a transaction built one for its payment; it posts *)
(* only what has been approved.                                            *)
LEMMA TiedStep ==
    ASSUME ClientTypes, \A k \in Keys : Tied(k), [PayNext]_payVars, NEW k \in Keys
    PROVE  Tied(k)'
PROOF
<1> USE DEF Tied, ClientTypes
<1>1. CASE UNCHANGED client
  BY <1>1 DEF client
<1>2. ASSUME NEW j \in Keys, Arrive(j)
      PROVE  Tied(k)'
  BY <1>2 DEF Arrive
<1>3. ASSUME NEW j \in Keys, Answered(j)
      PROVE  Tied(k)'
  BY <1>3, AnsweredEnds
<1>4. ASSUME NEW j \in Keys, Send(j) \/ Build(j) \/ Approve(j)
      PROVE  Tied(k)'
  BY <1>4 DEF Send, Build, Approve
<1>5. ASSUME NEW j \in Keys, Cancel(j) \/ TurnedAway(j) \/ LoseConnection(j)
      PROVE  Tied(k)'
  BY <1>5 DEF Cancel, TurnedAway, LoseConnection, Throw
<1> QED
  BY <1>1, <1>2, <1>3, <1>4, <1>5, PayCases DEF payVars

(* The user's approvals are never withdrawn.                               *)
LEMMA ApprovedGrows ==
    ASSUME [PayNext]_payVars
    PROVE  approved \subseteq approved'
PROOF BY PayCases DEF Arrive, Answered, Send, Build, Approve, Cancel, TurnedAway,
         LoseConnection, client, payVars

(* The steps that leave the requests being served as they are: those of    *)
(* the server and the network, the client's own, and taking an answer.     *)
LEMMA ServedOrArrive ==
    ASSUME \A k \in Keys : Tied(k), [PayNext]_payVars
    PROVE  Served \/ UNCHANGED vars \/ \E k \in Keys : Arrive(k)
PROOF
<1>1. ASSUME NEW k \in Keys, Answered(k)
      PROVE  Served
  BY <1>1 DEF Answered, Tied, Served
<1> QED
  BY <1>1, PayCases DEF Send, Build, Approve, Cancel, TurnedAway, LoseConnection, payVars

(* What a request that arrives changes.                                    *)
LEMMA ArriveDoes ==
    ASSUME TypeOK, ClientTypes, NEW k \in Keys, Tied(k), Arrive(k)
    PROVE  /\ UNCHANGED <<rows, chain, orphans, reply, approved, outcome, built>>
           /\ stage[k] = "post" /\ stage' = [stage EXCEPT ![k] = "wait"]
           /\ \E h \in Handlers :
                /\ \A j \in Keys : line[j] # h
                /\ line' = [line EXCEPT ![k] = h]
                /\ pc[h] = "idle"
                /\ req'[h] = Body(k, built[k])
                /\ pc'[h] = "find" \/ (pc'[h] = "done" /\ resp'[h].kind = "bad_request")
                /\ \A g \in Handlers \ {h} : /\ pc'[g] = pc[g] /\ req'[g] = req[g]
                                              /\ resp'[g] = resp[g]
PROOF
<1>1. PICK h \in Handlers :
        /\ \A j \in Keys : line[j] # h
        /\ Receive(h, Body(k, built[k]))
        /\ line' = [line EXCEPT ![k] = h]
  BY DEF Arrive
<1>2. /\ pc[h] = "idle"
      /\ req'[h] = Body(k, built[k])
      /\ UNCHANGED <<rows, chain, orphans, reply>>
      /\ pc'[h] = "find" \/ (pc'[h] = "done" /\ resp'[h].kind = "bad_request")
      /\ \A g \in Handlers \ {h} : pc'[g] = pc[g] /\ req'[g] = req[g] /\ resp'[g] = resp[g]
  BY <1>1 DEF Receive, Goto, Err, TypeOK, db, network
<1> QED
  BY <1>1, <1>2 DEF Arrive

(* A handler serves an approved transaction under the key of its payment.  *)
LEMMA OursStep ==
    ASSUME TypeOK, PayInv, [PayNext]_payVars, NEW h \in Handlers
    PROVE  Ours(h)'
PROOF
<1>1. CASE Served \/ UNCHANGED vars
  BY <1>1, ServedKeeps, ApprovedGrows DEF Ours, PayInv
<1>2. ASSUME NEW k \in Keys, Arrive(k)
      PROVE  Ours(h)'
  <2>1. PICK g \in Handlers :
          /\ req'[g] = Body(k, built[k])
          /\ \A f \in Handlers \ {g} : pc'[f] = pc[f] /\ req'[f] = req[f]
    BY <1>2, ArriveDoes DEF PayInv
  <2>2. built[k] \in approved /\ Pays[built[k]] = k /\ UNCHANGED approved
    BY <1>2 DEF PayInv, Tied, Arrive
  <2>3. CASE h = g
    BY <2>1, <2>2, <2>3 DEF Ours, Body
  <2>4. CASE h # g
    BY <2>1, <2>2, <2>4 DEF Ours, PayInv
  <2> QED
    BY <2>3, <2>4
<1> QED
  BY <1>1, <1>2, ServedOrArrive DEF PayInv

(* A transaction the network hears of is that of a handler, and so was     *)
(* approved.                                                               *)
LEMMA RelayedStep ==
    ASSUME TypeOK, Serving, PayInv, [PayNext]_payVars
    PROVE  RelayedWasApproved'
PROOF
<1> SUFFICES ASSUME NEW t \in Txs, Seen(t)' \/ t \in orphans'
             PROVE  t \in approved'
  BY DEF RelayedWasApproved
<1>1. \/ Seen(t) \/ t \in orphans
      \/ \E h \in Handlers : pc[h] = "sent" /\ req[h].tx = t
  BY PayStepIsStep, NetworkGrows DEF PayInv
<1> QED
  BY <1>1, ApprovedGrows DEF PayInv, RelayedWasApproved, Ours

(* Only the handler of a payment marks the payment's row. *)
LEMMA RecordedPaysStep ==
    ASSUME TypeOK, Serving, PayInv, [PayNext]_payVars
    PROVE  RecordedPays'
PROOF
<1> SUFFICES ASSUME NEW k \in Keys, Recorded(rows', k)
             PROVE  Pays[rows'[k].signature] = k
  BY DEF RecordedPays
<1>0. [Next]_vars
  BY PayStepIsStep DEF PayInv
<1>1. CASE UNCHANGED rows
  BY <1>1 DEF PayInv, RecordedPays, Recorded
<1>2. ASSUME NEW h \in Handlers,
             rows' = [rows EXCEPT ![req[h].key] = Pending(walletId[h], req[h].intent)]
      PROVE  Pays[rows'[k].signature] = k
  BY <1>2 DEF PayInv, RecordedPays, Recorded, Pending, TypeOK
<1>3. ASSUME NEW h \in Handlers, Mark(h),
             rows' = [rows EXCEPT ![req[h].key] =
                                  [@ EXCEPT !.signature = req[h].tx, !.status = "submitted"]]
      PROVE  Pays[rows'[k].signature] = k
  <2>1. Pays[req[h].tx] = req[h].key
    BY <1>3 DEF PayInv, Ours, Mark
  <2>2. CASE req[h].key = k
    <3>1. rows'[k].signature = req[h].tx
      BY <1>3, <2>2 DEF TypeOK, Row
    <3> QED
      BY <2>1, <2>2, <3>1
  <2>3. CASE req[h].key # k
    BY <1>3, <2>3 DEF PayInv, RecordedPays, Recorded, TypeOK
  <2> QED
    BY <2>2, <2>3
<1> QED
  BY <1>0, <1>1, <1>2, <1>3, RowsStep

(* The server keeps its invariant under the requests of these clients, and *)
(* the clients keep theirs.                                                *)
THEOREM PaymentInductive == PaySpec => [](IInv /\ PayInv)
PROOF
<1>1. PayInit => IInv /\ PayInv
  BY InitIInv, InitPayInv DEF PayInit
<1>2. IInv /\ PayInv /\ [PayNext]_payVars => IInv'
  BY PayStepIsStep, TypeStep, HandlerInvStep, NetworkInvStep, RowInvStep DEF IInv, PayInv
<1>3. IInv /\ PayInv /\ [PayNext]_payVars => PayInv'
  <2> SUFFICES ASSUME IInv, PayInv, [PayNext]_payVars PROVE PayInv'
    OBVIOUS
  <2>1. TypeOK /\ Serving
    BY DEF IInv
  <2>2. ClientTypes' /\ (\A k \in Keys : Tied(k))'
    BY <2>1, ClientTypeStep, TiedStep DEF PayInv
  <2>3. (\A h \in Handlers : Ours(h))'
    BY <2>1, OursStep
  <2> QED
    BY <2>1, <2>2, <2>3, RelayedStep, RecordedPaysStep DEF PayInv
<1> QED
  BY <1>1, <1>2, <1>3, PTL DEF PaySpec

(* Nothing reaches the network that the user has not approved, on any call *)
(* of send, over any handler left behind and whatever the app retries.     *)
THEOREM RelayedIsApproved == PaySpec => []RelayedWasApproved
PROOF BY PaymentInductive, PTL DEF PayInv

-------------------------------------------------------------------------------
(* What the server and the network may do to a payment. *)

(* Requests being served only become fewer. *)
LEMMA BusyShrinks ==
    ASSUME TypeOK, Served \/ UNCHANGED vars, NEW k \in Keys
    PROVE  /\ Busy(k)' \subseteq Busy(k)
           /\ \A h \in Busy(k)' : req'[h] = req[h]
PROOF BY ServedKeeps DEF Busy

(* A trace that is new was left by a handler of the payment that had       *)
(* posted the transaction.                                                 *)
LEMMA TracesFrom ==
    ASSUME TypeOK, Serving, PayInv, [PayNext]_payVars, NEW k \in Keys,
           NEW t \in Traces(k)', t \notin Traces(k)
    PROVE  \E h \in Busy(k) : /\ NodeAccepts(h) \/ RpcFails(h) \/ Drop(h)
                              /\ pc[h] = "sent" /\ req[h].tx = t
PROOF
<1>1. t \in Txs /\ Pays[t] = k /\ (Seen(t)' \/ t \in orphans')
  BY DEF Traces
<1>2. ~ (Seen(t) \/ t \in orphans)
  BY <1>1 DEF Traces
<1>3. PICK h \in Handlers : /\ NodeAccepts(h) \/ RpcFails(h) \/ Drop(h)
                            /\ pc[h] = "sent" /\ req[h].tx = t
  BY <1>1, <1>2, PayStepIsStep, NetworkGrows DEF PayInv
<1>4. h \in Busy(k)
  BY <1>1, <1>3 DEF PayInv, Ours, Busy
<1> QED
  BY <1>3, <1>4

(* While a payment is silent it stays so, however the server runs. *)
LEMMA SilentStays ==
    ASSUME TypeOK, Serving, PayInv, [PayNext]_payVars, Served \/ UNCHANGED vars,
           NEW k \in Keys, Silent(k)
    PROVE  Silent(k)'
PROOF BY BusyShrinks, TracesFrom DEF Silent

(* Everything the server holds of a payment stays about one transaction.   *)
LEMMA AboutOneStays ==
    ASSUME TypeOK, Serving, PayInv, [PayNext]_payVars, Served \/ UNCHANGED vars,
           NEW k \in Keys, NEW u, AboutOne(k, u)
    PROVE  AboutOne(k, u)'
PROOF
<1>1. ASSUME NEW t \in Traces(k)'
      PROVE  t = u
  BY <1>1, TracesFrom DEF AboutOne
<1>2. \A h \in Busy(k)' : req'[h].tx = u
  BY BusyShrinks DEF AboutOne
<1> QED
  BY <1>1, <1>2 DEF AboutOne

(* A row is written by a handler of its key, on its way to the relay or to *)
(* the answer.                                                             *)
LEMMA QuietRow ==
    ASSUME TypeOK, Serving, [Next]_vars, NEW k \in Keys,
           \A h \in Busy(k) : pc[h] \notin {"claim", "mark"}
    PROVE  rows'[k] = rows[k]
PROOF
<1>1. ASSUME NEW h \in Handlers, Claim(h) \/ Mark(h)
      PROVE  req[h].key # k
  BY <1>1 DEF Claim, Mark, Busy
<1> QED
  BY <1>1, RowsStep DEF TypeOK

(* A handler whose transaction is still unheard of neither got it accepted *)
(* in this step nor left it on the wire.                                   *)
LEMMA UnheardBefore ==
    ASSUME TypeOK, Serving, Served \/ UNCHANGED vars, NEW h \in Handlers, Unheard(h)'
    PROVE  Unheard(h) /\ ~ (NodeAccepts(h) \/ RpcFails(h) \/ Drop(h))
PROOF
<1> USE DEF Unheard, TypeOK, local, db, network
<1>1. CASE UNCHANGED vars
  BY <1>1 DEF vars, NodeAccepts, RpcFails, Drop, Forget, Goto, Err, Working, AwaitingDb
<1>2. CASE ~ ServedAction(h) /\ Served
  BY <1>2, OneServed DEF Stays, ServedAction
<1>3. CASE Find(h) \/ FindWallet(h) \/ Claim(h) \/ Relay(h)
  BY <1>3 DEF Find, FindWallet, Claim, Relay, NodeAccepts, RpcFails, Drop, Forget, Goto, Ok, Err,
         Refusals
<1>4. CASE ReadReply(h)
  BY <1>4 DEF ReadReply, NodeAccepts, RpcFails, Drop, Forget, Goto, Err, Refusals
<1>5. CASE Mark(h)
  BY <1>5 DEF Mark, Ok, Err, Refusals
<1>6. CASE DbFails(h)
  BY <1>6 DEF DbFails, Err, Refusals
<1>7. CASE NodeAccepts(h)
  BY <1>7 DEF NodeAccepts, Goto
<1>8. CASE NodeRefuses(h)
  BY <1>8 DEF NodeRefuses, NodeAccepts, RpcFails, Drop, Forget, Goto, Err
<1>9. CASE RpcFails(h)
  BY <1>9 DEF RpcFails, Err, Refusals
<1>10. CASE Drop(h) \/ Close(h)
  BY <1>10 DEF Drop, Close, Forget
<1> QED
  BY <1>1, <1>2, <1>3, <1>4, <1>5, <1>6, <1>7, <1>8, <1>9, <1>10 DEF ServedAction

(* What a waiting client may rely on stays true while the server runs. *)
LEMMA WaitingStays ==
    ASSUME IInv, PayInv, [PayNext]_payVars, Served \/ UNCHANGED vars,
           NEW k \in Keys, NEW h \in Handlers, Waiting(k, h), built'[k] = built[k]
    PROVE  Waiting(k, h)'
PROOF
<1>0. TypeOK /\ Serving /\ [Next]_vars
  BY PayStepIsStep DEF IInv, PayInv
<1>1. Busy(k)' \subseteq {h} /\ (pc'[h] # "idle" => req'[h].key = k)
  BY <1>0, BusyShrinks, ServedKeeps DEF Waiting
<1>2. AboutOne(k, built[k])'
  <2>1. PICK u : u = built[k]
    OBVIOUS
  <2>2. AboutOne(k, u)'
    BY <1>0, <2>1, AboutOneStays DEF Waiting
  <2> QED
    BY <2>1, <2>2 DEF AboutOne
<1>3. ASSUME Unheard(h)'
      PROVE  Traces(k)' = {}
  <2>1. Traces(k) = {} /\ ~ (NodeAccepts(h) \/ RpcFails(h) \/ Drop(h))
    BY <1>0, <1>3, UnheardBefore DEF Waiting
  <2> QED
    BY <1>0, <2>1, TracesFrom DEF Waiting
<1>4. ASSUME pc'[h] = "done", resp'[h].kind = "ok"
      PROVE  rows'[k].signature = resp'[h].signature
  <2>0. pc[h] # "idle" /\ req[h].key = k
    BY <1>0, <1>4, ServedKeeps DEF Waiting
  <2>1. CASE pc[h] = "done"
    <3>1. rows'[k] = rows[k]
      BY <1>0, <2>1, QuietRow DEF Waiting
    <3>2. resp'[h] = resp[h]
      <4>1. ~ ServedAction(h)
        BY <1>0, <1>4, <2>1
           DEF ServedAction, Find, FindWallet, Claim, Relay, ReadReply, Mark, NodeAccepts,
               NodeRefuses, DbFails, RpcFails, Drop, Close, Forget, Working, AwaitingDb, TypeOK
      <4> QED
        BY <1>0, <4>1, OneServed DEF Stays, vars
    <3> QED
      BY <1>4, <2>1, <3>1, <3>2 DEF Waiting
  <2>2. CASE pc[h] # "done"
    <3>1. ServedAction(h)
      BY <1>0, <1>4, <2>2, OneServed DEF Stays, vars
    <3>2. CASE Find(h)
      BY <1>0, <1>4, <2>0, <2>2, <3>2 DEF Find, Ok, Goto, db, TypeOK
    <3>3. CASE Mark(h)
      <4>1. Exists(rows, k) /\ req[h].tx \in Txs
        BY <1>0, <2>0, <3>3, RequestFields DEF Mark, IInv, HandlerInv, Progress, Serving
      <4>2. Ok(h, req[h].tx) /\ rows' = MarkSubmitted(rows, k, req[h].tx)
        BY <1>0, <1>4, <2>0, <3>3 DEF Mark, Err, TypeOK
      <4> QED
        BY <1>0, <4>1, <4>2 DEF MarkSubmitted, Ok, TypeOK, Row
    <3>4. CASE FindWallet(h) \/ Claim(h) \/ Relay(h) \/ ReadReply(h) \/ DbFails(h) \/ RpcFails(h)
      BY <1>0, <1>4, <2>2, <3>4
         DEF FindWallet, Claim, Relay, ReadReply, DbFails, RpcFails, Goto, Err, TypeOK, Refusals,
             Serving
    <3>5. CASE NodeAccepts(h) \/ NodeRefuses(h) \/ Drop(h) \/ Close(h)
      BY <1>0, <1>4, <2>2, <3>5 DEF NodeAccepts, NodeRefuses, Drop, Close, Goto, Forget, TypeOK
    <3> QED
      BY <3>1, <3>2, <3>3, <3>4, <3>5 DEF ServedAction
  <2> QED
    BY <2>1, <2>2
<1> QED
  BY <1>1, <1>2, <1>3, <1>4 DEF Waiting, AboutOne

-------------------------------------------------------------------------------
(* A step of the server, or of another payment's call, leaves a payment    *)
(* where it stands.                                                        *)
LEMMA FateStays ==
    ASSUME IInv, PayInv, [PayNext]_payVars, Served \/ UNCHANGED vars,
           NEW k \in Keys, Fate(k),
           stage'[k] = stage[k], outcome'[k] = outcome[k], built'[k] = built[k],
           line'[k] = line[k]
    PROVE  Fate(k)'
PROOF
<1>0. TypeOK /\ Serving /\ [Next]_vars
  BY PayStepIsStep DEF IInv, PayInv
<1>1. Silent(k) => Silent(k)'
  BY <1>0, SilentStays
<1>2. \A u \in Txs \cup {None} : AboutOne(k, u) => AboutOne(k, u)'
  BY <1>0, AboutOneStays
<1>3. ASSUME stage[k] = "wait"
      PROVE  Waiting(k, line[k])'
  <2>1. PICK h \in Handlers : h = line[k]
    BY <1>3 DEF PayInv, Tied
  <2>2. Waiting(k, h)'
    BY <1>3, <2>1, WaitingStays DEF Fate
  <2> QED
    BY <2>1, <2>2 DEF Waiting
<1>4. ASSUME stage[k] = "returned"
      PROVE  Busy(k)' = {} /\ rows'[k] = rows[k]
  BY <1>0, <1>4, BusyShrinks, QuietRow DEF Fate
<1> QED
  BY <1>1, <1>2, <1>3, <1>4 DEF Fate

(* A request of one payment that arrives does not touch another one.       *)
LEMMA ArriveElsewhere ==
    ASSUME IInv, PayInv, NEW j \in Keys, Arrive(j), NEW k \in Keys \ {j}, Fate(k)
    PROVE  Fate(k)'
PROOF
<1>0. TypeOK /\ ClientTypes /\ Tied(j) /\ Tied(k)
  BY DEF IInv, PayInv
<1>1. PICK h \in Handlers :
        /\ line[k] # h
        /\ line' = [line EXCEPT ![j] = h]
        /\ pc[h] = "idle"
        /\ req'[h] = Body(j, built[j])
        /\ \A g \in Handlers \ {h} : /\ pc'[g] = pc[g] /\ req'[g] = req[g]
                                      /\ resp'[g] = resp[g]
  BY <1>0, ArriveDoes
<1>2. /\ UNCHANGED <<rows, chain, orphans, reply, outcome, built>>
      /\ stage'[k] = stage[k] /\ line'[k] = line[k]
  BY <1>0, <1>1, ArriveDoes DEF ClientTypes
<1>3. Busy(k)' = Busy(k) /\ \A g \in Busy(k) : req'[g] = req[g]
  BY <1>1 DEF Busy, Body
<1>4. Traces(k)' = Traces(k)
  BY <1>2 DEF Traces, Seen
<1>5. Silent(k)' <=> Silent(k)
  BY <1>3, <1>4 DEF Silent
<1>6. \A u \in Txs \cup {None} : AboutOne(k, u) => AboutOne(k, u)'
  BY <1>3, <1>4 DEF AboutOne
<1>7. ASSUME stage[k] = "wait"
      PROVE  Waiting(k, line[k])'
  <2>1. /\ line[k] \in Handlers \ {h} /\ built[k] \in Txs
        /\ pc'[line[k]] = pc[line[k]] /\ req'[line[k]] = req[line[k]]
        /\ resp'[line[k]] = resp[line[k]] /\ reply'[line[k]] = reply[line[k]]
    BY <1>0, <1>1, <1>2, <1>7 DEF Tied
  <2>2. Waiting(k, line[k])
    BY <1>7 DEF Fate
  <2>3. Unheard(line[k])' => Unheard(line[k])
    BY <1>2, <2>1 DEF Unheard
  <2>4. AboutOne(k, built[k])'
    BY <1>2, <1>3, <1>4, <2>2 DEF AboutOne, Waiting
  <2> QED
    BY <1>2, <1>3, <1>4, <2>1, <2>2, <2>3, <2>4 DEF Waiting
<1> QED
  BY <1>2, <1>3, <1>5, <1>6, <1>7 DEF Fate

(* A request that arrives finds the server without a trace of its payment. *)
LEMMA ArriveWaits ==
    ASSUME IInv, PayInv, NEW k \in Keys, Arrive(k), Fate(k)
    PROVE  Fate(k)'
PROOF
<1>0. TypeOK /\ ClientTypes /\ Tied(k) /\ Silent(k)
  BY DEF IInv, PayInv, Fate, Arrive
<1>1. PICK h \in Handlers :
        /\ line' = [line EXCEPT ![k] = h]
        /\ pc[h] = "idle"
        /\ req'[h] = Body(k, built[k])
        /\ pc'[h] = "find" \/ (pc'[h] = "done" /\ resp'[h].kind = "bad_request")
        /\ \A g \in Handlers \ {h} : pc'[g] = pc[g] /\ req'[g] = req[g]
  BY <1>0, ArriveDoes
<1>2. /\ UNCHANGED <<chain, orphans, built, outcome>>
      /\ stage'[k] = "wait" /\ line'[k] = h
      /\ outcome[k].kind # "user_cancelled"
  BY <1>0, <1>1, ArriveDoes DEF ClientTypes, Fate
<1>3. Traces(k)' = {}
  BY <1>0, <1>2 DEF Traces, Seen, Silent
<1>4. Busy(k)' \subseteq {h}
  BY <1>0, <1>1 DEF Silent, Busy
<1>5. Waiting(k, h)'
  BY <1>1, <1>2, <1>3, <1>4 DEF Waiting, AboutOne, Body
<1> QED
  BY <1>2, <1>5 DEF Fate, Waiting

(* The answer of the handler decides where the payment stands: at rest     *)
(* with its record, silent after a refusal, or about one transaction.      *)
LEMMA AnsweredRests ==
    ASSUME IInv, PayInv, [PayNext]_payVars, NEW k \in Keys, Answered(k), Fate(k)
    PROVE  Fate(k)'
PROOF
<1>0. /\ TypeOK /\ Serving /\ ClientTypes /\ Tied(k) /\ [Next]_vars
  BY PayStepIsStep DEF IInv, PayInv
<1>1. PICK h \in Handlers : h = line[k]
  BY <1>0 DEF Answered, Tied
<1>2. Close(h) /\ pc[h] = "done" /\ Waiting(k, h) /\ Served
  BY <1>1 DEF Answered, Fate, Served
<1>3. Busy(k)' = {}
  <2>1. Busy(k)' \subseteq {h}
    BY <1>0, <1>2, BusyShrinks DEF Waiting
  <2>2. pc'[h] = "idle"
    BY <1>0, <1>2 DEF Close, Forget, TypeOK
  <2> QED
    BY <2>1, <2>2 DEF Busy
<1>4. Traces(k)' = Traces(k) /\ rows' = rows
  BY <1>2 DEF Close, db, network, Traces, Seen
<1>5. \E u \in Txs \cup {None} : AboutOne(k, u)'
  <2>1. built[k] \in Txs \cup {None} /\ Traces(k) \subseteq {built[k]}
    BY <1>0, <1>2 DEF ClientTypes, Waiting, AboutOne
  <2>2. PICK u \in Txs \cup {None} : Traces(k) \subseteq {u}
    BY <2>1
  <2>3. AboutOne(k, u)'
    BY <1>3, <1>4, <2>2 DEF AboutOne
  <2> QED
    BY <2>3
<1>6. resp[h] \in Responses
  BY <1>0 DEF TypeOK
<1>7. CASE resp[h].kind = "ok"
  <2>1. stage'[k] = "returned" /\ outcome'[k] = resp[h]
    BY <1>0, <1>1, <1>7, AnsweredEnds DEF ClientTypes
  <2>2. resp[h].signature \in Txs
    BY <1>6, <1>7 DEF Responses, NoResponse, Errors, Refusals
  <2>3. rows'[k].signature = resp[h].signature
    BY <1>2, <1>4, <1>7 DEF Waiting
  <2> QED
    BY <1>3, <1>5, <1>7, <2>1, <2>2, <2>3 DEF Fate
<1>8. CASE resp[h].kind # "ok"
  <2>1. stage'[k] = "threw" /\ outcome'[k].kind = MapError(resp[h].kind)
    BY <1>0, <1>1, <1>8, AnsweredEnds DEF ClientTypes
  <2>2. CASE resp[h].kind \in Refusals
    <3>1. Silent(k)'
      BY <1>2, <1>3, <1>4, <2>2 DEF Waiting, Unheard, Silent
    <3> QED
      BY <2>1, <2>2, <3>1 DEF Fate, MapError, Refusals
  <2>3. CASE resp[h].kind \notin Refusals
    BY <1>5, <2>1, <2>3 DEF Fate, MapError
  <2> QED
    BY <2>2, <2>3
<1> QED
  BY <1>7, <1>8

(* What the client does alone: it calls send again only while the server   *)
(* holds nothing of the payment, and a call that fails before its request  *)
(* was delivered leaves nothing there.                                     *)
LEMMA ClientMoves ==
    ASSUME "network" \notin RetryOn, PayInv, NEW k \in Keys, Fate(k),
           \/ Send(k) \/ Build(k) \/ Approve(k)
           \/ Cancel(k) \/ TurnedAway(k) \/ LoseConnection(k)
    PROVE  Fate(k)'
PROOF
<1>0. /\ UNCHANGED vars
      /\ ClientTypes /\ Tied(k)
  BY DEF Send, Build, Approve, Cancel, TurnedAway, LoseConnection, PayInv
<1>1. Busy(k)' = Busy(k) /\ Traces(k)' = Traces(k) /\ (Silent(k)' <=> Silent(k))
  BY <1>0 DEF vars, local, network, Busy, Traces, Seen, Silent
<1>2. CASE Send(k)
  <2>1. Silent(k)
    BY <1>2 DEF Send, Fate
  <2>2. stage'[k] = "build" /\ outcome'[k] = NoResponse
    BY <1>0, <1>2 DEF Send, ClientTypes
  <2> QED
    BY <1>1, <2>1, <2>2 DEF Fate, NoResponse
<1>3. CASE Build(k) \/ Approve(k)
  <2>1. stage[k] \in {"build", "sign"} /\ stage'[k] \in {"sign", "post"} /\ UNCHANGED outcome
    BY <1>0, <1>3 DEF Build, Approve, ClientTypes
  <2> QED
    BY <1>1, <2>1 DEF Fate
<1>4. CASE Cancel(k) \/ TurnedAway(k)
  <2>1. /\ stage[k] \in {"build", "sign", "post"} /\ stage'[k] = "threw"
        /\ outcome'[k].kind # "network"
    BY <1>0, <1>4 DEF Cancel, TurnedAway, Throw, ClientTypes
  <2> QED
    BY <1>1, <2>1 DEF Fate
<1>5. CASE LoseConnection(k)
  <2>1. /\ stage[k] \in {"build", "sign", "post", "wait"} /\ stage'[k] = "threw"
        /\ outcome'[k].kind = "network"
    BY <1>0, <1>5 DEF LoseConnection, Throw, ClientTypes
  <2>2. \E u \in Txs \cup {None} : AboutOne(k, u)
    BY <1>0, <2>1 DEF Fate, Silent, Waiting, AboutOne, ClientTypes
  <2>3. \E u \in Txs \cup {None} : AboutOne(k, u)'
    BY <1>0, <1>1, <2>2 DEF AboutOne, vars, local
  <2> QED
    BY <2>1, <2>3 DEF Fate
<1> QED
  BY <1>2, <1>3, <1>4, <1>5

(* What a call of one payment changes of the client, it changes for that   *)
(* payment.                                                                *)
LEMMA OtherPayments ==
    ASSUME ClientTypes, NEW j \in Keys,
           \/ Send(j) \/ Build(j) \/ Approve(j) \/ Cancel(j) \/ TurnedAway(j)
           \/ LoseConnection(j) \/ Answered(j),
           NEW k \in Keys \ {j}
    PROVE  /\ stage'[k] = stage[k] /\ outcome'[k] = outcome[k]
           /\ built'[k] = built[k] /\ line'[k] = line[k]
PROOF
<1>1. CASE Send(j) \/ Build(j) \/ Approve(j)
  BY <1>1 DEF ClientTypes, Send, Build, Approve
<1>2. CASE Cancel(j) \/ TurnedAway(j) \/ LoseConnection(j)
  BY <1>2 DEF ClientTypes, Cancel, TurnedAway, LoseConnection, Throw
<1>3. CASE Answered(j)
  BY <1>3, AnsweredEnds DEF ClientTypes
<1> QED
  BY <1>1, <1>2, <1>3

(* No step lets the server hold two transactions of one payment.           *)
LEMMA FateStep ==
    ASSUME "network" \notin RetryOn, IInv, PayInv, FateInv, [PayNext]_payVars
    PROVE  FateInv'
PROOF
<1> SUFFICES ASSUME NEW k \in Keys PROVE Fate(k)'
  BY DEF FateInv
<1>0. Fate(k) /\ ClientTypes /\ \A j \in Keys : Tied(j)
  BY DEF FateInv, PayInv
<1>1. CASE UNCHANGED client /\ (Served \/ UNCHANGED vars)
  BY <1>0, <1>1, FateStays DEF client
<1>2. ASSUME NEW j \in Keys, Arrive(j)
      PROVE  Fate(k)'
  BY <1>0, <1>2, ArriveElsewhere, ArriveWaits
<1>3. ASSUME NEW j \in Keys, Answered(j)
      PROVE  Fate(k)'
  <2>1. Served
    BY <1>0, <1>3 DEF Answered, Tied, Served
  <2>2. CASE k = j
    BY <1>0, <1>3, <2>2, AnsweredRests
  <2>3. CASE k # j
    BY <1>0, <1>3, <2>1, <2>3, OtherPayments, FateStays
  <2> QED
    BY <2>2, <2>3
<1>4. ASSUME NEW j \in Keys,
             \/ Send(j) \/ Build(j) \/ Approve(j)
             \/ Cancel(j) \/ TurnedAway(j) \/ LoseConnection(j)
      PROVE  Fate(k)'
  <2>1. UNCHANGED vars
    BY <1>4 DEF Send, Build, Approve, Cancel, TurnedAway, LoseConnection
  <2>2. CASE k = j
    BY <1>0, <1>4, <2>2, ClientMoves
  <2>3. CASE k # j
    BY <1>0, <1>4, <2>1, <2>3, OtherPayments, FateStays
  <2> QED
    BY <2>2, <2>3
<1> QED
  BY <1>1, <1>2, <1>3, <1>4, PayCases DEF payVars

(* The app that does not call send again after a NetworkError: at any time *)
(* all that the server, the wire and the network hold of a payment is      *)
(* about one transaction.                                                  *)
THEOREM FateInductive ==
    ASSUME "network" \notin RetryOn
    PROVE  PaySpec => [](IInv /\ PayInv /\ FateInv)
PROOF
<1>1. PayInit => FateInv
  BY InitPayInv
<1>2. IInv /\ PayInv /\ FateInv /\ [PayNext]_payVars => FateInv'
  BY FateStep
<1> QED
  BY <1>1, <1>2, PaymentInductive, PTL DEF PaySpec

(* Never two: over all its retries, at most one of the transactions built  *)
(* for a payment is executed.                                              *)
THEOREM OneIsExecuted ==
    ASSUME "network" \notin RetryOn
    PROVE  PaySpec => []AtMostOneExecuted
PROOF
<1>1. FateInv /\ PayInv => AtMostOneExecuted
  <2> SUFFICES ASSUME FateInv, PayInv, NEW a \in Txs, NEW b \in Txs,
                      Executed(a), Executed(b), Pays[a] = Pays[b]
               PROVE  a = b
    BY DEF AtMostOneExecuted
  <2>1. PICK k \in Keys : k = Pays[a]
    BY PaysAssumption
  <2>2. a \in Traces(k) /\ b \in Traces(k)
    BY <2>1 DEF Traces, Executed, Seen
  <2>3. stage[k] \in Stages
    BY DEF PayInv, ClientTypes
  <2>4. \E u : Traces(k) \subseteq {u}
    BY <2>3 DEF FateInv, Fate, Stages, Silent, Waiting, AboutOne
  <2> QED
    BY <2>2, <2>4
<1> QED
  BY <1>1, FateInductive, PTL

(* The TxHandle send returns is on the network and in the ledger.          *)
THEOREM HandlesAreRecorded ==
    ASSUME "network" \notin RetryOn
    PROVE  PaySpec => []HandleIsRecorded
PROOF
<1>1. IInv /\ PayInv /\ FateInv => HandleIsRecorded
  <2> SUFFICES ASSUME IInv, PayInv, FateInv, NEW k \in Keys, stage[k] = "returned"
               PROVE  /\ Pays[outcome[k].signature] = k
                      /\ Seen(outcome[k].signature)
                      /\ rows[k].signature = outcome[k].signature
    BY DEF HandleIsRecorded
  <2>1. rows[k].signature = outcome[k].signature /\ outcome[k].signature \in Txs
    BY DEF FateInv, Fate
  <2>2. Recorded(rows, k)
    BY <2>1, NoneAssumption DEF Recorded
  <2> QED
    BY <2>1, <2>2 DEF IInv, RowInv, RecordedWasRelayed, PayInv, RecordedPays
<1> QED
  BY <1>1, FateInductive, PTL

(* A cancelled send moved nothing, nor did an attempt before it.           *)
THEOREM CancellingMovesNothing ==
    ASSUME "network" \notin RetryOn
    PROVE  PaySpec => []CancelledMovedNothing
PROOF
<1>1. FateInv => CancelledMovedNothing
  BY DEF FateInv, Fate, Silent, Traces, CancelledMovedNothing
<1> QED
  BY <1>1, FateInductive, PTL
===============================================================================
