-------------------------------- MODULE Gateway --------------------------------
(***************************************************************************)
(* The router (app.rs): request ids around everything (request_id.rs), the *)
(* rate limiter of RateLimit around API-key authentication (gateway/       *)
(* auth.rs) around the handlers of /v1, and /health beside them.  What a   *)
(* handler does is left to the other modules: it answers with some code.   *)
(***************************************************************************)
EXTENDS RateLimit

CONSTANTS
    Anonymous,  \* no authorization header, or one that is no text
    Envs,       \* values of XEND_API_KEYS: sequences of what the commas part
    GivenIds,   \* texts of x-request-id headers
    Codes,      \* what the handlers answer with
    MaxArrivals \* bound: requests

(* A header reads "<scheme> <key>", an entry of the environment "<key>";   *)
(* either may have more blanks around the key than it should.              *)
Headers == [scheme : {"Bearer", "Basic"}, key : STRING, padded : BOOLEAN]
Entries == [key : STRING, padded : BOOLEAN]

Uuid(r) == <<"uuid", r>>
Ids == GivenIds \cup {Uuid(r) : r \in Requests}
Replies == [id : Ids, code : Codes \cup {"rate_limited", "unauthorized"}]

ASSUME HeaderAssumption == Callers \ {Anonymous} \subseteq Headers
ASSUME EnvAssumption == Envs \subseteq Seq(Entries)
ASSUME IdAssumption == None \notin {Anonymous} \cup Ids \cup Replies

ASSUME ArrivalAssumption == MaxArrivals \in Nat

VARIABLES
    arrivals, \* requests so far
    keys,     \* the accepted keys, read at startup
    given,    \* the id each request came with, or None
    id,       \* the id it goes by, or None where there is no request
    header,   \* its authorization header, None for /health, which reads none
    inside,   \* requests in their handlers
    reply     \* the answers on their way out

gatewayVars == <<limiterVars, arrivals, keys, given, id, header, inside, reply>>

(* from_env: trimmed, and what is then empty is left out: a variable that  *)
(* is not set is one empty entry.  The variant leaves nothing out.         *)
EmptyKeyToo(env) == {env[j].key : j \in DOMAIN env}
ApiKeys(env) == {env[j].key : j \in DOMAIN env} \ {""}

(* is_authorized: no keys, no check; else a Bearer header with one of them *)
(* once trimmed.  The variant lets pass what has no header.                *)
NoHeaderPasses(h) ==
    \/ keys = {} \/ h = Anonymous
    \/ h.scheme = "Bearer" /\ h.key \in keys
IsAuthorized(h) ==
    \/ keys = {}
    \/ h # Anonymous /\ h.scheme = "Bearer" /\ h.key \in keys

GatewayInit ==
    /\ LimiterInit
    /\ arrivals = 0
    /\ \E env \in Envs : keys = ApiKeys(env)
    /\ given = [r \in Requests |-> None]
    /\ id = [r \in Requests |-> None]
    /\ header = [r \in Requests |-> None]
    /\ inside = {}
    /\ reply = [r \in Requests |-> None]

(* What propagate sets on the response, whoever has written it.  The       *)
(* variant sets the generated id only.                                     *)
OwnIds(r) == Uuid(r)
EchoedId(r) == id[r]
Respond(r, code) == reply' = [reply EXCEPT ![r] = [id |-> EchoedId(r), code |-> code]]

-------------------------------------------------------------------------------
(* propagate: the inbound id, or a new one. *)
Accept(r, given_id, h) ==
    /\ id[r] = None
    /\ arrivals < MaxArrivals /\ arrivals' = arrivals + 1
    /\ given' = [given EXCEPT ![r] = given_id]
    /\ id' = [id EXCEPT ![r] = IF given_id # None THEN given_id ELSE Uuid(r)]
    /\ header' = [header EXCEPT ![r] = h]

(* GET /health meets neither of the two other layers. *)
Health(r, given_id) ==
    /\ Accept(r, given_id, None)
    /\ inside' = inside \cup {r}
    /\ UNCHANGED <<limiterVars, keys, reply>>

Arrive(r, given_id, h) ==
    /\ Accept(r, given_id, h)
    /\ Enter(r, h)
    /\ UNCHANGED <<keys, inside, reply>>

(* enforce with record, and where the request passes require_api_key right *)
(* after it: neither awaits.                                               *)
Pass(r) ==
    /\ Record(r)
    /\ IF granted' = granted
         THEN Respond(r, "rate_limited") /\ UNCHANGED inside
         ELSE IF IsAuthorized(header[r])
              THEN inside' = inside \cup {r} /\ UNCHANGED reply
              ELSE Respond(r, "unauthorized") /\ UNCHANGED inside
    /\ UNCHANGED <<arrivals, keys, given, id, header>>

Answer(r, code) ==
    /\ r \in inside
    /\ inside' = inside \ {r}
    /\ Respond(r, code)
    /\ UNCHANGED <<limiterVars, arrivals, keys, given, id, header>>

(* The connection takes the next request: external. *)
Close(r) ==
    /\ reply[r] # None
    /\ given' = [given EXCEPT ![r] = None]
    /\ id' = [id EXCEPT ![r] = None]
    /\ header' = [header EXCEPT ![r] = None]
    /\ reply' = [reply EXCEPT ![r] = None]
    /\ UNCHANGED <<limiterVars, arrivals, keys, inside>>

GatewayTick == Tick /\ UNCHANGED <<arrivals, keys, given, id, header, inside, reply>>

GatewayNext ==
    \/ \E r \in Requests, given_id \in GivenIds \cup {None} :
         Health(r, given_id) \/ \E h \in Callers : Arrive(r, given_id, h)
    \/ \E r \in Requests : Pass(r) \/ Close(r) \/ \E code \in Codes : Answer(r, code)
    \/ GatewayTick

GatewaySpec == GatewayInit /\ [][GatewayNext]_gatewayVars

-------------------------------------------------------------------------------
(* The state is of its type, the limiter's included, and a request is in   *)
(* one place: in the limiter, in its handler or answered.                  *)
GatewayTypeOK ==
    /\ LimiterTypeOK
    /\ arrivals \in 0..MaxArrivals /\ "" \notin keys
    /\ given \in [Requests -> GivenIds \cup {None}]
    /\ id \in [Requests -> Ids \cup {None}]
    /\ header \in [Requests -> Callers \cup {None}]
    /\ reply \in [Requests -> Replies \cup {None}]
    /\ inside \subseteq Requests
    /\ \A r \in Requests :
         /\ (id[r] # None) <=> (caller[r] # None \/ r \in inside \/ reply[r] # None)
         /\ ~ (r \in inside /\ (reply[r] # None \/ caller[r] # None))
         /\ ~ (reply[r] # None /\ caller[r] # None)

(* A handler of /v1 only sees requests that are authenticated (gateway/    *)
(* mod.rs: "a handler only sees requests that are already authenticated    *)
(* and within budget"): where keys are configured, one that carries one of *)
(* them after the word Bearer.  /health is never refused, and whichever    *)
(* layer has written an answer, it goes out under the id the request came  *)
(* with, or under one that is its own.                                     *)
AnswerFitsRequest ==
    /\ \A r \in inside : header[r] # None =>
         /\ keys # {} => /\ header[r] # Anonymous
                         /\ header[r].scheme = "Bearer" /\ header[r].key \in keys
         /\ header[r] \in DOMAIN windows /\ windows[header[r]].count > 0
    /\ \A r \in Requests : reply[r] # None =>
         /\ reply[r].id = IF given[r] # None THEN given[r] ELSE Uuid(r)
         /\ header[r] = None => reply[r].code \in Codes

(* Nobody is refused for what others asked, or before the window has let   *)
(* Max requests of the same header through (rate_limit.rs, tests: "A       *)
(* different caller has an independent budget").                           *)
RefusedOnlyWhenSpent ==
    \A p \in refused :
      Cardinality({j \in DOMAIN granted[p.caller] : granted[p.caller][j] >= p.window}) >= Max
===============================================================================
