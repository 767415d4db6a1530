------------------------------ MODULE RateLimit ------------------------------
(***************************************************************************)
(* gateway/rate_limit.rs: the fixed-window limiter that every /v1 request  *)
(* passes first.  record reads the clock and then takes the mutex; between *)
(* the two the thread may be held up by others, so the time a request is   *)
(* judged by may be older than the window it is judged against.            *)
(*                                                                         *)
(* Time is counted in ticks, Second of them to a second.                   *)
(***************************************************************************)
EXTENDS Naturals, Sequences, FiniteSets

CONSTANTS
    Callers,   \* values of the authorization header, "anonymous" among them
    Requests,  \* requests in the limiter at a time
    Max,       \* RATE_LIMIT_PER_MINUTE
    Window,    \* the length of a window
    Second,    \* ticks to a second
    Stall,     \* the longest a request waits between the clock and the mutex
    Horizon,   \* bound: the last tick
    None

ASSUME LimitAssumption == Max \in Nat \ {0} /\ Window \in Nat \ {0}
(* The window is one of whole seconds (gateway/mod.rs: 60), and a stall is  *)
(* at most a second; the sum will do as well.                              *)
ASSUME TimeAssumption ==
    /\ Second \in Nat \ {0} /\ Horizon \in Nat /\ Stall \in Nat
    /\ (Window % Second) + Stall <= Second
ASSUME NoneAssumption == None \notin Callers

VARIABLES
    clock,     \* Instant::now()
    caller,    \* whose request each request in the limiter is
    now,       \* the time it has read
    windows,   \* the map behind the mutex
    granted,   \* history: when each caller was let through
    refused    \* history: the refusals by the window there is now, with the
               \* Retry-After each carries

limiterVars == <<clock, caller, now, windows, granted, refused>>

NoWindow == [started |-> 0, count |-> 0]
Windows == [started : 0..Horizon, count : 0..Max]

LimiterInit ==
    /\ clock = 0
    /\ caller = [r \in Requests |-> None]
    /\ now = [r \in Requests |-> 0]
    /\ windows = [c \in {} |-> NoWindow]
    /\ granted = [c \in Callers |-> <<>>]
    /\ refused = {}

(* Instant::duration_since saturates: a window that another request opened *)
(* after this one read the clock has lasted no time.                       *)
Since(t, started) == IF t > started THEN t - started ELSE 0

(* The window a request is counted in: the caller's, or a new one if there *)
(* is none or it has lasted long enough.  One variant forgets to move its  *)
(* start, the other has a window start with its opener counted, who is     *)
(* then counted again.                                                     *)
KeepStart(c, t) ==
    IF c \notin DOMAIN windows THEN [started |-> t, count |-> 0]
    ELSE IF Since(t, windows[c].started) >= Window
         THEN [windows[c] EXCEPT !.count = 0]
         ELSE windows[c]

CountsTheOpener(c, t) ==
    IF c \in DOMAIN windows /\ Since(t, windows[c].started) < Window
      THEN windows[c]
      ELSE [started |-> t, count |-> 1]

Current(c, t) ==
    IF c \in DOMAIN windows /\ Since(t, windows[c].started) < Window
      THEN windows[c]
      ELSE [started |-> t, count |-> 0]

(* The seconds to wait: what is left of the window in whole seconds, and   *)
(* one more.  The variant leaves out the one more.                         *)
WholeSeconds(t, started) == (Window - Since(t, started)) \div Second
RetryAfter(t, started) == (Window - Since(t, started)) \div Second + 1

(* The variant lets one request too many through. *)
OneTooMany(w) == w.count > Max
Exhausted(w) == w.count >= Max

(* enforce: the caller is read off the header, record reads the clock *)
Enter(r, c) ==
    /\ caller[r] = None
    /\ caller' = [caller EXCEPT ![r] = c]
    /\ now' = [now EXCEPT ![r] = clock]
    /\ UNCHANGED <<clock, windows, granted, refused>>

(* The critical section of record. *)
Record(r) ==
    LET c == caller[r]
        w == Current(c, now[r])
        Store(x) == windows' = [d \in DOMAIN windows \cup {c} |->
                                  IF d = c THEN x ELSE windows[d]]
    IN  /\ c # None
        /\ caller' = [caller EXCEPT ![r] = None]
        /\ now' = [now EXCEPT ![r] = 0]
        /\ \/ /\ Exhausted(w)
              /\ Store(w)
              /\ refused' = {p \in refused : p.caller = c => p.window = w.started} \cup
                   {[caller |-> c, window |-> w.started, at |-> now[r],
                     until |-> now[r] + Second * RetryAfter(now[r], w.started)]}
              /\ UNCHANGED granted
           \/ /\ ~ Exhausted(w)
              /\ Store([w EXCEPT !.count = @ + 1])
              /\ granted' = [granted EXCEPT ![c] = Append(@, clock)]
              /\ UNCHANGED refused
        /\ UNCHANGED clock

(* Time passes, but no request is held up for longer than Stall. *)
Tick ==
    /\ clock < Horizon
    /\ \A r \in Requests : caller[r] # None => clock - now[r] < Stall
    /\ clock' = clock + 1
    /\ UNCHANGED <<caller, now, windows, granted, refused>>

LimiterNext ==
    \/ \E r \in Requests, c \in Callers : Enter(r, c)
    \/ \E r \in Requests : Record(r)
    \/ Tick

LimiterSpec == LimiterInit /\ [][LimiterNext]_limiterVars

-------------------------------------------------------------------------------
(* The state is of its type; no window has counted more than Max, and none *)
(* starts in the future.                                                   *)
LimiterTypeOK ==
    /\ clock \in 0..Horizon
    /\ caller \in [Requests -> Callers \cup {None}]
    /\ now \in [Requests -> 0..clock]
    /\ DOMAIN windows \subseteq Callers
    /\ \A c \in DOMAIN windows : windows[c] \in Windows /\ windows[c].started <= clock
    /\ granted \in [Callers -> Seq(0..clock)]
    /\ \A p \in refused : p.caller \in Callers /\ p.at <= clock /\ p.until \in Nat

(* What the limiter really guarantees the handlers: in any stretch of time *)
(* no longer than a window less the longest stall, a caller is let through *)
(* at most twice Max times - once at the end of a window, once at the      *)
(* start of the next.                                                      *)
AtMostTwice ==
    \A c \in Callers : \A i, j \in DOMAIN granted[c] :
      i <= j /\ granted[c][j] - granted[c][i] < Window - Stall => j - i < 2 * Max

(* A caller that waits as long as its refusal says is not refused by that  *)
(* window again, although the seconds are rounded and the clock was read   *)
(* before the mutex was held.                                              *)
RetryAfterSuffices ==
    \A p, q \in refused :
      p.caller = q.caller /\ p.window = q.window => q.at < p.until
===============================================================================
