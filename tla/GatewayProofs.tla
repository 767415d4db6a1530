---------------------------- MODULE GatewayProofs ----------------------------
(***************************************************************************)
(* Theorems about RateLimit and Gateway, for any number of callers and     *)
(* requests, any limit, any window of whole seconds and any horizon.       *)
(***************************************************************************)
EXTENDS Gateway, FiniteSetTheorems, TLAPS

(* The grants in s from time t on. *)
From(s, t) == {j \in DOMAIN s : s[j] >= t}

(* Appending a grant adds it to those from t on, if it comes no earlier.   *)
LEMMA GrantAdds ==
    ASSUME NEW s \in Seq(Nat), NEW t \in Nat, NEW x \in Nat
    PROVE  /\ Cardinality(From(s, t)) \in Nat
           /\ x >= t => Cardinality(From(Append(s, x), t)) = Cardinality(From(s, t)) + 1
           /\ Cardinality(From(Append(s, x), t)) >= Cardinality(From(s, t))
PROOF
<1> DEFINE n == Len(s) + 1
<1>1. DOMAIN s = 1..Len(s) /\ Len(s) \in Nat
  OBVIOUS
<1>2. IsFiniteSet(From(s, t))
  <2>1. IsFiniteSet(1..Len(s))
    BY <1>1, FS_Interval
  <2> QED
    BY <1>1, <2>1, FS_Subset DEF From
<1>3. Cardinality(From(s, t)) \in Nat
  BY <1>2, FS_CardinalityType
<1>4. From(Append(s, x), t) = IF x >= t THEN From(s, t) \cup {n} ELSE From(s, t)
  BY <1>1 DEF From
<1>5. n \notin From(s, t)
  BY <1>1 DEF From
<1>6. Cardinality(From(s, t) \cup {n}) = Cardinality(From(s, t)) + 1
  BY <1>2, <1>5, FS_AddElement
<1> QED
  BY <1>3, <1>4, <1>6

(* Division with a remainder. *)
LEMMA Remainder ==
    ASSUME NEW a \in Nat, NEW b \in Nat, b > 0
    PROVE  a = b * (a \div b) + (a % b)
PROOF OBVIOUS

(* A Retry-After lasts until the window is over, although it is in whole   *)
(* seconds and the clock may have been read before the window was opened.  *)
LEMMA SecondsCover ==
    ASSUME NEW t \in Nat, NEW started \in Nat,
           Since(t, started) <= Window, started <= t + Stall
    PROVE  /\ RetryAfter(t, started) \in Nat
           /\ t + Second * RetryAfter(t, started) >= started + Window
PROOF
<1> DEFINE left == Window - Since(t, started)
           seconds == left \div Second
<1>1. left \in Nat /\ Window \in Nat /\ Stall \in Nat
  BY LimitAssumption, TimeAssumption DEF Since
<1>2. Second \in Nat /\ Second > 0
  BY TimeAssumption
<1>3. seconds \in Nat /\ left % Second \in 0..(Second - 1)
  BY <1>1, <1>2
<1>4. left = (Second * seconds) + (left % Second)
  BY <1>1, <1>2, Remainder
<1>5. Second * (seconds + 1) = (Second * seconds) + Second
  BY <1>2, <1>3
<1>6. RetryAfter(t, started) = seconds + 1
  BY DEF RetryAfter
<1>7. (t + Second * (seconds + 1)) >= (started + Window)
  <2> DEFINE product == Second * seconds
  <2>1. product \in Nat /\ Second * (seconds + 1) = product + Second /\ left = product + (left % Second)
    BY <1>2, <1>3, <1>4, <1>5
  <2>2. CASE t < started
    <3>1. left = Window
      BY <1>1, <2>2 DEF Since
    <3>2. (left % Second) + Stall <= Second
      BY <3>1, TimeAssumption
    <3> HIDE DEF left, seconds, product
    <3> QED
      BY <1>1, <1>2, <1>3, <2>1, <2>2, <3>1, <3>2
  <2>3. CASE t >= started
    <3>1. left = Window - (t - started)
      BY <1>1, <2>3 DEF Since
    <3> HIDE DEF left, seconds, product
    <3> QED
      BY <1>1, <1>2, <1>3, <2>1, <2>3, <3>1
  <2> QED
    BY <2>2, <2>3
<1> QED
  BY <1>3, <1>6, <1>7

-------------------------------------------------------------------------------
(* No request waits for the mutex longer than Stall. *)
Timely == \A r \in Requests : caller[r] # None => clock - now[r] <= Stall

(* What a window has counted, it has let through since it started. *)
CountInv ==
    \A c \in DOMAIN windows :
      Cardinality(From(granted[c], windows[c].started)) >= windows[c].count

(* A refusal falls into the window that was spent, and lasts until its end. *)
RefusalInv ==
    \A p \in refused :
      /\ p.window \in Nat /\ p.at \in Nat
      /\ p.at < p.window + Window /\ p.window + Window <= p.until
      /\ Cardinality(From(granted[p.caller], p.window)) >= Max

LimiterInv == LimiterTypeOK /\ Timely /\ CountInv /\ RefusalInv

(* Nobody has asked yet. *)
LEMMA InitLimiterInv == LimiterInit => LimiterInv
PROOF
<1> SUFFICES ASSUME LimiterInit PROVE LimiterInv
  OBVIOUS
<1>1. DOMAIN windows = {}
  BY DEF LimiterInit
<1> QED
  BY <1>1, TimeAssumption
     DEF LimiterInit, LimiterInv, LimiterTypeOK, Timely, CountInv, RefusalInv

(* The window a request is counted in is open, and started no more than a  *)
(* stall after the request read the clock.                                 *)
LEMMA CurrentWindow ==
    ASSUME LimiterInv, NEW r \in Requests, caller[r] # None
    PROVE  LET c == caller[r]
               w == Current(c, now[r])
           IN  /\ c \in Callers /\ now[r] \in 0..clock /\ clock \in 0..Horizon
               /\ w.started \in 0..clock /\ w.count \in 0..Max
               /\ w = [started |-> w.started, count |-> w.count]
               /\ w.started <= now[r] + Stall
               /\ Since(now[r], w.started) < Window
               /\ w.count > 0 => c \in DOMAIN windows /\ w = windows[c]
               /\ Cardinality(From(granted[c], w.started)) >= w.count
PROOF
<1> DEFINE c == caller[r]
           w == Current(c, now[r])
<1>1. c \in Callers /\ now[r] \in 0..clock /\ clock \in 0..Horizon /\ clock - now[r] <= Stall
  BY DEF LimiterInv, LimiterTypeOK, Timely
<1>2. Horizon \in Nat /\ Stall \in Nat /\ Window \in Nat /\ Window > 0 /\ Max \in Nat /\ Max > 0
  BY LimitAssumption, TimeAssumption
<1>3. granted[c] \in Seq(Nat)
  BY <1>1, <1>2 DEF LimiterInv, LimiterTypeOK
<1>4. CASE c \in DOMAIN windows /\ Since(now[r], windows[c].started) < Window
  <2>1. w = windows[c]
    BY <1>4 DEF Current
  <2>2. windows[c] \in Windows /\ windows[c].started <= clock
        /\ Cardinality(From(granted[c], windows[c].started)) >= windows[c].count
    BY <1>4 DEF LimiterInv, LimiterTypeOK, CountInv
  <2> QED
    BY <1>1, <1>2, <1>4, <2>1, <2>2 DEF Windows
<1>5. CASE ~ (c \in DOMAIN windows /\ Since(now[r], windows[c].started) < Window)
  <2>1. w = [started |-> now[r], count |-> 0]
    BY <1>5 DEF Current
  <2>2. Since(now[r], now[r]) = 0
    BY <1>1 DEF Since
  <2>3. Cardinality(From(granted[c], now[r])) \in Nat
    BY <1>1, <1>3, GrantAdds
  <2> QED
    BY <1>1, <1>2, <2>1, <2>2, <2>3
<1> QED
  BY <1>4, <1>5

(* A request enters with the time it is. *)
LEMMA EnterInv ==
    ASSUME LimiterInv, NEW r \in Requests, NEW c \in Callers, Enter(r, c)
    PROVE  LimiterInv'
PROOF
<1>1. clock \in Nat /\ Stall \in Nat /\ Horizon \in Nat
  BY TimeAssumption DEF LimiterInv, LimiterTypeOK
<1>2. LimiterTypeOK'
  BY <1>1 DEF Enter, LimiterInv, LimiterTypeOK
<1>3. Timely'
  BY <1>1 DEF Enter, LimiterInv, LimiterTypeOK, Timely
<1>4. CountInv' /\ RefusalInv'
  BY DEF Enter, LimiterInv, CountInv, RefusalInv
<1> QED
  BY <1>2, <1>3, <1>4 DEF LimiterInv

(* Time passes for nobody longer than Stall. *)
LEMMA TickInv ==
    ASSUME LimiterInv, Tick
    PROVE  LimiterInv'
PROOF
<1>1. clock \in Nat /\ Stall \in Nat /\ Horizon \in Nat
  BY TimeAssumption DEF LimiterInv, LimiterTypeOK
<1>2. LimiterTypeOK'
  <2>1. granted' \in [Callers -> Seq(0..clock')]
    BY <1>1 DEF Tick, LimiterInv, LimiterTypeOK
  <2>2. now' \in [Requests -> 0..clock']
    BY <1>1 DEF Tick, LimiterInv, LimiterTypeOK
  <2>3. \A c \in DOMAIN windows' : windows'[c] \in Windows /\ windows'[c].started <= clock'
    BY <1>1 DEF Tick, LimiterInv, LimiterTypeOK, Windows
  <2>4. \A p \in refused' : p.caller \in Callers /\ p.at <= clock' /\ p.until \in Nat
    BY <1>1 DEF Tick, LimiterInv, LimiterTypeOK, RefusalInv
  <2> QED
    BY <1>1, <2>1, <2>2, <2>3, <2>4 DEF Tick, LimiterInv, LimiterTypeOK
<1>3. Timely'
  BY <1>1 DEF Tick, LimiterInv, LimiterTypeOK, Timely
<1>4. CountInv' /\ RefusalInv'
  BY DEF Tick, LimiterInv, CountInv, RefusalInv
<1> QED
  BY <1>2, <1>3, <1>4 DEF LimiterInv

(* A request is refused only in a window that has let Max through, and for *)
(* as long as that window lasts; one that is let through is counted.       *)
LEMMA RecordInv ==
    ASSUME LimiterInv, NEW r \in Requests, Record(r)
    PROVE  LimiterInv'
PROOF
<1> DEFINE c == caller[r]
           t == now[r]
           w == Current(c, t)
           stored(x) == [d \in DOMAIN windows \cup {c} |-> IF d = c THEN x ELSE windows[d]]
<1>1. caller[r] # None
  BY DEF Record
<1>2. /\ c \in Callers /\ t \in 0..clock /\ clock \in 0..Horizon
      /\ w.started \in 0..clock /\ w.count \in 0..Max
      /\ w = [started |-> w.started, count |-> w.count]
      /\ w.started <= t + Stall
      /\ Since(t, w.started) < Window
      /\ w.count > 0 => c \in DOMAIN windows /\ w = windows[c]
      /\ Cardinality(From(granted[c], w.started)) >= w.count
  BY <1>1, CurrentWindow
<1>3. Horizon \in Nat /\ Stall \in Nat /\ Window \in Nat /\ Max \in Nat /\ Max > 0
  BY LimitAssumption, TimeAssumption
<1>4. /\ caller' = [caller EXCEPT ![r] = None] /\ now' = [now EXCEPT ![r] = 0]
      /\ clock' = clock
  BY DEF Record
<1>5. /\ clock' \in 0..Horizon /\ caller' \in [Requests -> Callers \cup {None}]
      /\ now' \in [Requests -> 0..clock'] /\ Timely'
  BY <1>2, <1>3, <1>4 DEF LimiterInv, LimiterTypeOK, Timely
<1>6. CASE Exhausted(w) /\ windows' = stored(w) /\ granted' = granted
           /\ refused' = {p \in refused : p.caller = c => p.window = w.started} \cup
                {[caller |-> c, window |-> w.started, at |-> t,
                  until |-> t + Second * RetryAfter(t, w.started)]}
  <2>1. w.count = Max
    BY <1>2, <1>3, <1>6 DEF Exhausted
  <2>2. c \in DOMAIN windows /\ w = windows[c]
    BY <1>2, <1>3, <2>1
  <2>3. windows' = [d \in DOMAIN windows |-> windows[d]]
    BY <1>6, <2>2
  <2>4. RetryAfter(t, w.started) \in Nat /\ t + Second * RetryAfter(t, w.started) >= w.started + Window
    <3>1. t \in Nat /\ w.started \in Nat /\ Since(t, w.started) <= Window
      BY <1>2, <1>3 DEF Since
    <3> QED
      BY <1>2, <3>1, SecondsCover
  <2>5. Second * RetryAfter(t, w.started) \in Nat
    BY <2>4, TimeAssumption
  <2>6. t < w.started + Window
    BY <1>2, <1>3 DEF Since
  <2> DEFINE q == [caller |-> c, window |-> w.started, at |-> t,
                   until |-> t + Second * RetryAfter(t, w.started)]
  <2>7. /\ q.caller \in Callers /\ q.at <= clock /\ q.until \in Nat /\ q.window \in Nat
        /\ q.at \in Nat /\ q.at < q.window + Window /\ q.window + Window <= q.until
        /\ Cardinality(From(granted[q.caller], q.window)) >= Max
    BY <1>2, <1>3, <2>1, <2>4, <2>5, <2>6
  <2>8. \A p \in refused' : p \in refused \/ p = q
    BY <1>6
  <2> HIDE DEF q, w, c, t
  <2>9. RefusalInv' /\ (\A p \in refused' : p.caller \in Callers /\ p.at <= clock' /\ p.until \in Nat)
    BY <1>4, <1>6, <2>7, <2>8 DEF LimiterInv, LimiterTypeOK, RefusalInv
  <2>10. LimiterTypeOK'
    BY <1>4, <1>5, <1>6, <2>3, <2>9 DEF LimiterInv, LimiterTypeOK
  <2>11. CountInv'
    BY <1>6, <2>3 DEF LimiterInv, CountInv
  <2> QED
    BY <1>5, <2>9, <2>10, <2>11 DEF LimiterInv
<1>7. CASE ~ Exhausted(w) /\ windows' = stored([w EXCEPT !.count = @ + 1])
           /\ granted' = [granted EXCEPT ![c] = Append(@, clock)] /\ refused' = refused
  <2> DEFINE x == [started |-> w.started, count |-> w.count + 1]
  <2>1. [w EXCEPT !.count = @ + 1] = x
    BY <1>2
  <2>2. w.count < Max
    BY <1>2, <1>3, <1>7 DEF Exhausted
  <2>3. x \in Windows /\ x.started = w.started /\ x.count = w.count + 1
    BY <1>2, <1>3, <2>2 DEF Windows
  <2>4. DOMAIN windows' = DOMAIN windows \cup {c}
        /\ \A d \in DOMAIN windows' : windows'[d] = IF d = c THEN x ELSE windows[d]
    BY <1>7, <2>1
  <2>5. granted \in [Callers -> Seq(0..clock)] /\ granted[c] \in Seq(Nat) /\ clock \in Nat
    BY <1>2, <1>3 DEF LimiterInv, LimiterTypeOK
  <2>6. granted'[c] = Append(granted[c], clock) /\ \A d \in Callers \ {c} : granted'[d] = granted[d]
    BY <1>2, <1>7, <2>5
  <2>7. granted' \in [Callers -> Seq(0..clock')]
    <3>1. Append(granted[c], clock) \in Seq(0..clock)
      BY <1>2, <2>5
    <3> QED
      BY <1>2, <1>4, <1>7, <2>5, <3>1
  <2>8. LimiterTypeOK'
    <3>1. DOMAIN windows' \subseteq Callers
      BY <1>2, <2>4 DEF LimiterInv, LimiterTypeOK
    <3>2. \A d \in DOMAIN windows' : windows'[d] \in Windows /\ windows'[d].started <= clock'
      BY <1>2, <1>3, <1>4, <2>3, <2>4 DEF LimiterInv, LimiterTypeOK
    <3> QED
      BY <1>4, <1>5, <1>7, <2>7, <3>1, <3>2 DEF LimiterInv, LimiterTypeOK
  <2>9. \A d \in Callers : \A from \in Nat :
           Cardinality(From(granted'[d], from)) >= Cardinality(From(granted[d], from))
    <3> SUFFICES ASSUME NEW d \in Callers, NEW from \in Nat
                 PROVE  Cardinality(From(granted'[d], from)) >= Cardinality(From(granted[d], from))
      OBVIOUS
    <3>1. granted[d] \in Seq(Nat)
      BY <1>3, <2>5
    <3>2. Cardinality(From(granted[d], from)) \in Nat
      BY <2>5, <3>1, GrantAdds
    <3>3. CASE d = c
      BY <2>5, <2>6, <3>3, GrantAdds
    <3>4. CASE d # c
      BY <2>6, <3>2, <3>4
    <3> QED
      BY <3>3, <3>4
  <2>10. Cardinality(From(granted'[c], w.started)) >= w.count + 1
    <3>1. w.started \in Nat /\ clock >= w.started /\ w.count \in Nat
      BY <1>2, <1>3
    <3> DEFINE from == w.started
    <3> HIDE DEF w, c, from
    <3>2. /\ Cardinality(From(granted[c], from)) \in Nat
          /\ Cardinality(From(Append(granted[c], clock), from)) = Cardinality(From(granted[c], from)) + 1
      <4>1. from \in Nat /\ clock >= from
        BY <3>1 DEF from
      <4> QED
        BY <2>5, <4>1, GrantAdds
    <3>3. Cardinality(From(granted'[c], from)) = Cardinality(From(granted[c], from)) + 1
      BY <2>6, <3>2
    <3>4. Cardinality(From(granted[c], from)) >= w.count
      BY <1>2 DEF from
    <3> QED
      BY <3>1, <3>2, <3>3, <3>4 DEF from
  <2> HIDE DEF w, c, t, x
  <2>11. CountInv'
    <3> SUFFICES ASSUME NEW d \in DOMAIN windows'
                 PROVE  Cardinality(From(granted'[d], windows'[d].started)) >= windows'[d].count
      BY DEF CountInv
    <3>1. CASE d = c
      BY <2>3, <2>4, <2>10, <3>1
    <3>2. CASE d # c
      <4>1. d \in DOMAIN windows /\ windows'[d] = windows[d] /\ d \in Callers
        BY <2>4, <3>2 DEF LimiterInv, LimiterTypeOK
      <4>2. Cardinality(From(granted[d], windows[d].started)) >= windows[d].count
        BY <4>1 DEF LimiterInv, CountInv
      <4> QED
        BY <2>6, <3>2, <4>1, <4>2
    <3> QED
      BY <3>1, <3>2
  <2>12. RefusalInv'
    <3> SUFFICES ASSUME NEW p \in refused
                 PROVE  Cardinality(From(granted'[p.caller], p.window)) >= Max
      BY <1>7 DEF LimiterInv, RefusalInv
    <3>1. p.caller \in Callers /\ p.window \in Nat
          /\ Cardinality(From(granted[p.caller], p.window)) >= Max
      BY DEF LimiterInv, LimiterTypeOK, RefusalInv
    <3>2. granted[p.caller] \in Seq(Nat) /\ granted'[p.caller] \in Seq(Nat)
      BY <1>2, <1>3, <1>4, <2>5, <2>7, <3>1
    <3>3. Cardinality(From(granted[p.caller], p.window)) \in Nat
          /\ Cardinality(From(granted'[p.caller], p.window)) \in Nat
      BY <2>5, <3>1, <3>2, GrantAdds
    <3> QED
      BY <1>3, <2>9, <3>1, <3>3
  <2> QED
    BY <1>5, <2>8, <2>11, <2>12 DEF LimiterInv
<1> QED
  BY <1>6, <1>7 DEF Record

(* The invariant, step by step. *)
LEMMA LimiterStep == LimiterInv /\ [LimiterNext]_limiterVars => LimiterInv'
PROOF
<1> SUFFICES ASSUME LimiterInv, [LimiterNext]_limiterVars
             PROVE  LimiterInv'
  OBVIOUS
<1>1. CASE UNCHANGED limiterVars
  BY <1>1 DEF limiterVars, LimiterInv, LimiterTypeOK, Timely, CountInv, RefusalInv
<1> QED
  BY <1>1, EnterInv, RecordInv, TickInv DEF LimiterNext

(* What the two properties of the limiter say follows from the invariant. *)
LEMMA LimiterPromises == LimiterInv => RetryAfterSuffices /\ RefusedOnlyWhenSpent
PROOF
<1> SUFFICES ASSUME LimiterInv
             PROVE  RetryAfterSuffices /\ RefusedOnlyWhenSpent
  OBVIOUS
<1>1. RetryAfterSuffices
  BY LimitAssumption DEF RetryAfterSuffices, LimiterInv, LimiterTypeOK, RefusalInv
<1>2. RefusedOnlyWhenSpent
  BY DEF RefusedOnlyWhenSpent, LimiterInv, RefusalInv, From
<1> QED
  BY <1>1, <1>2

-------------------------------------------------------------------------------
(* The last k grants of s are the ones of a window; those from before it   *)
(* are no later than a stall after its start, and as the window before it  *)
(* held Max at most, those from before that one are a whole window older.  *)
EndsWith(s, k, started) ==
    LET before == Len(s) - k
    IN  /\ before >= 0
        /\ \A i \in 1..before : s[i] <= started + Stall
        /\ \A i \in 1..(before - Max) : s[i] + Window <= started + Stall

(* What AtMostTwice says of the grants of one caller. *)
Spread(s) ==
    \A i, j \in DOMAIN s : i <= j /\ s[j] - s[i] < Window - Stall => j - i < 2 * Max

BurstInv ==
    /\ \A c \in Callers \ DOMAIN windows : granted[c] = <<>>
    /\ \A c \in DOMAIN windows : EndsWith(granted[c], windows[c].count, windows[c].started)
    /\ \A c \in Callers : Spread(granted[c])

(* One more grant in a window that is not exhausted. *)
LEMMA GrantSpreads ==
    ASSUME NEW s \in Seq(Nat), NEW k \in Nat, NEW started \in Nat, NEW x \in Nat,
           k < Max, started <= x, EndsWith(s, k, started), Spread(s)
    PROVE  EndsWith(Append(s, x), k + 1, started) /\ Spread(Append(s, x))
PROOF
<1> DEFINE n == Len(s)
           q == Append(s, x)
<1>1. /\ Max \in Nat /\ Max > 0 /\ Window \in Nat /\ Stall \in Nat
  BY LimitAssumption, TimeAssumption
<1>2. /\ n \in Nat /\ DOMAIN s = 1..n /\ DOMAIN q = 1..(n + 1) /\ Len(q) = n + 1
      /\ q[n + 1] = x /\ \A i \in 1..n : q[i] = s[i] /\ s[i] \in Nat
  OBVIOUS
<1>3. /\ n - k >= 0
      /\ \A i \in 1..(n - k) : s[i] <= started + Stall
      /\ \A i \in 1..((n - k) - Max) : s[i] + Window <= started + Stall
  BY DEF EndsWith
<1> HIDE DEF n, q
<1>4. EndsWith(q, k + 1, started)
  <2>1. Len(q) - (k + 1) = n - k /\ n - k <= n
    BY <1>2
  <2> QED
    BY <1>1, <1>2, <1>3, <2>1 DEF EndsWith
<1>5. Spread(q)
  <2> SUFFICES ASSUME NEW i \in 1..(n + 1), NEW j \in 1..(n + 1), i <= j,
                      q[j] - q[i] < Window - Stall
               PROVE  j - i < 2 * Max
    BY <1>2 DEF Spread
  <2>1. CASE j <= n
    <3>1. i \in 1..n /\ j \in 1..n
      BY <1>2, <2>1
    <3> QED
      BY <1>2, <3>1 DEF Spread
  <2>2. CASE j = n + 1 /\ j - i >= 2 * Max
    <3>1. i \in 1..((n - k) - Max) /\ i \in 1..n
      BY <1>1, <1>2, <2>2
    <3>2. s[i] + Window <= started + Stall /\ q[i] = s[i] /\ s[i] \in Nat
      BY <1>2, <1>3, <3>1
    <3> QED
      BY <1>1, <1>2, <2>2, <3>2
  <2> QED
    BY <1>1, <1>2, <2>1, <2>2
<1> QED
  BY <1>4, <1>5 DEF q

(* A window that is opened a whole window after the one before it. *)
LEMMA OpeningSpreads ==
    ASSUME NEW s \in Seq(Nat), NEW k \in Nat, NEW started \in Nat, NEW t \in Nat,
           k <= Max, started + Window <= t, EndsWith(s, k, started),
           \A i \in 1..Len(s) : s[i] <= t + Stall
    PROVE  EndsWith(s, 0, t)
PROOF
<1>1. /\ Max \in Nat /\ Window \in Nat /\ Stall \in Nat /\ Len(s) \in Nat
      /\ \A i \in 1..Len(s) : s[i] \in Nat
  BY LimitAssumption, TimeAssumption
<1>2. \A i \in 1..(Len(s) - Max) : i \in 1..(Len(s) - k) /\ i \in 1..Len(s)
  BY <1>1
<1>3. \A i \in 1..(Len(s) - Max) : s[i] + Window <= t + Stall
  BY <1>1, <1>2 DEF EndsWith
<1>4. Len(s) - 0 = Len(s)
  BY <1>1
<1> QED
  BY <1>1, <1>3, <1>4 DEF EndsWith

(* The window a request is counted in ends the grants of its caller. *)
LEMMA CurrentEnds ==
    ASSUME LimiterInv, BurstInv, NEW r \in Requests, caller[r] # None
    PROVE  LET w == Current(caller[r], now[r])
           IN  EndsWith(granted[caller[r]], w.count, w.started)
PROOF
<1>1. PICK c : c = caller[r]
  OBVIOUS
<1>2. PICK t : t = now[r]
  OBVIOUS
<1>3. /\ c \in Callers /\ clock \in Nat /\ t \in Nat /\ Stall \in Nat /\ Max \in Nat
      /\ clock <= t + Stall /\ granted[c] \in Seq(Nat)
      /\ \A i \in 1..Len(granted[c]) : granted[c][i] \in 0..clock
  BY <1>1, <1>2, LimitAssumption, TimeAssumption DEF LimiterInv, LimiterTypeOK, Timely
<1>4. CASE c \in DOMAIN windows /\ Since(t, windows[c].started) < Window
  <2>1. Current(c, t) = windows[c]
    BY <1>4 DEF Current
  <2> QED
    BY <1>1, <1>2, <1>4, <2>1 DEF BurstInv
<1>5. CASE ~ (c \in DOMAIN windows /\ Since(t, windows[c].started) < Window)
  <2>1. Current(c, t) = [started |-> t, count |-> 0]
    BY <1>5 DEF Current
  <2>2. \A i \in 1..Len(granted[c]) : granted[c][i] <= t + Stall
    BY <1>3
  <2>3. CASE c \notin DOMAIN windows
    <3>1. granted[c] = <<>>
      BY <1>3, <2>3 DEF BurstInv
    <3>2. EndsWith(<<>>, 0, t)
      BY <1>3 DEF EndsWith
    <3> QED
      BY <1>1, <1>2, <2>1, <3>1, <3>2
  <2>4. CASE c \in DOMAIN windows
    <3>1. windows[c].started \in Nat /\ windows[c].count \in Nat /\ windows[c].count <= Max
      BY <1>3, <2>4, TimeAssumption DEF LimiterInv, LimiterTypeOK, Windows
    <3>2. windows[c].started + Window <= t
      BY <1>3, <1>5, <2>4, <3>1, LimitAssumption DEF Since
    <3>3. EndsWith(granted[c], windows[c].count, windows[c].started)
      BY <2>4 DEF BurstInv
    <3>4. EndsWith(granted[c], 0, t)
      BY <1>3, <2>2, <3>1, <3>2, <3>3, OpeningSpreads
    <3> QED
      BY <1>1, <1>2, <2>1, <3>4
  <2> QED
    BY <2>3, <2>4
<1> QED
  BY <1>4, <1>5

(* A grant adds itself to the current window or opens one. *)
LEMMA BurstStep ==
    ASSUME LimiterInv, BurstInv, NEW r \in Requests, Record(r)
    PROVE  BurstInv'
PROOF
<1>1. caller[r] # None
  BY DEF Record
<1>2. PICK c : c = caller[r]
  OBVIOUS
<1>3. PICK w : w = Current(c, now[r])
  OBVIOUS
<1>4. /\ c \in Callers /\ clock \in 0..Horizon
      /\ w.started \in 0..clock /\ w.count \in 0..Max
      /\ w = [started |-> w.started, count |-> w.count]
      /\ w.count > 0 => c \in DOMAIN windows /\ w = windows[c]
  BY <1>1, <1>2, <1>3, CurrentWindow
<1>5. EndsWith(granted[c], w.count, w.started)
  BY <1>1, <1>2, <1>3, CurrentEnds
<1>6. Horizon \in Nat /\ Max \in Nat /\ Max > 0
  BY LimitAssumption, TimeAssumption
<1>7. CASE Exhausted(w) /\ granted' = granted
           /\ windows' = [d \in DOMAIN windows \cup {c} |-> IF d = c THEN w ELSE windows[d]]
  <2>1. c \in DOMAIN windows /\ w = windows[c]
    BY <1>4, <1>6, <1>7 DEF Exhausted
  <2>2. DOMAIN windows' = DOMAIN windows /\ \A d \in DOMAIN windows : windows'[d] = windows[d]
    BY <1>7, <2>1
  <2> QED
    BY <1>7, <2>2 DEF BurstInv
<1>8. CASE ~ Exhausted(w) /\ granted' = [granted EXCEPT ![c] = Append(@, clock)]
           /\ windows' = [d \in DOMAIN windows \cup {c} |->
                            IF d = c THEN [w EXCEPT !.count = @ + 1] ELSE windows[d]]
  <2>1. w.count < Max /\ w.count \in Nat /\ w.started \in Nat /\ w.started <= clock /\ clock \in Nat
    BY <1>4, <1>6, <1>8 DEF Exhausted
  <2>2. /\ DOMAIN windows' = DOMAIN windows \cup {c}
        /\ windows'[c].started = w.started /\ windows'[c].count = w.count + 1
        /\ \A d \in DOMAIN windows \ {c} : windows'[d] = windows[d]
    BY <1>4, <1>8
  <2>3. granted \in [Callers -> Seq(0..clock)] /\ granted[c] \in Seq(Nat)
    BY <1>4, <1>6 DEF LimiterInv, LimiterTypeOK
  <2>4. granted'[c] = Append(granted[c], clock) /\ \A d \in Callers \ {c} : granted'[d] = granted[d]
    BY <1>4, <1>8, <2>3
  <2>5. EndsWith(granted'[c], windows'[c].count, windows'[c].started) /\ Spread(granted'[c])
    BY <1>4, <1>5, <2>1, <2>2, <2>3, <2>4, GrantSpreads DEF BurstInv
  <2>6. DOMAIN windows \subseteq Callers
    BY DEF LimiterInv, LimiterTypeOK
  <2> QED
    BY <1>4, <2>2, <2>4, <2>5, <2>6 DEF BurstInv
<1> QED
  BY <1>2, <1>3, <1>7, <1>8 DEF Record

(* The steps that are no grants change nothing of it. *)
LEMMA BurstInvStep ==
    ASSUME LimiterInv, BurstInv, [LimiterNext]_limiterVars
    PROVE  BurstInv'
PROOF
<1>1. ASSUME UNCHANGED <<windows, granted>>
      PROVE  BurstInv'
  BY <1>1 DEF BurstInv
<1> QED
  BY <1>1, BurstStep DEF LimiterNext, limiterVars, Enter, Tick

-------------------------------------------------------------------------------
(* For the handlers behind it the gateway is the limiter: each of its      *)
(* steps is one of the limiter's or leaves the limiter alone.              *)
LEMMA GatewayIsLimiter == [GatewayNext]_gatewayVars => [LimiterNext]_limiterVars
PROOF
BY DEF GatewayNext, gatewayVars, LimiterNext, Health, Arrive, Pass, Answer, Close, GatewayTick

(* The limiter keeps its invariant, alone and behind the other layers. *)
THEOREM LimiterSafety == GatewaySpec => []LimiterInv
PROOF
<1>1. GatewayInit => LimiterInv
  BY InitLimiterInv DEF GatewayInit
<1>2. LimiterInv /\ [GatewayNext]_gatewayVars => LimiterInv'
  BY LimiterStep, GatewayIsLimiter
<1> QED
  BY <1>1, <1>2, PTL DEF GatewaySpec

(* A caller that waits as long as it was told is not refused by the same   *)
(* window again.                                                           *)
THEOREM WaitingSuffices == GatewaySpec => []RetryAfterSuffices
PROOF BY LimiterSafety, LimiterPromises, PTL

(* A refusal means that the window has let Max requests of its caller pass. *)
THEOREM RefusalsAreEarned == GatewaySpec => []RefusedOnlyWhenSpent
PROOF BY LimiterSafety, LimiterPromises, PTL

(* In any stretch of time a stall shorter than a window, a caller is let   *)
(* through at most twice Max times.                                        *)
THEOREM BurstsAreBounded == GatewaySpec => []AtMostTwice
PROOF
<1>1. GatewayInit => BurstInv
  BY DEF GatewayInit, LimiterInit, BurstInv, Spread
<1>2. LimiterInv /\ BurstInv /\ [GatewayNext]_gatewayVars => BurstInv'
  BY BurstInvStep, GatewayIsLimiter
<1>3. BurstInv => AtMostTwice
  BY DEF BurstInv, AtMostTwice, Spread
<1> QED
  BY <1>1, <1>2, <1>3, LimiterSafety, PTL DEF GatewaySpec

-------------------------------------------------------------------------------
(* What a request takes along: the header it is judged by and the id it    *)
(* goes by.  A window that is there has counted someone.                   *)
Named(r) == IF given[r] # None THEN given[r] ELSE Uuid(r)
Carried ==
    \A r \in Requests : /\ caller[r] # None => header[r] = caller[r]
                        /\ id[r] # None => id[r] = Named(r)
Counted == \A c \in DOMAIN windows : windows[c].count > 0

(* AnswerFitsRequest, of a request in its handler and of an answer. *)
Admitted(r) ==
    header[r] # None =>
      /\ keys # {} => /\ header[r] # Anonymous
                      /\ header[r].scheme = "Bearer" /\ header[r].key \in keys
      /\ header[r] \in DOMAIN windows /\ windows[header[r]].count > 0
Fitting(r) ==
    reply[r] # None => /\ reply[r].id = Named(r)
                       /\ header[r] = None => reply[r].code \in Codes

(* AnswerFitsRequest, request by request.                                  *)
LEMMA FitsByParts ==
    /\ AnswerFitsRequest <=> (\A r \in inside : Admitted(r)) /\ (\A r \in Requests : Fitting(r))
    /\ AnswerFitsRequest' <=> (\A r \in inside' : Admitted(r)') /\ (\A r \in Requests : Fitting(r)')
PROOF BY DEF AnswerFitsRequest, Admitted, Fitting, Named

GatewayInv == LimiterInv /\ GatewayTypeOK /\ Carried /\ Counted /\ AnswerFitsRequest

(* The server starts with no request. *)
LEMMA InitGatewayInv == GatewayInit => GatewayInv
PROOF
<1> SUFFICES ASSUME GatewayInit PROVE GatewayInv
  OBVIOUS
<1>1. LimiterInv
  BY InitLimiterInv DEF GatewayInit
<1>2. "" \notin keys
  BY DEF GatewayInit, ApiKeys
<1>3. GatewayTypeOK
  <2>1. arrivals \in 0..MaxArrivals
    BY ArrivalAssumption DEF GatewayInit
  <2>2. \A r \in Requests : caller[r] = None /\ id[r] = None /\ reply[r] = None /\ r \notin inside
    BY DEF GatewayInit, LimiterInit
  <2> QED
    BY <1>1, <1>2, <2>1, <2>2 DEF GatewayInit, GatewayTypeOK, LimiterInv
<1>4. DOMAIN windows = {}
  BY DEF GatewayInit, LimiterInit
<1> QED
  BY <1>1, <1>3, <1>4
     DEF GatewayInit, LimiterInit, GatewayInv, Carried, Counted, AnswerFitsRequest

(* A request is given its own id or a new one. *)
LEMMA AcceptInv ==
    ASSUME GatewayInv, NEW r \in Requests, NEW g \in GivenIds \cup {None},
           NEW h \in Callers \cup {None}, Accept(r, g, h)
    PROVE  /\ arrivals' \in 0..MaxArrivals
           /\ given' \in [Requests -> GivenIds \cup {None}]
           /\ id' \in [Requests -> Ids \cup {None}]
           /\ header' \in [Requests -> Callers \cup {None}]
           /\ id'[r] # None /\ header'[r] = h /\ id'[r] = Named(r)'
           /\ caller[r] = None /\ reply[r] = None /\ r \notin inside
           /\ \A q \in Requests \ {r} :
                given'[q] = given[q] /\ id'[q] = id[q] /\ header'[q] = header[q]
PROOF
<1>1. Uuid(r) \in Ids /\ GivenIds \subseteq Ids /\ None \notin Ids
  BY IdAssumption DEF Ids
<1>2. arrivals' \in 0..MaxArrivals
  <2>1. arrivals \in 0..MaxArrivals /\ arrivals < MaxArrivals /\ arrivals' = arrivals + 1
    BY DEF Accept, GatewayInv, GatewayTypeOK
  <2> QED
    BY <2>1, ArrivalAssumption
<1>3. /\ given' = [given EXCEPT ![r] = g] /\ header' = [header EXCEPT ![r] = h]
      /\ id' = [id EXCEPT ![r] = IF g # None THEN g ELSE Uuid(r)] /\ id[r] = None
  BY DEF Accept
<1> QED
  BY <1>1, <1>2, <1>3 DEF GatewayInv, GatewayTypeOK, Named, Uuid

(* A probe goes straight to its handler. *)
LEMMA HealthInv ==
    ASSUME GatewayInv, NEW r \in Requests, NEW g \in GivenIds \cup {None}, Health(r, g)
    PROVE  GatewayTypeOK' /\ Carried' /\ Counted' /\ AnswerFitsRequest'
PROOF
<1>1. Accept(r, g, None) /\ inside' = inside \cup {r} /\ UNCHANGED <<limiterVars, keys, reply>>
  BY DEF Health
<1>2. /\ arrivals' \in 0..MaxArrivals
      /\ given' \in [Requests -> GivenIds \cup {None}]
      /\ id' \in [Requests -> Ids \cup {None}]
      /\ header' \in [Requests -> Callers \cup {None}]
      /\ id'[r] # None /\ header'[r] = None /\ id'[r] = Named(r)'
      /\ caller[r] = None /\ reply[r] = None /\ r \notin inside
      /\ \A q \in Requests \ {r} :
           given'[q] = given[q] /\ id'[q] = id[q] /\ header'[q] = header[q]
  BY <1>1, AcceptInv
<1>3. LimiterTypeOK'
  BY <1>1 DEF GatewayInv, GatewayTypeOK, LimiterTypeOK, limiterVars
<1>4. GatewayTypeOK'
  BY <1>1, <1>2, <1>3 DEF GatewayInv, GatewayTypeOK, limiterVars
<1>5. Carried' /\ Counted'
  BY <1>1, <1>2 DEF GatewayInv, Carried, Counted, Named, Uuid, limiterVars
<1>6. AnswerFitsRequest'
  <2>1. windows' = windows /\ keys' = keys /\ reply' = reply
    BY <1>1 DEF limiterVars
  <2>2. \A q \in inside' : Admitted(q)'
    BY <1>1, <1>2, <2>1, FitsByParts DEF GatewayInv, GatewayTypeOK, Admitted
  <2>3. \A q \in Requests : Fitting(q)'
    BY <1>2, <2>1, FitsByParts DEF GatewayInv, Fitting, Named, Uuid
  <2> QED
    BY <2>2, <2>3, FitsByParts
<1> QED
  BY <1>4, <1>5, <1>6

(* A request of /v1 goes to the limiter, with its header. *)
LEMMA ArriveInv ==
    ASSUME GatewayInv, NEW r \in Requests, NEW g \in GivenIds \cup {None}, NEW h \in Callers,
           Arrive(r, g, h), LimiterInv'
    PROVE  GatewayTypeOK' /\ Carried' /\ Counted' /\ AnswerFitsRequest'
PROOF
<1>1. Accept(r, g, h) /\ Enter(r, h) /\ UNCHANGED <<keys, inside, reply>>
  BY DEF Arrive
<1>2. /\ arrivals' \in 0..MaxArrivals
      /\ given' \in [Requests -> GivenIds \cup {None}]
      /\ id' \in [Requests -> Ids \cup {None}]
      /\ header' \in [Requests -> Callers \cup {None}]
      /\ id'[r] # None /\ header'[r] = h /\ id'[r] = Named(r)'
      /\ caller[r] = None /\ reply[r] = None /\ r \notin inside
      /\ \A q \in Requests \ {r} :
           given'[q] = given[q] /\ id'[q] = id[q] /\ header'[q] = header[q]
  BY <1>1, AcceptInv
<1>3. caller' = [caller EXCEPT ![r] = h] /\ windows' = windows
  BY <1>1 DEF Enter
<1>4. caller'[r] = h /\ h # None /\ \A q \in Requests \ {r} : caller'[q] = caller[q]
  BY <1>3, NoneAssumption DEF GatewayInv, LimiterInv, LimiterTypeOK
<1>5. GatewayTypeOK'
  BY <1>1, <1>2, <1>4 DEF GatewayInv, GatewayTypeOK, LimiterInv
<1>6. Carried' /\ Counted'
  BY <1>2, <1>3, <1>4 DEF GatewayInv, Carried, Counted, Named, Uuid
<1>7. AnswerFitsRequest'
  <2>1. \A q \in inside' : Admitted(q)'
    BY <1>1, <1>2, <1>3, FitsByParts DEF GatewayInv, GatewayTypeOK, Admitted
  <2>2. \A q \in Requests : Fitting(q)'
    BY <1>1, <1>2, FitsByParts DEF GatewayInv, Fitting, Named, Uuid
  <2> QED
    BY <2>1, <2>2, FitsByParts
<1> QED
  BY <1>5, <1>6, <1>7

(* Whoever is recorded leaves a window that has counted someone, and no    *)
(* window is ever taken away.                                              *)
LEMMA RecordCounts ==
    ASSUME LimiterInv, Counted, NEW r \in Requests, Record(r)
    PROVE  /\ Counted' /\ caller[r] \in DOMAIN windows'
           /\ DOMAIN windows \subseteq DOMAIN windows'
           /\ caller' = [caller EXCEPT ![r] = None] /\ caller[r] # None
PROOF
<1>1. PICK w : w = Current(caller[r], now[r])
  OBVIOUS
<1>2. caller[r] # None
  BY DEF Record
<1>3. w.count \in 0..Max /\ w = [started |-> w.started, count |-> w.count] /\ Max \in Nat /\ Max > 0
  BY <1>1, <1>2, CurrentWindow, LimitAssumption
<1>4. \E x : /\ x.count > 0
             /\ windows' = [d \in DOMAIN windows \cup {caller[r]} |->
                              IF d = caller[r] THEN x ELSE windows[d]]
  <2>1. CASE Exhausted(w)
    BY <1>1, <1>3, <2>1 DEF Record, Exhausted
  <2>2. CASE ~ Exhausted(w)
    <3>1. [w EXCEPT !.count = @ + 1].count > 0
      BY <1>3
    <3> QED
      BY <1>1, <2>2, <3>1 DEF Record
  <2> QED
    BY <2>1, <2>2
<1>5. caller' = [caller EXCEPT ![r] = None]
  BY DEF Record
<1> QED
  BY <1>2, <1>4, <1>5 DEF Counted

(* A request is refused, or goes on to its handler if its key is accepted. *)
LEMMA PassInv ==
    ASSUME GatewayInv, NEW r \in Requests, Pass(r), LimiterInv'
    PROVE  GatewayTypeOK' /\ Carried' /\ Counted' /\ AnswerFitsRequest'
PROOF
<1>1. Record(r) /\ UNCHANGED <<arrivals, keys, given, id, header>>
  BY DEF Pass
<1>2. /\ Counted' /\ caller[r] \in DOMAIN windows'
      /\ DOMAIN windows \subseteq DOMAIN windows'
      /\ caller' = [caller EXCEPT ![r] = None] /\ caller[r] # None
  BY <1>1, RecordCounts DEF GatewayInv
<1>3. /\ header[r] = caller[r] /\ id[r] # None /\ id[r] \in Ids /\ id[r] = Named(r)
      /\ r \notin inside /\ reply[r] = None
  BY <1>2 DEF GatewayInv, GatewayTypeOK, Carried
<1>4. caller'[r] = None /\ \A q \in Requests \ {r} : caller'[q] = caller[q]
  BY <1>2 DEF GatewayInv, LimiterInv, LimiterTypeOK
<1>5. Carried'
  BY <1>1, <1>4 DEF GatewayInv, Carried, Named, Uuid
<1>6. \A q \in inside : q # r /\ Admitted(q)'
  BY <1>1, <1>2, <1>3, FitsByParts DEF GatewayInv, Admitted, Counted
<1>7. ASSUME NEW code \in {"rate_limited", "unauthorized"}, Respond(r, code), inside' = inside
      PROVE  GatewayTypeOK' /\ AnswerFitsRequest'
  <2> DEFINE a == [id |-> id[r], code |-> code]
  <2>1. a \in Replies /\ a # None /\ a.id = Named(r)
    BY <1>3, IdAssumption DEF Replies
  <2>2. reply'[r] = a /\ reply' \in [Requests -> Replies \cup {None}]
        /\ \A q \in Requests \ {r} : reply'[q] = reply[q]
    BY <1>7, <2>1 DEF Respond, EchoedId, GatewayInv, GatewayTypeOK
  <2> HIDE DEF a
  <2>3. GatewayTypeOK'
    BY <1>1, <1>3, <1>4, <1>7, <2>1, <2>2 DEF GatewayInv, GatewayTypeOK, LimiterInv
  <2>4. \A q \in Requests : Fitting(q)'
    BY <1>1, <1>2, <1>3, <2>1, <2>2, FitsByParts DEF GatewayInv, Fitting, Named, Uuid
  <2> QED
    BY <1>6, <1>7, <2>3, <2>4, FitsByParts
<1>8. ASSUME IsAuthorized(header[r]), inside' = inside \cup {r}, reply' = reply
      PROVE  GatewayTypeOK' /\ AnswerFitsRequest'
  <2>1. GatewayTypeOK'
    BY <1>1, <1>3, <1>4, <1>8 DEF GatewayInv, GatewayTypeOK, LimiterInv
  <2>2. Admitted(r)'
    BY <1>1, <1>2, <1>3, <1>8 DEF Admitted, IsAuthorized, Counted
  <2>3. \A q \in Requests : Fitting(q)'
    BY <1>1, <1>8, FitsByParts DEF GatewayInv, Fitting, Named, Uuid
  <2> QED
    BY <1>6, <1>8, <2>1, <2>2, <2>3, FitsByParts
<1> QED
  BY <1>2, <1>5, <1>7, <1>8 DEF Pass

(* A handler answers, under the id of its request. *)
LEMMA AnswerInv ==
    ASSUME GatewayInv, NEW r \in Requests, NEW code \in Codes, Answer(r, code)
    PROVE  GatewayTypeOK' /\ Carried' /\ Counted' /\ AnswerFitsRequest'
PROOF
<1> DEFINE a == [id |-> id[r], code |-> code]
<1>1. /\ r \in inside /\ inside' = inside \ {r} /\ reply' = [reply EXCEPT ![r] = a]
      /\ UNCHANGED <<limiterVars, arrivals, keys, given, id, header>>
  BY DEF Answer, Respond, EchoedId
<1>2. id[r] # None /\ id[r] \in Ids /\ id[r] = Named(r) /\ caller[r] = None
  BY <1>1 DEF GatewayInv, GatewayTypeOK, Carried
<1>3. a \in Replies /\ a # None /\ a.id = Named(r) /\ a.code \in Codes
  BY <1>2, IdAssumption DEF Replies
<1> HIDE DEF a
<1>4. reply'[r] = a /\ reply' \in [Requests -> Replies \cup {None}]
      /\ \A q \in Requests \ {r} : reply'[q] = reply[q]
  BY <1>1, <1>3 DEF GatewayInv, GatewayTypeOK
<1>5. LimiterTypeOK' /\ windows' = windows /\ caller' = caller
  BY <1>1 DEF GatewayInv, GatewayTypeOK, LimiterTypeOK, limiterVars
<1>6. GatewayTypeOK'
  BY <1>1, <1>2, <1>3, <1>4, <1>5 DEF GatewayInv, GatewayTypeOK
<1>7. Carried' /\ Counted'
  BY <1>1, <1>5 DEF GatewayInv, Carried, Counted, Named, Uuid
<1>8. \A q \in inside' : Admitted(q)'
  BY <1>1, <1>5, FitsByParts DEF GatewayInv, Admitted
<1>9. \A q \in Requests : Fitting(q)'
  BY <1>1, <1>3, <1>4, FitsByParts DEF GatewayInv, Fitting, Named, Uuid
<1> QED
  BY <1>6, <1>7, <1>8, <1>9, FitsByParts

(* The place of an answered request is free. *)
LEMMA CloseInv ==
    ASSUME GatewayInv, NEW r \in Requests, Close(r)
    PROVE  GatewayTypeOK' /\ Carried' /\ Counted' /\ AnswerFitsRequest'
PROOF
<1>1. /\ reply[r] # None /\ given' = [given EXCEPT ![r] = None] /\ id' = [id EXCEPT ![r] = None]
      /\ header' = [header EXCEPT ![r] = None] /\ reply' = [reply EXCEPT ![r] = None]
      /\ UNCHANGED <<limiterVars, arrivals, keys, inside>>
  BY DEF Close
<1>2. r \notin inside /\ caller[r] = None
  BY <1>1 DEF GatewayInv, GatewayTypeOK
<1>3. LimiterTypeOK' /\ windows' = windows /\ caller' = caller
  BY <1>1 DEF GatewayInv, GatewayTypeOK, LimiterTypeOK, limiterVars
<1>4. /\ id'[r] = None /\ reply'[r] = None
      /\ \A q \in Requests \ {r} : /\ given'[q] = given[q] /\ id'[q] = id[q]
                                   /\ header'[q] = header[q] /\ reply'[q] = reply[q]
  BY <1>1 DEF GatewayInv, GatewayTypeOK
<1>5. GatewayTypeOK'
  BY <1>1, <1>2, <1>3, <1>4 DEF GatewayInv, GatewayTypeOK
<1>6. Carried' /\ Counted'
  BY <1>2, <1>3, <1>4 DEF GatewayInv, Carried, Counted, Named, Uuid
<1>7. \A q \in inside' : Admitted(q)'
  BY <1>1, <1>2, <1>3, <1>4, FitsByParts DEF GatewayInv, GatewayTypeOK, Admitted
<1>8. \A q \in Requests : Fitting(q)'
  BY <1>4, FitsByParts DEF GatewayInv, Fitting, Named, Uuid
<1> QED
  BY <1>5, <1>6, <1>7, <1>8, FitsByParts

(* The invariant of the whole gateway, step by step. *)
LEMMA GatewayStep ==
    ASSUME GatewayInv, [GatewayNext]_gatewayVars
    PROVE  GatewayInv'
PROOF
<1>1. LimiterInv'
  BY LimiterStep, GatewayIsLimiter DEF GatewayInv
<1>2. ASSUME UNCHANGED <<caller, windows, arrivals, keys, given, id, header, inside, reply>>
      PROVE  GatewayTypeOK' /\ Carried' /\ Counted' /\ AnswerFitsRequest'
  <2>1. GatewayTypeOK'
    BY <1>1, <1>2 DEF GatewayInv, GatewayTypeOK, LimiterInv
  <2>2. Carried' /\ Counted' /\ AnswerFitsRequest'
    BY <1>2 DEF GatewayInv, Carried, Counted, AnswerFitsRequest, Named, Uuid
  <2> QED
    BY <2>1, <2>2
<1>3. CASE UNCHANGED gatewayVars
  BY <1>1, <1>2, <1>3 DEF gatewayVars, limiterVars, GatewayInv
<1>4. CASE GatewayTick
  BY <1>1, <1>2, <1>4 DEF GatewayTick, Tick, GatewayInv
<1>5. ASSUME NEW r \in Requests, NEW g \in GivenIds \cup {None},
             Health(r, g) \/ \E h \in Callers : Arrive(r, g, h)
      PROVE  GatewayInv'
  BY <1>1, <1>5, HealthInv, ArriveInv DEF GatewayInv
<1>6. ASSUME NEW r \in Requests, Pass(r) \/ Close(r) \/ \E code \in Codes : Answer(r, code)
      PROVE  GatewayInv'
  BY <1>1, <1>6, PassInv, CloseInv, AnswerInv DEF GatewayInv
<1> QED
  BY <1>3, <1>4, <1>5, <1>6 DEF GatewayNext

(* Types are kept, and a request is in one place.                          *)
THEOREM GatewayTypes == GatewaySpec => []GatewayTypeOK
PROOF
<1>1. GatewayInv => GatewayTypeOK
  BY DEF GatewayInv
<1>2. GatewayInv /\ [GatewayNext]_gatewayVars => GatewayInv'
  BY GatewayStep
<1> QED
  BY <1>1, <1>2, InitGatewayInv, PTL DEF GatewaySpec

(* Handlers see only requests with an accepted key that were counted, and  *)
(* every answer bears the id of its request, whichever layer wrote it.     *)
THEOREM AnswersFit == GatewaySpec => []AnswerFitsRequest
PROOF
<1>1. GatewayInv => AnswerFitsRequest
  BY DEF GatewayInv
<1>2. GatewayInv /\ [GatewayNext]_gatewayVars => GatewayInv'
  BY GatewayStep
<1> QED
  BY <1>1, <1>2, InitGatewayInv, PTL DEF GatewaySpec
===============================================================================
