----------------------------- MODULE NumbersProofs -----------------------------
(***************************************************************************)
(* What the conversions of Codecs compute, for every input: first how much *)
(* a recursive function and a fold can be trusted, then numbers and their  *)
(* digits, then the amounts of the example app.                            *)
(*                                                                         *)
(* Induction is stated with a set in place of a predicate: to show that    *)
(* every n has a property, take the set T of those that have it.  That a   *)
(* recursive definition f == CHOOSE g : g = body(g) satisfies its equation *)
(* is the lemma Recursion, for any measure its calls make smaller.         *)
(***************************************************************************)
EXTENDS Codecs, FiniteSetTheorems, TLAPS

-------------------------------------------------------------------------------
(* Induction and recursion.                                                *)

(* A set of natural numbers has a least member.                            *)
LEMMA LeastNat ==
    ASSUME NEW T \in SUBSET Nat, T # {}
    PROVE  \E t \in T : \A s \in T : t <= s
<1> DEFINE R == {ss \in Nat \X Nat : ss[1] < ss[2]}
<1>1. IsWellFoundedOn(R, Nat)
  BY NatLessThanWellFounded DEF OpToRel
<1>2. PICK t \in T : \A s \in T : ~ (<<s, t>> \in R)
  <2> HIDE DEF R
  <2> QED  BY <1>1, WFMin
<1>3. ASSUME NEW s \in T  PROVE t <= s
  <2>1. <<s, t>> \in Nat \X Nat /\ (s < t => <<s, t>> \in R)
    OBVIOUS
  <2> QED  BY <1>2, <2>1
<1> QED  BY <1>3

(* Induction over numbers, for a set in place of a predicate.              *)
LEMMA AllNumbers ==
    ASSUME NEW T, 0 \in T, \A n \in Nat : n \in T => n + 1 \in T
    PROVE  Nat \subseteq T
<1> SUFFICES ASSUME Nat \ T # {}  PROVE FALSE
  OBVIOUS
<1>1. PICK n \in Nat \ T : \A m \in Nat \ T : n <= m
  BY LeastNat
<1>2. n - 1 \in Nat /\ n - 1 \notin Nat \ T
  BY <1>1
<1> QED
  BY <1>1, <1>2

(* The same, from all smaller numbers. *)
LEMMA AllSmaller ==
    ASSUME NEW T, \A n \in Nat : (\A m \in 0..n - 1 : m \in T) => n \in T
    PROVE  Nat \subseteq T
<1> SUFFICES ASSUME Nat \ T # {}  PROVE FALSE
  OBVIOUS
<1>1. PICK n \in Nat \ T : \A m \in Nat \ T : n <= m
  BY LeastNat
<1>2. \A m \in 0..n - 1 : m \in T
  BY <1>1
<1> QED
  BY <1>1, <1>2

(* Every sequence is reached by appending. *)
LEMMA AllSequences ==
    ASSUME NEW S, NEW T, <<>> \in T,
           \A s \in Seq(S), x \in S : s \in T => Append(s, x) \in T
    PROVE  Seq(S) \subseteq T
<1> DEFINE L == {n \in Nat : \A s \in Seq(S) : Len(s) = n => s \in T}
<1>1. 0 \in L
  OBVIOUS
<1>2. ASSUME NEW n \in Nat, n \in L  PROVE n + 1 \in L
  <2>1. ASSUME NEW s \in Seq(S), Len(s) = n + 1  PROVE s \in T
    <3> DEFINE f == SubSeq(s, 1, n)
    <3>1. f \in Seq(S) /\ Len(f) = n /\ s[n + 1] \in S /\ s = Append(f, s[n + 1])
      BY <2>1
    <3> QED
      BY <1>2, <3>1
  <2> QED
    BY <2>1
<1>3. Nat \subseteq L
  <2> HIDE DEF L
  <2> QED  BY <1>1, <1>2, AllNumbers
<1> QED
  BY <1>3

(* f solves a recursion, whose calls are nearer its base.                  *)
Solves(f, D, B, base, next, step) ==
    \A x \in D : f[x] = IF x \in B THEN base[x] ELSE step[<<x, f[next[x]]>>]

Nearer(D, B, next, mu) == \A x \in D : x \notin B => mu[next[x]] < mu[x]

(* A recursion that gets nearer its base with every call has a solution.   *)
LEMMA Recursion ==
    ASSUME NEW D, NEW V, NEW mu \in [D -> Nat], NEW B,
           NEW base \in [D -> V], NEW next \in [D -> D], NEW step \in [D \X V -> V],
           Nearer(D, B, next, mu)
    PROVE  \E f \in [D -> V] : Solves(f, D, B, base, next, step)
<1> USE DEF Nearer
<1> DEFINE body(f, x) == IF x \in B THEN base[x] ELSE step[<<x, f[next[x]]>>]
           Good(n, f) == \A x \in D : mu[x] < n => f[x] = body(f, x)
           Solved == {n \in Nat : \E f \in [D -> V] : Good(n, f)}
<1>1. 0 \in Solved
  BY base \in [D -> V]
<1>2. ASSUME NEW n \in Nat, n \in Solved  PROVE n + 1 \in Solved
  <2>1. PICK f \in [D -> V] : Good(n, f)
    BY <1>2
  <2> DEFINE g == [x \in D |-> body(f, x)]
  <2>2. g \in [D -> V]
    OBVIOUS
  <2>3. ASSUME NEW x \in D, mu[x] < n + 1  PROVE g[x] = body(g, x)
    <3>1. CASE x \in B
      BY <3>1
    <3>2. CASE x \notin B
      <4>1. next[x] \in D /\ mu[next[x]] < n
        BY <2>3, <3>2
      <4>2. g[next[x]] = f[next[x]]
        BY <4>1, <2>1
      <4> QED
        BY <4>2, <3>2
    <3> QED
      BY <3>1, <3>2
  <2>4. Good(n + 1, g)
    BY <2>3
  <2> HIDE DEF g, Good
  <2> QED
    BY <2>2, <2>4
<1>3. Nat \subseteq Solved
  <2> HIDE DEF Solved
  <2> QED  BY <1>1, <1>2, AllNumbers
<1>4. ASSUME NEW f \in [D -> V], NEW g \in [D -> V], NEW n \in Nat, Good(n, f), Good(n, g)
      PROVE  \A x \in D : mu[x] < n => f[x] = g[x]
  <2> DEFINE T == {m \in Nat : \A x \in D : mu[x] < n /\ mu[x] = m => f[x] = g[x]}
  <2>1. ASSUME NEW m \in Nat, \A k \in 0..m - 1 : k \in T  PROVE m \in T
    <3>1. ASSUME NEW x \in D, mu[x] < n, mu[x] = m  PROVE f[x] = g[x]
      <4>1. CASE x \in B
        BY <4>1, <3>1, <1>4
      <4>2. CASE x \notin B
        <5>1. next[x] \in D /\ mu[next[x]] \in 0..m - 1 /\ mu[next[x]] < n
          BY <3>1, <4>2
        <5>2. f[next[x]] = g[next[x]]
          BY <5>1, <2>1
        <5> QED
          BY <5>2, <3>1, <1>4
      <4> QED
        BY <4>1, <4>2
    <3> QED
      BY <3>1
  <2>2. Nat \subseteq T
    <3> HIDE DEF T
    <3> QED  BY <2>1, AllSmaller
  <2> QED
    BY <2>2
<1> DEFINE of(n) == CHOOSE f \in [D -> V] : Good(n, f)
           all == [x \in D |-> of(mu[x] + 1)[x]]
<1>5. ASSUME NEW n \in Nat  PROVE of(n) \in [D -> V] /\ Good(n, of(n))
  <2>1. \E f \in [D -> V] : Good(n, f)
    BY <1>3
  <2> HIDE DEF Good
  <2> QED
    BY <2>1
<1>6. all \in [D -> V]
  <2>1. ASSUME NEW x \in D  PROVE of(mu[x] + 1)[x] \in V
    BY <1>5, mu[x] + 1 \in Nat
  <2> HIDE DEF of
  <2> QED
    BY <2>1
<1>7. ASSUME NEW x \in D  PROVE all[x] = body(all, x)
  <2> DEFINE n == mu[x] + 1
  <2>1. n \in Nat /\ of(n) \in [D -> V] /\ Good(n, of(n)) /\ all[x] = of(n)[x]
    <3>1. n \in Nat
      OBVIOUS
    <3> HIDE DEF Good, of
    <3> QED  BY <1>5, <3>1
  <2>2. of(n)[x] = body(of(n), x)
    <3> HIDE DEF of
    <3> QED  BY <2>1
  <2>3. CASE x \in B
    <3> HIDE DEF of, all
    <3> QED BY <2>3, <2>1, <2>2
  <2>4. CASE x \notin B
    <3> DEFINE y == next[x]
               k == mu[y] + 1
    <3>1. y \in D /\ k \in Nat /\ k <= n /\ mu[y] < k
      BY <2>4
    <3>2. of(k) \in [D -> V] /\ Good(k, of(k)) /\ all[y] = of(k)[y]
      <4> HIDE DEF Good, of, y, k
      <4>1. all[y] = of(mu[y] + 1)[y]
        BY <3>1
      <4> QED  BY <1>5, <3>1, <4>1 DEF k
    <3>3. Good(k, of(n))
      <4>1. \A z \in D : mu[z] < k => mu[z] < n
        BY <3>1, <2>1
      <4> HIDE DEF of, y, k, n, body
      <4> QED BY <2>1, <4>1
    <3>4. of(k)[y] = of(n)[y]
      <4> HIDE DEF of, y, k, Good, n
      <4> QED BY <1>4, <2>1, <3>1, <3>2, <3>3
    <3>5. all[y] = of(n)[y]
      BY <3>2, <3>4
    <3> HIDE DEF of, all, k, n, Good
    <3> QED BY <3>5, <2>1, <2>2, <2>4
  <2> QED
    BY <2>3, <2>4
<1> HIDE DEF all
<1>8. \A x \in D : all[x] = IF x \in B THEN base[x] ELSE step[<<x, all[next[x]]>>]
  BY <1>7
<1> HIDE DEF body, Good, Solved
<1> QED
  BY <1>6, <1>8 DEF Solves

-------------------------------------------------------------------------------
(* Folds.  FoldLeft folds over the set of indices of a sequence, which Max *)
(* takes apart from its end.                                               *)

(* The greatest of some numbers up to n.                                   *)
LEMMA MaxOf ==
    ASSUME NEW n \in Nat, NEW t \in SUBSET (1..n), t # {}
    PROVE  Max(t) \in t /\ \A x \in t : x <= Max(t)
<1> DEFINE T == {n - x : x \in t}
<1>1. PICK m \in T : \A y \in T : m <= y
  <2>1. T \in SUBSET Nat
    OBVIOUS
  <2>2. T # {}
    OBVIOUS
  <2> HIDE DEF T
  <2> QED  BY <2>1, <2>2, LeastNat
<1>2. PICK x \in t : m = n - x
  BY <1>1
<1>3. ASSUME NEW y \in t  PROVE y <= x
  <2>1. n - y \in T
    OBVIOUS
  <2>2. m <= n - y
    BY <1>1, <2>1
  <2>3. x \in 1..n /\ y \in 1..n
    BY <1>2
  <2> HIDE DEF T
  <2> QED  BY <1>2, <2>2, <2>3
<1> QED
  BY <1>2, <1>3 DEF Max

(* What a fold over 1..k + 1 takes away first, and what it leaves.         *)
LEMMA FoldSets ==
    ASSUME NEW n \in Nat, NEW k \in 0..n, k # n
    PROVE  /\ 1..k + 1 \in SUBSET (1..n) /\ 1..k + 1 # {} /\ 1..k \in SUBSET (1..n)
           /\ Max(1..k + 1) = k + 1 /\ (1..k + 1) \ {Max(1..k + 1)} = 1..k
<1>1. 1..k + 1 \in SUBSET (1..n) /\ 1..k + 1 # {} /\ 1..k \in SUBSET (1..n)
  OBVIOUS
<1>2. Max(1..k + 1) \in 1..k + 1 /\ \A x \in 1..k + 1 : x <= Max(1..k + 1)
  BY <1>1, MaxOf
<1>3. Max(1..k + 1) = k + 1
  BY <1>2, k + 1 \in 1..k + 1
<1> QED
  BY <1>1, <1>3

(* A fold as the community modules define it, of a step given as a function. *)
Folding(f, step, b, s) ==
    \A t \in SUBSET DOMAIN s : f[t] = IF t = {} THEN b ELSE step[<<f[t \ {Max(t)}], s[Max(t)]>>]

Fold(step, b, s) == FoldLeft(LAMBDA a, x : step[<<a, x>>], b, s)

(* There is a function on the parts of the domain that solves the equation *)
(* of the fold.                                                            *)
LEMMA FoldExists ==
    ASSUME NEW S, NEW V, NEW s \in Seq(S), NEW b \in V, NEW step \in [V \X S -> V]
    PROVE  \E f \in [SUBSET DOMAIN s -> V] : Folding(f, step, b, s)
<1> DEFINE n == Len(s)
           D == SUBSET (1..n)
           mu == [t \in D |-> Cardinality(t)]
           base == [t \in D |-> b]
           next == [t \in D |-> IF t = {} THEN {} ELSE t \ {Max(t)}]
           go == [p \in D \X V |-> IF p[1] = {} THEN b ELSE step[<<p[2], s[Max(p[1])]>>]]
<1>1. DOMAIN s = 1..n /\ n \in Nat
  OBVIOUS
<1>2. ASSUME NEW t \in D  PROVE IsFiniteSet(t) /\ Cardinality(t) \in Nat
  <2>1. IsFiniteSet(1..n)
    BY <1>1, FS_Interval
  <2>2. IsFiniteSet(t)
    BY <2>1, FS_Subset
  <2> QED
    BY <2>2, FS_CardinalityType
<1>3. \A t \in D : t # {} => Max(t) \in t /\ Max(t) \in 1..n
  BY MaxOf, <1>1
<1>4. mu \in [D -> Nat] /\ base \in [D -> V] /\ next \in [D -> D]
  BY <1>2, <1>3
<1>5. go \in [D \X V -> V]
  BY <1>3, <1>1
<1>6. ASSUME NEW t \in D, t \notin {{}}  PROVE mu[next[t]] < mu[t]
  <2>1. next[t] = t \ {Max(t)} /\ next[t] \in D
    BY <1>6, <1>4
  <2>2. Cardinality(t \ {Max(t)}) = Cardinality(t) - 1
    <3>1. Max(t) \in t /\ IsFiniteSet(t)
      BY <1>2, <1>3, <1>6
    <3> QED
      BY <3>1, FS_RemoveElement
  <2>3. mu[next[t]] = Cardinality(t) - 1 /\ mu[t] = Cardinality(t) /\ Cardinality(t) \in Nat
    <3> HIDE DEF next, D
    <3> QED
      BY <2>1, <2>2, <1>2
  <2> HIDE DEF mu
  <2> QED
    BY <2>3
<1> DEFINE B == {{}}
<1>7. PICK f \in [D -> V] : Solves(f, D, B, base, next, go)
  <2>1. Nearer(D, B, next, mu)
    BY <1>6 DEF Nearer
  <2> HIDE DEF B, D, mu, base, next, go
  <2> QED  BY <1>4, <1>5, <2>1, Recursion
<1>8. ASSUME NEW t \in D
      PROVE  f[t] = IF t = {} THEN b ELSE step[<<f[t \ {Max(t)}], s[Max(t)]>>]
  <2>1. CASE t = {}
    BY <2>1, <1>7 DEF Solves
  <2>2. CASE t # {}
    <3>1. next[t] = t \ {Max(t)} /\ next[t] \in D
      BY <2>2, <1>4
    <3>2. f[next[t]] \in V
      BY <3>1
    <3>3. go[<<t, f[next[t]]>>] = step[<<f[next[t]], s[Max(t)]>>]
      BY <3>2, <2>2
    <3> HIDE DEF D, go, next
    <3> QED
      BY <3>1, <3>3, <2>2, <1>7 DEF Solves
  <2> QED
    BY <2>1, <2>2
<1> QED
  BY <1>1, <1>8 DEF Folding

(* g holds the results of a fold over the prefixes of s.                   *)
Runs(g, b, step, V, s) ==
    /\ g[0] = b
    /\ \A k \in 0..Len(s) - 1 : g[k] \in V => g[k + 1] = step[<<g[k], s[k + 1]>>]

Totals(g, b, step, V, s) == Runs(g, b, step, V, s) /\ Fold(step, b, s) = g[Len(s)]

(* Two runs of a fold have the same totals.                                *)
LEMMA FoldRun ==
    ASSUME NEW S, NEW V, NEW s \in Seq(S), NEW b \in V, NEW step \in [V \X S -> V],
           NEW g, NEW h, Runs(g, b, step, V, s), Runs(h, b, step, V, s)
    PROVE  \A k \in 0..Len(s) : g[k] = h[k] /\ g[k] \in V
<1> DEFINE T == {k \in Nat : k <= Len(s) => g[k] = h[k] /\ g[k] \in V}
<1>1. 0 \in T
  BY DEF Runs
<1>2. ASSUME NEW k \in Nat, k \in T  PROVE k + 1 \in T
  <2>1. CASE k + 1 <= Len(s)
    <3>1. k \in 0..Len(s) - 1 /\ g[k] = h[k] /\ g[k] \in V /\ s[k + 1] \in S
      BY <2>1, <1>2
    <3>2. g[k + 1] = step[<<g[k], s[k + 1]>>] /\ h[k + 1] = g[k + 1]
      BY <3>1 DEF Runs
    <3>3. g[k + 1] \in V
      BY <3>1, <3>2
    <3> QED
      BY <3>2, <3>3
  <2> QED
    BY <2>1
<1>3. Nat \subseteq T
  <2> HIDE DEF T
  <2> QED  BY <1>1, <1>2, AllNumbers
<1> QED
  BY <1>3

(* The fold of the library is the last total of a run.                     *)
LEMMA FoldPrefix ==
    ASSUME NEW S, NEW V, NEW s \in Seq(S), NEW b \in V, NEW step \in [V \X S -> V]
    PROVE  \E g : Totals(g, b, step, V, s)
<1> DEFINE body(f) == [t \in SUBSET DOMAIN s |->
                         IF t = {} THEN b ELSE step[<<f[t \ {Max(t)}], s[Max(t)]>>]]
           it == CHOOSE f : f = body(f)
           g == [k \in 0..Len(s) |-> it[1..k]]
<1>1. Fold(step, b, s) = it[DOMAIN s]
  BY DEF Fold, FoldLeft, MapThenFoldSet
<1>2. PICK f \in [SUBSET DOMAIN s -> V] : Folding(f, step, b, s)
  BY FoldExists
<1>3. f = body(f)
  BY <1>2 DEF Folding
<1>4. it = body(it)
  <2> HIDE DEF body
  <2> QED  BY <1>3
<1>5. ASSUME NEW t \in SUBSET (1..Len(s))
      PROVE  it[t] = IF t = {} THEN b ELSE step[<<it[t \ {Max(t)}], s[Max(t)]>>]
  <2>1. t \in SUBSET DOMAIN s
    OBVIOUS
  <2>2. it[t] = body(it)[t]
    <3> HIDE DEF body
    <3> QED  BY <1>4
  <2> HIDE DEF it
  <2> QED  BY <2>1, <2>2
<1> HIDE DEF it
<1>6. g[0] = b
  <2>1. 1..0 = {} /\ 1..0 \in SUBSET (1..Len(s)) /\ 0 \in 0..Len(s)
    OBVIOUS
  <2>2. it[1..0] = b
    BY <1>5, <2>1
  <2> QED  BY <2>1, <2>2
<1>7. ASSUME NEW k \in 0..Len(s) - 1  PROVE g[k + 1] = step[<<g[k], s[k + 1]>>]
  <2>1. /\ 1..k + 1 \in SUBSET (1..Len(s)) /\ 1..k + 1 # {}
        /\ Max(1..k + 1) = k + 1 /\ (1..k + 1) \ {Max(1..k + 1)} = 1..k
    <3>1. Len(s) \in Nat /\ k \in 0..Len(s) /\ k # Len(s)
      OBVIOUS
    <3> QED  BY <3>1, FoldSets
  <2>2. it[1..k + 1] = step[<<it[1..k], s[k + 1]>>]
    <3>1. it[1..k + 1] = step[<<it[(1..k + 1) \ {Max(1..k + 1)}], s[Max(1..k + 1)]>>]
      BY <1>5, <2>1
    <3> QED  BY <2>1, <3>1
  <2>3. k \in 0..Len(s) /\ k + 1 \in 0..Len(s)
    OBVIOUS
  <2> QED  BY <2>2, <2>3
<1>8. Fold(step, b, s) = g[Len(s)]
  <2>1. DOMAIN s = 1..Len(s) /\ Len(s) \in 0..Len(s)
    OBVIOUS
  <2> QED  BY <1>1, <2>1
<1> HIDE DEF g
<1>9. Runs(g, b, step, V, s)
  BY <1>6, <1>7 DEF Runs
<1> QED
  BY <1>8, <1>9 DEF Totals

FoldLaw(step, b, V, S) ==
    /\ Fold(step, b, <<>>) = b
    /\ \A s \in Seq(S) : Fold(step, b, s) \in V
    /\ \A s \in Seq(S), x \in S : Fold(step, b, Append(s, x)) = step[<<Fold(step, b, s), x>>]

(* The law every later lemma uses: a fold starts with its base and takes   *)
(* one step per member appended.                                           *)
LEMMA FoldSequence ==
    ASSUME NEW S, NEW V, NEW b \in V, NEW step \in [V \X S -> V]
    PROVE  FoldLaw(step, b, V, S)
<1>1. Fold(step, b, <<>>) = b
  <2>1. <<>> \in Seq(S) /\ Len(<<>>) = 0
    OBVIOUS
  <2>2. PICK g : Totals(g, b, step, V, <<>>)
    BY <2>1, FoldPrefix
  <2> QED  BY <2>1, <2>2 DEF Totals, Runs
<1>2. ASSUME NEW s \in Seq(S)  PROVE Fold(step, b, s) \in V
  <2>1. PICK g : Totals(g, b, step, V, s)
    BY FoldPrefix
  <2>2. \A k \in 0..Len(s) : g[k] \in V
    BY <2>1, FoldRun DEF Totals
  <2>3. Len(s) \in 0..Len(s)
    OBVIOUS
  <2> QED
    BY <2>1, <2>2, <2>3 DEF Totals
<1>3. ASSUME NEW s \in Seq(S), NEW x \in S
      PROVE  Fold(step, b, Append(s, x)) = step[<<Fold(step, b, s), x>>]
  <2>1. PICK g : Totals(g, b, step, V, s)
    BY FoldPrefix
  <2> DEFINE e == Append(s, x)
  <2>2. e \in Seq(S) /\ Len(e) = Len(s) + 1 /\ e[Len(s) + 1] = x
    OBVIOUS
  <2>3. \A k \in 1..Len(s) : e[k] = s[k]
    OBVIOUS
  <2> HIDE DEF e
  <2>4. PICK h : Totals(h, b, step, V, e)
    BY <2>2, FoldPrefix
  <2>5. Runs(h, b, step, V, s)
    <3>1. ASSUME NEW k \in 0..Len(s) - 1, h[k] \in V
          PROVE  h[k + 1] = step[<<h[k], s[k + 1]>>]
      <4>1. k \in 0..Len(e) - 1 /\ e[k + 1] = s[k + 1]
        BY <2>2, <2>3
      <4> QED
        BY <2>4, <3>1, <4>1 DEF Totals, Runs
    <3> QED
      BY <2>4, <3>1 DEF Totals, Runs
  <2>6. \A k \in 0..Len(s) : g[k] = h[k] /\ g[k] \in V
    BY <2>1, <2>5, FoldRun DEF Totals
  <2>7. g[Len(s)] = h[Len(s)] /\ h[Len(s)] \in V
    <3>1. Len(s) \in 0..Len(s)
      OBVIOUS
    <3> QED  BY <2>6, <3>1
  <2>8. h[Len(s) + 1] = step[<<h[Len(s)], e[Len(s) + 1]>>]
    <3>1. Len(s) \in 0..Len(e) - 1
      BY <2>2
    <3> QED  BY <2>4, <2>7, <3>1 DEF Totals, Runs
  <2> QED
    BY <2>1, <2>2, <2>4, <2>7, <2>8 DEF e, Totals
<1> QED
  BY <1>1, <1>2, <1>3 DEF FoldLaw

(* it satisfies the equations of a fold whose step is known to be step only *)
(* on what the fold meets.                                                  *)
FoldsOn(it, b, step, V, s) ==
    /\ it[{}] = b
    /\ \A k \in 0..Len(s) - 1 : it[1..k] \in V => it[1..k + 1] = step[<<it[1..k], s[k + 1]>>]

FoldEnds(it, b, step, s) == it[1..Len(s)] = Fold(step, b, s)

(* A function that CHOOSE picks for the equation of a fold is the fold.    *)
LEMMA FoldIs ==
    ASSUME NEW S, NEW V, NEW s \in Seq(S), NEW b \in V, NEW step \in [V \X S -> V], NEW it,
           FoldsOn(it, b, step, V, s)
    PROVE  FoldEnds(it, b, step, s)
<1> DEFINE h == [k \in 0..Len(s) |-> it[1..k]]
<1>1. PICK g : Totals(g, b, step, V, s)
  BY FoldPrefix
<1>2. h[0] = b
  <2>1. 1..0 = {} /\ 0 \in 0..Len(s)
    OBVIOUS
  <2> QED  BY <2>1 DEF FoldsOn
<1>3. ASSUME NEW k \in 0..Len(s) - 1, h[k] \in V  PROVE h[k + 1] = step[<<h[k], s[k + 1]>>]
  <2>1. k \in 0..Len(s) /\ k + 1 \in 0..Len(s)
    OBVIOUS
  <2> QED  BY <1>3, <2>1 DEF FoldsOn
<1>4. Runs(h, b, step, V, s)
  <2> HIDE DEF h
  <2> QED  BY <1>2, <1>3 DEF Runs
<1>5. \A k \in 0..Len(s) : g[k] = h[k] /\ g[k] \in V
  <2> HIDE DEF h
  <2> QED  BY <1>1, <1>4, FoldRun DEF Totals
<1>6. DOMAIN s = 1..Len(s) /\ Len(s) \in 0..Len(s)
  OBVIOUS
<1> QED
  BY <1>1, <1>5, <1>6 DEF Totals, FoldEnds

-------------------------------------------------------------------------------
(* Numbers and powers.                                                     *)

(* The digits of a number are folded into it.                              *)
Place(r) == [p \in Nat \X Nat |-> p[1] * r + p[2]]

(* A digit more keeps a number a number.                                   *)
LEMMA PlaceType ==
    ASSUME NEW r \in Nat
    PROVE  Place(r) \in [Nat \X Nat -> Nat]
BY DEF Place

(* Number is the fold of Place.                                            *)
LEMMA NumberIsFold ==
    ASSUME NEW r \in Nat, NEW s \in Seq(Nat)
    PROVE  Number(s, r) = Fold(Place(r), 0, s)
<1> DEFINE body(f) == [t \in SUBSET DOMAIN s |->
                         IF t = {} THEN 0 ELSE f[t \ {Max(t)}] * r + s[Max(t)]]
           it == CHOOSE f : f = body(f)
<1>1. Number(s, r) = it[1..Len(s)]
  <2>1. Number(s, r) = it[DOMAIN s]
    BY DEF Number, FoldLeft, MapThenFoldSet
  <2>2. DOMAIN s = 1..Len(s)
    OBVIOUS
  <2> HIDE DEF it
  <2> QED  BY <2>1, <2>2
<1>2. Place(r) \in [Nat \X Nat -> Nat] /\ 0 \in Nat
  BY PlaceType
<1>3. PICK f \in [SUBSET DOMAIN s -> Nat] : Folding(f, Place(r), 0, s)
  BY <1>2, FoldExists
<1>4. ASSUME NEW t \in SUBSET DOMAIN s  PROVE f[t] = body(f)[t]
  <2>1. CASE t = {}
    BY <2>1, <1>3 DEF Folding
  <2>2. CASE t # {}
    <3>1. Max(t) \in DOMAIN s
      <4>1. t \in SUBSET (1..Len(s)) /\ Len(s) \in Nat
        OBVIOUS
      <4> QED  BY <4>1, <2>2, MaxOf
    <3>2. f[t \ {Max(t)}] \in Nat /\ s[Max(t)] \in Nat
      BY <3>1
    <3>3. f[t] = Place(r)[<<f[t \ {Max(t)}], s[Max(t)]>>]
      BY <2>2, <1>3 DEF Folding
    <3> QED
      BY <2>2, <3>2, <3>3 DEF Place
  <2> QED
    BY <2>1, <2>2
<1>5. f = body(f)
  BY <1>4
<1>6. it = body(it)
  <2> HIDE DEF body
  <2> QED  BY <1>5
<1>7. ASSUME NEW t \in SUBSET DOMAIN s
      PROVE  it[t] = IF t = {} THEN 0 ELSE it[t \ {Max(t)}] * r + s[Max(t)]
  <2>1. it[t] = body(it)[t]
    <3> HIDE DEF body
    <3> QED  BY <1>6
  <2> HIDE DEF it
  <2> QED  BY <2>1
<1> HIDE DEF it
<1>8. it[{}] = 0
  BY <1>7
<1>9. ASSUME NEW k \in 0..Len(s) - 1, it[1..k] \in Nat
      PROVE  it[1..k + 1] = Place(r)[<<it[1..k], s[k + 1]>>]
  <2>1. /\ 1..k + 1 \in SUBSET (1..Len(s)) /\ 1..k + 1 # {}
        /\ Max(1..k + 1) = k + 1 /\ (1..k + 1) \ {Max(1..k + 1)} = 1..k
    <3>1. Len(s) \in Nat /\ k \in 0..Len(s) /\ k # Len(s)
      OBVIOUS
    <3> QED  BY <3>1, FoldSets
  <2>2. it[1..k + 1] = it[(1..k + 1) \ {Max(1..k + 1)}] * r + s[Max(1..k + 1)]
    <3>1. 1..k + 1 \in SUBSET DOMAIN s
      BY <2>1
    <3> QED  BY <1>7, <2>1, <3>1
  <2>3. s[k + 1] \in Nat
    OBVIOUS
  <2>4. \A a \in Nat, d \in Nat : Place(r)[<<a, d>>] = a * r + d
    BY DEF Place
  <2>5. it[1..k + 1] = it[1..k] * r + s[k + 1]
    BY <2>1, <2>2
  <2>6. it[1..k] \in Nat
    BY <1>9
  <2> QED
    BY <2>3, <2>4, <2>5, <2>6
<1>10. FoldsOn(it, 0, Place(r), Nat, s)
  BY <1>8, <1>9 DEF FoldsOn
<1>11. FoldEnds(it, 0, Place(r), s)
  BY <1>2, <1>10, FoldIs
<1> QED
  BY <1>1, <1>11 DEF FoldEnds

(* Number digit by digit.                                                  *)
LEMMA NumberOf ==
    ASSUME NEW r \in Nat
    PROVE  /\ Number(<<>>, r) = 0
           /\ \A s \in Seq(Nat) : Number(s, r) \in Nat
           /\ \A s \in Seq(Nat), d \in Nat : Number(Append(s, d), r) = Number(s, r) * r + d
<1>1. Place(r) \in [Nat \X Nat -> Nat]
  BY PlaceType
<1>2. FoldLaw(Place(r), 0, Nat, Nat)
  <2>1. 0 \in Nat
    OBVIOUS
  <2> QED  BY <1>1, <2>1, FoldSequence
<1>3. \A s \in Seq(Nat) : Number(s, r) = Fold(Place(r), 0, s)
  BY NumberIsFold
<1>4. Number(<<>>, r) = 0
  <2>1. <<>> \in Seq(Nat)
    OBVIOUS
  <2> QED  BY <2>1, <1>2, <1>3 DEF FoldLaw
<1>5. \A s \in Seq(Nat) : Number(s, r) \in Nat
  BY <1>2, <1>3 DEF FoldLaw
<1>6. ASSUME NEW s \in Seq(Nat), NEW d \in Nat
      PROVE  Number(Append(s, d), r) = Number(s, r) * r + d
  <2>1. Append(s, d) \in Seq(Nat)
    OBVIOUS
  <2>2. Number(Append(s, d), r) = Place(r)[<<Number(s, r), d>>]
    BY <2>1, <1>2, <1>3 DEF FoldLaw
  <2> QED
    BY <2>2, <1>5 DEF Place
<1> QED
  BY <1>4, <1>5, <1>6

(* Powers. *)
LEMMA PowerOf ==
    ASSUME NEW b \in Nat
    PROVE  /\ Power(b, 0) = 1
           /\ \A n \in Nat : Power(b, n) \in Nat /\ Power(b, n + 1) = b * Power(b, n)
<1> DEFINE body(n, f) == [i \in 0..n |-> IF i = 0 THEN 1 ELSE b * f[i - 1]]
           it(n) == CHOOSE f : f = body(n, f)
<1>1. \A n : Power(b, n) = it(n)[n]
  BY DEF Power
<1>2. ASSUME NEW n \in Nat
      PROVE  \E f \in [0..n -> Nat] : f = body(n, f)
  <2> DEFINE D == 0..n
             mu == [i \in D |-> i]
             base == [i \in D |-> 1]
             next == [i \in D |-> IF i = 0 THEN 0 ELSE i - 1]
             go == [p \in D \X Nat |-> b * p[2]]
             B == {0}
  <2>1. mu \in [D -> Nat] /\ base \in [D -> Nat] /\ next \in [D -> D]
    OBVIOUS
  <2>2. go \in [D \X Nat -> Nat]
    OBVIOUS
  <2>3. Nearer(D, B, next, mu)
    BY DEF Nearer
  <2>4. PICK f \in [D -> Nat] : Solves(f, D, B, base, next, go)
    <3> HIDE DEF D, mu, base, next, go, B
    <3> QED  BY <2>1, <2>2, <2>3, Recursion
  <2>5. ASSUME NEW i \in D  PROVE f[i] = IF i = 0 THEN 1 ELSE b * f[i - 1]
    <3>1. CASE i = 0
      BY <3>1, <2>4 DEF Solves
    <3>2. CASE i # 0
      <4>1. next[i] = i - 1 /\ i - 1 \in D /\ f[i - 1] \in Nat
        BY <3>2
      <4>2. f[i] = go[<<i, f[next[i]]>>]
        BY <3>2, <2>4 DEF Solves
      <4> QED
        BY <4>1, <4>2, <3>2
    <3> QED
      BY <3>1, <3>2
  <2>6. f = body(n, f)
    BY <2>5
  <2> QED
    BY <2>6
<1>3. ASSUME NEW n \in Nat
      PROVE  \A i \in 0..n : it(n)[i] = IF i = 0 THEN 1 ELSE b * it(n)[i - 1]
  <2>1. it(n) = body(n, it(n))
    <3> HIDE DEF body
    <3> QED  BY <1>2
  <2> DEFINE g == it(n)
  <2>2. g = body(n, g)
    BY <2>1
  <2> HIDE DEF g
  <2>3. \A i \in 0..n : g[i] = IF i = 0 THEN 1 ELSE b * g[i - 1]
    BY <2>2
  <2> QED
    BY <2>3 DEF g
<1> HIDE DEF it
<1>4. Power(b, 0) = 1
  <2>1. 0 \in Nat /\ 0 \in 0..0
    OBVIOUS
  <2>2. it(0)[0] = 1
    BY <1>3, <2>1
  <2> QED  BY <1>1, <2>2
<1>5. ASSUME NEW n \in Nat, NEW m \in Nat, n <= m
      PROVE  it(n)[n] = it(m)[n] /\ it(n)[n] \in Nat
  <2> DEFINE T == {i \in Nat : i <= n => it(n)[i] = it(m)[i] /\ it(n)[i] \in Nat}
  <2>1. 0 \in T
    <3>1. 0 \in 0..n /\ 0 \in 0..m
      BY <1>5
    <3> QED  BY <1>3, <3>1
  <2>2. ASSUME NEW i \in Nat, i \in T  PROVE i + 1 \in T
    <3>1. CASE i + 1 <= n
      <4>1. i + 1 \in 0..n /\ i + 1 \in 0..m /\ i + 1 # 0 /\ i + 1 - 1 = i
        BY <3>1, <1>5
      <4>2. it(n)[i + 1] = b * it(n)[i] /\ it(m)[i + 1] = b * it(m)[i]
        BY <4>1, <1>3
      <4>3. it(n)[i] = it(m)[i] /\ it(n)[i] \in Nat
        BY <2>2, <3>1
      <4> QED
        BY <4>2, <4>3
    <3> QED
      BY <3>1
  <2>3. Nat \subseteq T
    <3> HIDE DEF T
    <3> QED  BY <2>1, <2>2, AllNumbers
  <2> QED
    BY <2>3
<1>6. ASSUME NEW n \in Nat
      PROVE  Power(b, n) \in Nat /\ Power(b, n + 1) = b * Power(b, n)
  <2>1. n + 1 \in Nat /\ n <= n + 1 /\ n + 1 \in 0..n + 1 /\ n + 1 # 0 /\ n + 1 - 1 = n
    OBVIOUS
  <2>2. it(n)[n] = it(n + 1)[n] /\ it(n)[n] \in Nat
    BY <1>5, <2>1
  <2>3. it(n + 1)[n + 1] = b * it(n + 1)[n]
    BY <1>3, <2>1
  <2> QED
    BY <1>1, <2>2, <2>3
<1> QED
  BY <1>4, <1>6

(* A power of a positive number is positive.                               *)
LEMMA PowerPositive ==
    ASSUME NEW b \in Nat \ {0}, NEW n \in Nat
    PROVE  Power(b, n) \in Nat \ {0}
<1> DEFINE T == {m \in Nat : Power(b, m) \in Nat \ {0}}
<1>1. 0 \in T
  BY PowerOf
<1>2. ASSUME NEW m \in Nat, m \in T  PROVE m + 1 \in T
  <2>1. Power(b, m + 1) = b * Power(b, m) /\ Power(b, m) \in Nat \ {0}
    BY <1>2, PowerOf
  <2> QED  BY <2>1
<1>3. Nat \subseteq T
  <2> HIDE DEF T
  <2> QED  BY <1>1, <1>2, AllNumbers
<1> QED
  BY <1>3

(* Powers of a sum.                                                        *)
LEMMA PowerSum ==
    ASSUME NEW b \in Nat, NEW m \in Nat, NEW n \in Nat
    PROVE  Power(b, m + n) = Power(b, m) * Power(b, n)
<1> DEFINE T == {k \in Nat : Power(b, m + k) = Power(b, m) * Power(b, k)}
<1>0. Power(b, m) \in Nat
  BY PowerOf
<1>1. 0 \in T
  BY <1>0, PowerOf
<1>2. ASSUME NEW k \in Nat, k \in T  PROVE k + 1 \in T
  <2>1. Power(b, k + 1) = b * Power(b, k) /\ Power(b, k) \in Nat
    BY PowerOf
  <2>2. m + k \in Nat /\ m + (k + 1) = (m + k) + 1
    OBVIOUS
  <2>3. Power(b, m + (k + 1)) = b * Power(b, m + k)
    BY <2>2, PowerOf
  <2>4. Power(b, m + k) = Power(b, m) * Power(b, k)
    BY <1>2
  <2>5. \A x \in Nat, y \in Nat : b * (x * y) = x * (b * y)
    OBVIOUS
  <2>6. Power(b, m + (k + 1)) = Power(b, m) * Power(b, k + 1)
    BY <2>1, <2>3, <2>4, <2>5, <1>0
  <2> QED
    BY <2>6
<1>3. Nat \subseteq T
  <2> HIDE DEF T
  <2> QED  BY <1>1, <1>2, AllNumbers
<1> QED
  BY <1>3

(* Sequences of digits. *)
Digits(r) == Seq(0..r - 1)

(* Digits are natural numbers.                                             *)
LEMMA DigitsAreNumbers ==
    ASSUME NEW r \in Nat, NEW s \in Digits(r)
    PROVE  s \in Seq(Nat)
BY DEF Digits

(* What Zeros is.                                                          *)
LEMMA ZerosOf ==
    ASSUME NEW n \in Nat
    PROVE  Zeros(n) \in Seq(Nat) /\ Len(Zeros(n)) = n /\ \A i \in 1..n : Zeros(n)[i] = 0
BY DEF Zeros

(* Zeros are digits of any radix.                                          *)
LEMMA ZerosDigits ==
    ASSUME NEW n \in Nat, NEW r \in Nat \ {0}
    PROVE  Zeros(n) \in Digits(r)
BY DEF Zeros, Digits

(* Zeros spell zero.                                                       *)
LEMMA NumberZeros ==
    ASSUME NEW n \in Nat, NEW r \in Nat
    PROVE  Number(Zeros(n), r) = 0
<1> DEFINE T == {k \in Nat : Number(Zeros(k), r) = 0}
<1>1. 0 \in T
  <2>1. Zeros(0) = <<>>
    BY DEF Zeros
  <2> QED  BY <2>1, NumberOf
<1>2. ASSUME NEW k \in Nat, k \in T  PROVE k + 1 \in T
  <2>1. Zeros(k + 1) = Append(Zeros(k), 0)
    BY DEF Zeros
  <2>2. Zeros(k) \in Seq(Nat)
    BY ZerosOf
  <2>3. \A d \in Nat : Number(Append(Zeros(k), d), r) = Number(Zeros(k), r) * r + d
    BY <2>2, NumberOf
  <2>4. Number(Append(Zeros(k), 0), r) = 0
    BY <2>3, <1>2
  <2>5. Number(Zeros(k + 1), r) = 0
    BY <2>1, <2>4
  <2> QED
    BY <2>5
<1>3. Nat \subseteq T
  <2> HIDE DEF T
  <2> QED  BY <1>1, <1>2, AllNumbers
<1> QED
  BY <1>3

(* Digits that follow others push them up by as many places.               *)
LEMMA NumberConcat ==
    ASSUME NEW r \in Nat, NEW s \in Seq(Nat), NEW t \in Seq(Nat)
    PROVE  Number(s \o t, r) = Number(s, r) * Power(r, Len(t)) + Number(t, r)
<1> DEFINE T == {u \in Seq(Nat) : Number(s \o u, r) = Number(s, r) * Power(r, Len(u)) + Number(u, r)}
<1>0. Number(s, r) \in Nat
  BY NumberOf
<1>1. <<>> \in T
  <2>1. s \o <<>> = s /\ Len(<<>>) = 0 /\ <<>> \in Seq(Nat)
    OBVIOUS
  <2>2. Power(r, 0) = 1 /\ Number(<<>>, r) = 0
    BY NumberOf, PowerOf
  <2> QED
    BY <2>1, <2>2, <1>0
<1>2. ASSUME NEW u \in Seq(Nat), NEW d \in Nat, u \in T  PROVE Append(u, d) \in T
  <2>1. s \o Append(u, d) = Append(s \o u, d) /\ s \o u \in Seq(Nat)
    OBVIOUS
  <2>2. Len(Append(u, d)) = Len(u) + 1 /\ Len(u) \in Nat /\ Append(u, d) \in Seq(Nat)
    OBVIOUS
  <2>3. Power(r, Len(u) + 1) = r * Power(r, Len(u)) /\ Power(r, Len(u)) \in Nat
    BY <2>2, PowerOf
  <2>4. Number(Append(s \o u, d), r) = Number(s \o u, r) * r + d
    BY <2>1, NumberOf
  <2>5. Number(Append(u, d), r) = Number(u, r) * r + d /\ Number(u, r) \in Nat
    BY NumberOf
  <2>6. Number(s \o u, r) = Number(s, r) * Power(r, Len(u)) + Number(u, r)
    BY <1>2
  <2>7. \A a, p, n \in Nat : (a * p + n) * r + d = a * (r * p) + (n * r + d)
    OBVIOUS
  <2>8. Number(Append(s \o u, d), r) = Number(s, r) * (r * Power(r, Len(u))) + (Number(u, r) * r + d)
    BY <2>3, <2>4, <2>5, <2>6, <2>7, <1>0
  <2>9. Number(s \o Append(u, d), r) = Number(s, r) * Power(r, Len(Append(u, d))) + Number(Append(u, d), r)
    BY <2>1, <2>2, <2>3, <2>5, <2>8
  <2> QED
    BY <2>2, <2>9
<1>3. Seq(Nat) \subseteq T
  <2> HIDE DEF T
  <2> QED  BY <1>1, <1>2, AllSequences
<1> QED
  BY <1>3

(* As many digits as n spell a number below the power n.                   *)
LEMMA NumberBound ==
    ASSUME NEW r \in Nat \ {0}, NEW s \in Digits(r)
    PROVE  Number(s, r) < Power(r, Len(s))
<1> DEFINE T == {u \in Digits(r) : Number(u, r) < Power(r, Len(u))}
<1>1. <<>> \in T
  <2>1. <<>> \in Digits(r) /\ Len(<<>>) = 0
    BY DEF Digits
  <2> QED  BY <2>1, NumberOf, PowerOf
<1>2. ASSUME NEW u \in Seq(0..r - 1), NEW d \in 0..r - 1, u \in T  PROVE Append(u, d) \in T
  <2>1. Len(Append(u, d)) = Len(u) + 1 /\ Len(u) \in Nat /\ Append(u, d) \in Digits(r)
          /\ u \in Seq(Nat) /\ d \in Nat
    BY DEF Digits
  <2>2. Power(r, Len(u) + 1) = r * Power(r, Len(u)) /\ Power(r, Len(u)) \in Nat
    BY <2>1, PowerOf
  <2>3. Number(Append(u, d), r) = Number(u, r) * r + d /\ Number(u, r) \in Nat
    BY <2>1, NumberOf
  <2>4. Number(u, r) < Power(r, Len(u))
    BY <1>2
  <2>5. \A n, p \in Nat : n < p => n * r + d < r * p
    <3>1. ASSUME NEW n \in Nat, NEW p \in Nat, n < p  PROVE n * r + d < r * p
      <4>1. (n + 1) * r <= p * r
        BY <3>1
      <4>2. (n + 1) * r = n * r + r /\ p * r = r * p
        OBVIOUS
      <4>3. n * r \in Nat /\ r * p \in Nat
        OBVIOUS
      <4> QED  BY <4>1, <4>2, <4>3
    <3> QED  BY <3>1
  <2>6. Number(Append(u, d), r) < Power(r, Len(Append(u, d)))
    BY <2>1, <2>2, <2>3, <2>4, <2>5
  <2> QED
    BY <2>1, <2>6
<1>3. Seq(0..r - 1) \subseteq T
  <2> HIDE DEF T
  <2> QED  BY <1>1, <1>2, AllSequences
<1> QED
  BY <1>3 DEF Digits

-------------------------------------------------------------------------------
(* Sequences: their parts, their leading zeros, their reverse.             *)

(* u is s and then t, index by index.                                      *)
Joined(u, s, t, S) ==
    /\ u \in Seq(S)
    /\ Len(u) = Len(s) + Len(t)
    /\ \A i \in 1..Len(s) : u[i] = s[i]
    /\ \A i \in 1..Len(t) : u[Len(s) + i] = t[i]

(* What a concatenation holds, and where.                                  *)
LEMMA ConcatAt ==
    ASSUME NEW S, NEW s \in Seq(S), NEW t \in Seq(S)
    PROVE  Joined(s \o t, s, t, S)
<1>1. s \o t \in Seq(S)
  OBVIOUS
<1>2. Len(s \o t) = Len(s) + Len(t)
  OBVIOUS
<1>3. \A i \in 1..Len(s) : (s \o t)[i] = s[i]
  OBVIOUS
<1>4. ASSUME NEW i \in 1..Len(t)  PROVE (s \o t)[Len(s) + i] = t[i]
  OBVIOUS
<1> QED
  BY <1>1, <1>2, <1>3, <1>4 DEF Joined

(* Sequences with the same members in the same places are the same.        *)
LEMMA SeqEqual ==
    ASSUME NEW S, NEW s \in Seq(S), NEW t \in Seq(S), Len(s) = Len(t),
           \A i \in 1..Len(s) : s[i] = t[i]
    PROVE  s = t
OBVIOUS

(* A higher power is no smaller.                                           *)
LEMMA PowerGrows ==
    ASSUME NEW b \in Nat \ {0}, NEW m \in Nat, NEW n \in Nat, m <= n
    PROVE  Power(b, m) <= Power(b, n)
<1>1. n - m \in Nat /\ n = m + (n - m)
  OBVIOUS
<1>2. Power(b, n) = Power(b, m) * Power(b, n - m)
  BY <1>1, PowerSum
<1>3. Power(b, m) \in Nat \ {0} /\ Power(b, n - m) \in Nat \ {0}
  BY <1>1, PowerPositive
<1>4. \A x, y \in Nat \ {0} : x <= x * y
  OBVIOUS
<1> QED
  BY <1>2, <1>3, <1>4

(* Quotient and remainder are unique.                                      *)
LEMMA DivMod ==
    ASSUME NEW r \in Nat \ {0}, NEW m \in Nat, NEW n \in Nat, NEW d \in 0..r - 1, NEW e \in 0..r - 1,
           m * r + d = n * r + e
    PROVE  m = n /\ d = e
<1>1. (m * r + d) \div r = m /\ (n * r + e) \div r = n
  OBVIOUS
<1>2. (m * r + d) % r = d /\ (n * r + e) % r = e
  OBVIOUS
<1>3. m = n
  BY <1>1
<1>4. d = e
  BY <1>2
<1> QED
  BY <1>3, <1>4

(* As many digits for the same number are the same digits.                 *)
LEMMA NumberSame ==
    ASSUME NEW r \in Nat \ {0}, NEW s \in Digits(r), NEW t \in Digits(r),
           Len(s) = Len(t), Number(s, r) = Number(t, r)
    PROVE  s = t
<1> DEFINE T == {u \in Digits(r) : \A v \in Digits(r) :
                   Len(v) = Len(u) /\ Number(u, r) = Number(v, r) => u = v}
<1>1. <<>> \in T
  <2>1. <<>> \in Digits(r)
    BY DEF Digits
  <2>2. \A v \in Digits(r) : Len(v) = Len(<<>>) => <<>> = v
    BY DEF Digits
  <2> QED  BY <2>1, <2>2
<1>2. ASSUME NEW u \in Seq(0..r - 1), NEW d \in 0..r - 1, u \in T  PROVE Append(u, d) \in T
  <2>1. Append(u, d) \in Digits(r) /\ Len(Append(u, d)) = Len(u) + 1
    BY DEF Digits
  <2>2. ASSUME NEW v \in Digits(r), Len(v) = Len(u) + 1, Number(Append(u, d), r) = Number(v, r)
        PROVE  Append(u, d) = v
    <3> DEFINE w == SubSeq(v, 1, Len(u))
               e == v[Len(u) + 1]
    <3>0. v \in Seq(0..r - 1) /\ Len(u) \in Nat
      BY DEF Digits
    <3>a. w \in Seq(0..r - 1)
      BY <3>0, <2>2
    <3>b. Len(w) = Len(u) /\ e \in 0..r - 1
      BY <3>0, <2>2
    <3>c. v = Append(w, e)
      BY <3>0, <2>2
    <3> HIDE DEF w, e
    <3>1. w \in Seq(0..r - 1) /\ Len(w) = Len(u) /\ e \in 0..r - 1 /\ v = Append(w, e)
      BY <3>a, <3>b, <3>c
    <3>2. w \in Seq(Nat) /\ u \in Seq(Nat) /\ d \in Nat /\ e \in Nat
      BY <3>1
    <3>3. Number(Append(u, d), r) = Number(u, r) * r + d /\ Number(u, r) \in Nat
      BY <3>2, NumberOf
    <3>4. Number(v, r) = Number(w, r) * r + e /\ Number(w, r) \in Nat
      BY <3>1, <3>2, NumberOf
    <3>5. Number(u, r) * r + d = Number(w, r) * r + e
      BY <3>3, <3>4, <2>2
    <3>d. ASSUME NEW m \in Nat, NEW n \in Nat, m * r + d = n * r + e
          PROVE  m = n /\ d = e
      <4>1. (m * r + d) \div r = m
        OBVIOUS
      <4>2. (n * r + e) \div r = n
        <5>1. e \in 0..r - 1
          BY <3>1
        <5> QED  BY <5>1
      <4>3. m = n
        BY <3>d, <4>1, <4>2
      <4> QED
        BY <3>1, <3>d, <4>3
    <3>6. Number(u, r) = Number(w, r) /\ d = e
      BY <3>3, <3>4, <3>5, <3>d
    <3>7. u = w
      BY <1>2, <3>1, <3>6 DEF Digits
    <3> QED
      BY <3>1, <3>6, <3>7
  <2> QED
    BY <2>1, <2>2
<1>3. Seq(0..r - 1) \subseteq T
  <2> HIDE DEF T
  <2> QED  BY <1>1, <1>2, AllSequences
<1> QED
  BY <1>3 DEF Digits

(* Leading zeros. *)
Canonical(s) == s = <<>> \/ s[1] # 0

(* The least of some numbers.                                              *)
LEMMA MinOf ==
    ASSUME NEW T \in SUBSET Nat, T # {}
    PROVE  Min(T) \in T /\ \A x \in T : Min(T) <= x
BY LeastNat DEF Min

(* What Leading counts: the zeros a sequence starts with.                  *)
LEMMA LeadingOf ==
    ASSUME NEW s \in Seq(Nat)
    PROVE  /\ Leading(s) \in 0..Len(s)
           /\ \A i \in 1..Leading(s) : s[i] = 0
           /\ Leading(s) < Len(s) => s[Leading(s) + 1] # 0
<1> DEFINE I == {i \in 1..Len(s) : s[i] # 0}
<1>1. FirstNonZero(s) = IF I # {} THEN Min(I) ELSE 0
  BY DEF FirstNonZero, SelectInSeq
<1>2. CASE I = {}
  <2>1. Leading(s) = Len(s)
    BY <1>1, <1>2 DEF Leading
  <2>2. Len(s) \in 0..Len(s) /\ \A i \in 1..Len(s) : s[i] = 0
    BY <1>2
  <2> QED  BY <2>1, <2>2
<1>3. CASE I # {}
  <2>1. Min(I) \in I /\ \A x \in I : Min(I) <= x
    <3>1. I \in SUBSET Nat
      OBVIOUS
    <3> HIDE DEF I
    <3> QED  BY <1>3, <3>1, MinOf
  <2>2. Leading(s) = Min(I) - 1
    <3>1. Min(I) \in 1..Len(s)
      BY <2>1
    <3> HIDE DEF I
    <3> QED  BY <1>1, <1>3, <3>1 DEF Leading
  <2>3. PICK m \in 1..Len(s) : m = Min(I) /\ s[m] # 0
    BY <2>1
  <2>4. ASSUME NEW i \in 1..m - 1  PROVE s[i] = 0
    <3>1. i \in 1..Len(s) /\ ~ (m <= i)
      BY <2>3
    <3>2. i \notin I
      <4> HIDE DEF I
      <4> QED  BY <2>1, <2>3, <3>1
    <3> QED
      BY <3>1, <3>2
  <2> HIDE DEF I
  <2> QED
    BY <2>2, <2>3, <2>4
<1> QED
  BY <1>2, <1>3

(* Nothing else counts them.                                               *)
LEMMA LeadingIs ==
    ASSUME NEW s \in Seq(Nat), NEW n \in 0..Len(s), \A i \in 1..n : s[i] = 0,
           n < Len(s) => s[n + 1] # 0
    PROVE  Leading(s) = n
<1>1. /\ Leading(s) \in 0..Len(s)
      /\ \A i \in 1..Leading(s) : s[i] = 0
      /\ Leading(s) < Len(s) => s[Leading(s) + 1] # 0
  BY LeadingOf
<1>2. ~ (Leading(s) < n)
  <2> SUFFICES ASSUME Leading(s) < n  PROVE FALSE
    OBVIOUS
  <2>1. Leading(s) + 1 \in 1..n /\ Leading(s) < Len(s)
    BY <1>1
  <2> QED  BY <1>1, <2>1
<1>3. ~ (n < Leading(s))
  <2> SUFFICES ASSUME n < Leading(s)  PROVE FALSE
    OBVIOUS
  <2>1. n + 1 \in 1..Leading(s) /\ n < Len(s)
    BY <1>1
  <2> QED  BY <1>1, <2>1
<1> QED
  BY <1>1, <1>2, <1>3

(* What Leading counts and Skip leaves.                                    *)
LEMMA Unleading ==
    ASSUME NEW s \in Seq(Nat)
    PROVE  /\ Leading(s) \in Nat
           /\ s = Zeros(Leading(s)) \o Skip(s, Leading(s))
           /\ Skip(s, Leading(s)) \in Seq(Nat)
           /\ Canonical(Skip(s, Leading(s)))
<1> DEFINE n == Leading(s)
           t == SubSeq(s, n + 1, Len(s))
<1>1. /\ n \in 0..Len(s)
      /\ \A i \in 1..n : s[i] = 0
      /\ n < Len(s) => s[n + 1] # 0
  BY LeadingOf
<1> HIDE DEF n
<1>2. t \in Seq(Nat) /\ Len(t) = Len(s) - n
  BY <1>1
<1>3. \A i \in 1..Len(s) - n : t[i] = s[n + i]
  BY <1>1
<1> HIDE DEF t
<1>4. Zeros(n) \in Seq(Nat) /\ Len(Zeros(n)) = n /\ \A i \in 1..n : Zeros(n)[i] = 0
  BY <1>1, ZerosOf
<1>5. s = Zeros(n) \o t
  <2> DEFINE z == Zeros(n)
             u == z \o t
  <2>0. z \in Seq(Nat) /\ Len(z) = n /\ \A i \in 1..n : z[i] = 0
    BY <1>4
  <2> HIDE DEF z
  <2>a. Joined(u, z, t, Nat)
    BY <1>2, <2>0, ConcatAt
  <2> HIDE DEF u
  <2>1. /\ u \in Seq(Nat)
        /\ Len(u) = Len(z) + Len(t)
        /\ \A i \in 1..Len(z) : u[i] = z[i]
        /\ \A i \in 1..Len(t) : u[Len(z) + i] = t[i]
    BY <2>a DEF Joined
  <2>2. Len(u) = Len(s)
    BY <1>1, <1>2, <2>0, <2>1
  <2>3. ASSUME NEW i \in 1..Len(s)  PROVE u[i] = s[i]
    <3>1. CASE i <= n
      BY <3>1, <1>1, <2>0, <2>1
    <3>2. CASE i > n
      <4>1. i - n \in 1..Len(s) - n /\ i = n + (i - n)
        BY <3>2, <1>1
      <4>2. u[n + (i - n)] = t[i - n]
        BY <4>1, <1>2, <2>0, <2>1
      <4>3. t[i - n] = s[n + (i - n)]
        BY <4>1, <1>3
      <4> QED  BY <4>1, <4>2, <4>3
    <3> QED
      BY <3>1, <3>2, <1>1
  <2>4. u = s
    <3>1. u \in Seq(Nat) /\ \A i \in 1..Len(u) : u[i] = s[i]
      BY <2>1, <2>2, <2>3
    <3> QED  BY <2>2, <3>1, SeqEqual
  <2> QED  BY <2>4 DEF u, z
<1>6. Canonical(t)
  <2>1. CASE n < Len(s)
    <3>1. t[1] = s[n + 1]
      BY <2>1, <1>1, <1>3
    <3> QED  BY <3>1, <2>1, <1>1 DEF Canonical
  <2>2. CASE ~ (n < Len(s))
    <3>1. Len(t) = 0
      BY <2>2, <1>1, <1>2
    <3> QED  BY <3>1, <1>2 DEF Canonical
  <2> QED  BY <2>1, <2>2
<1>7. n \in Nat
  BY <1>1
<1> QED
  BY <1>2, <1>5, <1>6, <1>7 DEF n, t, Skip

(* Zeros before a canonical sequence are its leading zeros.                *)
LEMMA LeadingConcat ==
    ASSUME NEW n \in Nat, NEW s \in Seq(Nat), Canonical(s)
    PROVE  Leading(Zeros(n) \o s) = n
<1> DEFINE u == Zeros(n) \o s
<1>1. Zeros(n) \in Seq(Nat) /\ Len(Zeros(n)) = n /\ \A i \in 1..n : Zeros(n)[i] = 0
  BY ZerosOf
<1>2. u \in Seq(Nat) /\ Len(u) = n + Len(s)
  BY <1>1
<1>3. \A i \in 1..n : u[i] = 0
  BY <1>1
<1>4. ASSUME n < Len(u)  PROVE u[n + 1] # 0
  <2>1. s # <<>> /\ Len(s) > 0
    BY <1>2, <1>4
  <2>2. u[n + 1] = s[1]
    BY <1>1, <2>1
  <2> QED  BY <2>1, <2>2 DEF Canonical
<1>5. n \in 0..Len(u)
  BY <1>2
<1> HIDE DEF u
<1>6. Leading(u) = n
  BY <1>2, <1>3, <1>4, <1>5, LeadingIs
<1> QED
  BY <1>6 DEF u

(* Leading zeros do not change a number.                                   *)
LEMMA NumberUnleading ==
    ASSUME NEW n \in Nat, NEW s \in Seq(Nat), NEW r \in Nat
    PROVE  Number(Zeros(n) \o s, r) = Number(s, r)
<1>1. Number(Zeros(n) \o s, r) = Number(Zeros(n), r) * Power(r, Len(s)) + Number(s, r)
  BY ZerosOf, NumberConcat
<1>2. Number(Zeros(n), r) = 0
  BY NumberZeros
<1>3. Power(r, Len(s)) \in Nat /\ Number(s, r) \in Nat
  BY PowerOf, NumberOf, Len(s) \in Nat
<1> QED
  BY <1>1, <1>2, <1>3

(* A number whose first digit is not zero is at least the power of the     *)
(* other digits.                                                           *)
LEMMA NumberLow ==
    ASSUME NEW r \in Nat \ {0}, NEW s \in Digits(r), s # <<>>, s[1] # 0
    PROVE  Len(s) - 1 \in Nat /\ Power(r, Len(s) - 1) <= Number(s, r)
<1> DEFINE t == Tail(s)
           d == s[1]
<1>1. Len(s) - 1 \in Nat /\ t \in Seq(Nat) /\ Len(t) = Len(s) - 1 /\ d \in Nat \ {0}
        /\ s = <<d>> \o t
  BY DEF Digits
<1> HIDE DEF t, d
<1> DEFINE h == <<d>>
<1>2. h \in Seq(Nat) /\ h = Append(<<>>, d) /\ <<>> \in Seq(Nat) /\ s = h \o t
  BY <1>1
<1> HIDE DEF h
<1>3. Number(h, r) = d
  <2>1. Number(Append(<<>>, d), r) = Number(<<>>, r) * r + d
    BY <1>1, <1>2, NumberOf
  <2>2. Number(<<>>, r) = 0
    BY NumberOf
  <2> QED  BY <1>1, <1>2, <2>1, <2>2
<1>4. Number(s, r) = d * Power(r, Len(t)) + Number(t, r)
  <2>1. Number(h \o t, r) = Number(h, r) * Power(r, Len(t)) + Number(t, r)
    BY <1>1, <1>2, NumberConcat
  <2> QED  BY <1>2, <1>3, <2>1
<1>5. Power(r, Len(t)) \in Nat /\ Number(t, r) \in Nat
  BY <1>1, PowerOf, NumberOf
<1>6. \A x \in Nat \ {0}, y, z \in Nat : y <= x * y + z
  OBVIOUS
<1> QED
  BY <1>1, <1>4, <1>5, <1>6

(* A number has one canonical sequence of digits.                          *)
LEMMA CanonicalSame ==
    ASSUME NEW r \in Nat \ {0}, NEW s \in Digits(r), NEW t \in Digits(r),
           Canonical(s), Canonical(t), Number(s, r) = Number(t, r)
    PROVE  s = t
<1>1. ASSUME NEW u \in Digits(r), NEW v \in Digits(r), Canonical(v), Number(u, r) = Number(v, r),
             Len(u) < Len(v)
      PROVE  FALSE
  <2>1. v # <<>> /\ v[1] # 0 /\ Len(u) \in Nat /\ Len(u) <= Len(v) - 1 /\ Len(v) - 1 \in Nat
    BY <1>1 DEF Canonical, Digits
  <2>2. Power(r, Len(v) - 1) <= Number(v, r)
    BY <2>1, NumberLow
  <2>3. Number(u, r) < Power(r, Len(u))
    BY NumberBound
  <2>4. Power(r, Len(u)) <= Power(r, Len(v) - 1)
    BY <2>1, PowerGrows
  <2>5. Number(u, r) \in Nat /\ Power(r, Len(u)) \in Nat /\ Power(r, Len(v) - 1) \in Nat
    BY <2>1, PowerOf, NumberOf, DigitsAreNumbers
  <2> QED
    BY <2>2, <2>3, <2>4, <2>5, <1>1
<1>2. ~ (Len(s) < Len(t)) /\ ~ (Len(t) < Len(s))
  BY <1>1
<1>3. Len(s) = Len(t)
  BY <1>2 DEF Digits
<1> QED
  BY <1>3, NumberSame

(* What a part of a sequence holds.                                        *)
LEMMA SubSeqOf ==
    ASSUME NEW S, NEW s \in Seq(S), NEW m \in Nat \ {0}, NEW n \in 0..Len(s), m <= n + 1
    PROVE  /\ SubSeq(s, m, n) \in Seq(S)
           /\ Len(SubSeq(s, m, n)) = n - m + 1
           /\ \A i \in 1..n - m + 1 : SubSeq(s, m, n)[i] = s[m + i - 1]
<1>1. SubSeq(s, m, n) \in Seq(S)
  OBVIOUS
<1>2. Len(SubSeq(s, m, n)) = n - m + 1
  OBVIOUS
<1>3. \A i \in 1..n - m + 1 : SubSeq(s, m, n)[i] = s[m + i - 1]
  OBVIOUS
<1> QED
  BY <1>1, <1>2, <1>3

(* A sequence cut in two.                                                  *)
LEMMA Cut ==
    ASSUME NEW S, NEW s \in Seq(S), NEW n \in 0..Len(s)
    PROVE  s = SubSeq(s, 1, n) \o SubSeq(s, n + 1, Len(s))
<1> DEFINE a == SubSeq(s, 1, n)
           b == SubSeq(s, n + 1, Len(s))
           u == a \o b
<1>1. a \in Seq(S) /\ Len(a) = n /\ \A i \in 1..n : a[i] = s[i]
  <2>1. a \in Seq(S)
    OBVIOUS
  <2>2. Len(a) = n
    OBVIOUS
  <2>3. \A i \in 1..n : a[i] = s[i]
    OBVIOUS
  <2> QED  BY <2>1, <2>2, <2>3
<1>2. b \in Seq(S) /\ Len(b) = Len(s) - n /\ \A i \in 1..Len(s) - n : b[i] = s[n + i]
  <2>1. b \in Seq(S)
    OBVIOUS
  <2>2. Len(b) = Len(s) - n
    OBVIOUS
  <2>3. \A i \in 1..Len(s) - n : b[i] = s[n + i]
    OBVIOUS
  <2> QED  BY <2>1, <2>2, <2>3
<1> HIDE DEF a, b
<1>3. Joined(u, a, b, S)
  BY <1>1, <1>2, ConcatAt
<1> HIDE DEF u
<1>4. u \in Seq(S) /\ Len(u) = Len(s)
  BY <1>1, <1>2, <1>3 DEF Joined
<1>5. ASSUME NEW i \in 1..Len(s)  PROVE u[i] = s[i]
  <2>1. CASE i <= n
    BY <2>1, <1>1, <1>3 DEF Joined
  <2>2. CASE i > n
    <3>1. i - n \in 1..Len(s) - n /\ i = n + (i - n)
      BY <2>2
    <3>2. u[n + (i - n)] = b[i - n] /\ b[i - n] = s[n + (i - n)]
      BY <3>1, <1>1, <1>2, <1>3 DEF Joined
    <3> QED  BY <3>1, <3>2
  <2> QED  BY <2>1, <2>2
<1>6. u = s
  BY <1>4, <1>5, SeqEqual
<1> QED
  BY <1>6 DEF u, a, b

(* Reversing. *)
LEMMA ReverseOf ==
    ASSUME NEW S, NEW s \in Seq(S)
    PROVE  /\ Reverse(s) \in Seq(S)
           /\ Len(Reverse(s)) = Len(s)
           /\ \A i \in 1..Len(s) : Reverse(s)[i] = s[Len(s) - i + 1]
<1>1. \A i \in 1..Len(s) : s[Len(s) - i + 1] \in S
  OBVIOUS
<1>2. Reverse(s) \in Seq(S)
  BY <1>1 DEF Reverse
<1>3. Len(Reverse(s)) = Len(s)
  BY DEF Reverse
<1>4. \A i \in 1..Len(s) : Reverse(s)[i] = s[Len(s) - i + 1]
  BY DEF Reverse
<1> QED
  BY <1>2, <1>3, <1>4

(* A sequence reversed twice is itself.                                    *)
LEMMA ReverseTwice ==
    ASSUME NEW S, NEW s \in Seq(S)
    PROVE  Reverse(Reverse(s)) = s
<1> DEFINE r == Reverse(s)
           u == Reverse(r)
<1>1. r \in Seq(S) /\ Len(r) = Len(s) /\ \A i \in 1..Len(s) : r[i] = s[Len(s) - i + 1]
  BY ReverseOf
<1> HIDE DEF r
<1>2. u \in Seq(S) /\ Len(u) = Len(r) /\ \A i \in 1..Len(r) : u[i] = r[Len(r) - i + 1]
  BY <1>1, ReverseOf
<1> HIDE DEF u
<1>3. ASSUME NEW i \in 1..Len(u)  PROVE u[i] = s[i]
  <2>1. i \in 1..Len(r) /\ Len(s) - i + 1 \in 1..Len(s) /\ Len(s) - (Len(s) - i + 1) + 1 = i
    BY <1>1, <1>2
  <2>2. u[i] = r[Len(s) - i + 1]
    BY <1>1, <1>2, <2>1
  <2>3. r[Len(s) - i + 1] = s[Len(s) - (Len(s) - i + 1) + 1]
    BY <1>1, <2>1
  <2> QED
    BY <2>1, <2>2, <2>3
<1>4. u = s
  BY <1>1, <1>2, <1>3, SeqEqual
<1> QED
  BY <1>4 DEF u, r

(* The reverse of a concatenation.                                         *)
LEMMA ReverseConcat ==
    ASSUME NEW S, NEW s \in Seq(S), NEW t \in Seq(S)
    PROVE  Reverse(s \o t) = Reverse(t) \o Reverse(s)
<1> DEFINE c == s \o t
           u == Reverse(c)
           a == Reverse(t)
           b == Reverse(s)
           v == a \o b
<1>1. Joined(c, s, t, S)
  BY ConcatAt
<1> HIDE DEF c
<1>2. u \in Seq(S) /\ Len(u) = Len(c) /\ \A i \in 1..Len(c) : u[i] = c[Len(c) - i + 1]
  BY <1>1, ReverseOf DEF Joined
<1>3. a \in Seq(S) /\ Len(a) = Len(t) /\ \A i \in 1..Len(t) : a[i] = t[Len(t) - i + 1]
  BY ReverseOf
<1>4. b \in Seq(S) /\ Len(b) = Len(s) /\ \A i \in 1..Len(s) : b[i] = s[Len(s) - i + 1]
  BY ReverseOf
<1> HIDE DEF u, a, b
<1>5. Joined(v, a, b, S)
  BY <1>3, <1>4, ConcatAt
<1> HIDE DEF v
<1>6. Len(u) = Len(s) + Len(t) /\ Len(v) = Len(u) /\ v \in Seq(S) /\ Len(s) \in Nat
        /\ Len(t) \in Nat
  BY <1>1, <1>2, <1>3, <1>4, <1>5 DEF Joined
<1>7. ASSUME NEW i \in 1..Len(u)  PROVE u[i] = v[i]
  <2>0. u[i] = c[Len(s) + Len(t) - i + 1]
    BY <1>1, <1>2, <1>6 DEF Joined
  <2>1. CASE i <= Len(t)
    <3>1. Len(t) - i + 1 \in 1..Len(t) /\ i \in 1..Len(t)
            /\ Len(s) + Len(t) - i + 1 = Len(s) + (Len(t) - i + 1)
      BY <2>1, <1>6
    <3>2. u[i] = t[Len(t) - i + 1]
      BY <2>0, <3>1, <1>1 DEF Joined
    <3>3. v[i] = t[Len(t) - i + 1]
      BY <3>1, <1>3, <1>5 DEF Joined
    <3> QED  BY <3>2, <3>3
  <2>2. CASE i > Len(t)
    <3> DEFINE j == i - Len(t)
    <3>1. j \in 1..Len(s) /\ i = Len(t) + j /\ Len(s) - j + 1 \in 1..Len(s)
            /\ Len(s) + Len(t) - i + 1 = Len(s) - j + 1
      BY <2>2, <1>6
    <3> HIDE DEF j
    <3>2. u[i] = s[Len(s) - j + 1]
      BY <2>0, <3>1, <1>1 DEF Joined
    <3>3. v[i] = s[Len(s) - j + 1]
      BY <3>1, <1>3, <1>4, <1>5 DEF Joined
    <3> QED  BY <3>2, <3>3
  <2> QED
    BY <2>1, <2>2, <1>6
<1>8. u = v
  BY <1>2, <1>6, <1>7, SeqEqual
<1> QED
  BY <1>8 DEF u, v, a, b, c

(* Zeros read the same from either end.                                    *)
LEMMA ReverseZeros ==
    ASSUME NEW n \in Nat
    PROVE  Reverse(Zeros(n)) = Zeros(n)
<1> DEFINE z == Zeros(n)
           u == Reverse(z)
<1>1. z \in Seq(Nat) /\ Len(z) = n /\ \A i \in 1..n : z[i] = 0
  BY ZerosOf
<1> HIDE DEF z
<1>2. u \in Seq(Nat) /\ Len(u) = n /\ \A i \in 1..n : u[i] = z[n - i + 1]
  BY <1>1, ReverseOf
<1> HIDE DEF u
<1>3. ASSUME NEW i \in 1..Len(u)  PROVE u[i] = z[i]
  <2>1. i \in 1..n /\ n - i + 1 \in 1..n
    BY <1>2
  <2> QED
    BY <1>1, <1>2, <2>1
<1>4. u = z
  BY <1>1, <1>2, <1>3, SeqEqual
<1> QED
  BY <1>4 DEF u, z

(* Trimmed takes the zeros at the end away.                                *)
LEMMA TrimmedOf ==
    ASSUME NEW s \in Seq(Nat)
    PROVE  \E n \in Nat : s = Trimmed(s) \o Zeros(n) /\ Trimmed(s) \in Seq(Nat)
             /\ Len(s) = Len(Trimmed(s)) + n
<1> DEFINE r == Reverse(s)
           n == Leading(r)
           t == Skip(r, n)
<1>1. r \in Seq(Nat) /\ Reverse(r) = s
  BY ReverseOf, ReverseTwice
<1> HIDE DEF r
<1>2. n \in Nat /\ r = Zeros(n) \o t /\ t \in Seq(Nat)
  BY <1>1, Unleading
<1> HIDE DEF n, t
<1>3. Zeros(n) \in Seq(Nat) /\ Len(Zeros(n)) = n
  BY <1>2, ZerosOf
<1>4. Reverse(Zeros(n) \o t) = Reverse(t) \o Reverse(Zeros(n))
  BY <1>2, <1>3, ReverseConcat
<1>5. s = Reverse(t) \o Zeros(n)
  BY <1>1, <1>2, <1>4, ReverseZeros
<1>6. Trimmed(s) = Reverse(t)
  BY DEF Trimmed, t, n, r
<1>7. Reverse(t) \in Seq(Nat)
  BY <1>2, ReverseOf
<1>8. Len(s) = Len(Reverse(t)) + n
  BY <1>3, <1>5, <1>7
<1> QED
  BY <1>2, <1>5, <1>6, <1>7, <1>8

-------------------------------------------------------------------------------
(* Amounts.                                                                *)

(* The radix of amounts is a number above one.                             *)
LEMMA TenOf == Ten \in Nat \ {0, 1} /\ Ten \in Nat /\ Ten \in Nat \ {0}
BY Radices

(* Numeral solves its equation.                                            *)
LEMMA NumeralEquation ==
    ASSUME NEW n \in Nat
    PROVE  Numeral[n] = IF n < Ten THEN <<n>> ELSE Append(Numeral[n \div Ten], n % Ten)
<1> DEFINE body(f) == [m \in Nat |-> IF m < Ten THEN <<m>> ELSE Append(f[m \div Ten], m % Ten)]
           V == Seq(Nat)
           B == 0..Ten - 1
           mu == [m \in Nat |-> m]
           base == [m \in Nat |-> <<m>>]
           next == [m \in Nat |-> m \div Ten]
           go == [p \in Nat \X V |-> Append(p[2], p[1] % Ten)]
<1>1. \A m \in Nat : m \div Ten \in Nat /\ m % Ten \in Nat
  BY TenOf
<1>2. mu \in [Nat -> Nat] /\ base \in [Nat -> V] /\ next \in [Nat -> Nat]
  BY <1>1
<1>3. go \in [Nat \X V -> V]
  <2>1. ASSUME NEW p \in Nat \X V  PROVE Append(p[2], p[1] % Ten) \in V
    <3>1. p[1] % Ten \in Nat
      BY <1>1
    <3>2. p[2] \in Seq(Nat)
      OBVIOUS
    <3> QED  BY <3>1, <3>2
  <2> HIDE DEF V
  <2> QED  BY <2>1
<1>4. Nearer(Nat, B, next, mu)
  <2>1. ASSUME NEW m \in Nat, m \notin B  PROVE mu[next[m]] < mu[m]
    <3>1. m >= Ten /\ next[m] = m \div Ten /\ m \div Ten \in Nat
      BY <2>1, <1>1, TenOf
    <3>2. m \div Ten < m
      BY <3>1, TenOf
    <3> QED  BY <3>1, <3>2
  <2> HIDE DEF mu, next, B
  <2> QED  BY <2>1 DEF Nearer
<1>5. PICK f \in [Nat -> V] : Solves(f, Nat, B, base, next, go)
  <2> HIDE DEF V, B, mu, base, next, go
  <2> QED  BY <1>2, <1>3, <1>4, Recursion
<1>6. ASSUME NEW m \in Nat  PROVE f[m] = body(f)[m]
  <2>1. CASE m < Ten
    <3>1. m \in B
      BY <2>1, TenOf
    <3>2. f[m] = base[m]
      <4> HIDE DEF B, base, next, go, V
      <4> QED  BY <3>1, <1>5 DEF Solves
    <3> QED  BY <2>1, <3>2
  <2>2. CASE ~ (m < Ten)
    <3>1. m \notin B
      BY <2>2, TenOf
    <3>2. f[m] = go[<<m, f[next[m]]>>]
      <4> HIDE DEF B, base, next, go, V
      <4> QED  BY <3>1, <1>5 DEF Solves
    <3>3. next[m] = m \div Ten /\ f[m \div Ten] \in V
      BY <1>1
    <3> QED  BY <2>2, <3>2, <3>3
  <2> QED
    BY <2>1, <2>2
<1>7. f = body(f)
  <2> HIDE DEF V
  <2> QED  BY <1>6
<1>8. Numeral = CHOOSE g : g = body(g)
  BY DEF Numeral
<1>9. Numeral = body(Numeral)
  <2> HIDE DEF body
  <2> QED  BY <1>7, <1>8
<1>10. Numeral[n] = body(Numeral)[n]
  <2> HIDE DEF body
  <2> QED  BY <1>9
<1> QED
  BY <1>10

(* A numeral names its number.                                             *)
LEMMA NumeralOf ==
    ASSUME NEW n \in Nat
    PROVE  Numeral[n] \in Digits(Ten) /\ Len(Numeral[n]) \in Nat \ {0}
             /\ Number(Numeral[n], Ten) = n
<1> DEFINE T == {m \in Nat : /\ Numeral[m] \in Digits(Ten)
                             /\ Len(Numeral[m]) \in Nat \ {0}
                             /\ Number(Numeral[m], Ten) = m}
<1>1. ASSUME NEW m \in Nat, \A k \in 0..m - 1 : k \in T  PROVE m \in T
  <2>1. CASE m < Ten
    <3>1. Numeral[m] = <<m>>
      BY <2>1, NumeralEquation
    <3>2. <<m>> \in Digits(Ten) /\ Len(<<m>>) \in Nat \ {0}
      BY <2>1, TenOf DEF Digits
    <3>3. Number(<<m>>, Ten) = m
      <4>1. <<m>> = Append(<<>>, m) /\ <<>> \in Seq(Nat)
        OBVIOUS
      <4>2. Number(Append(<<>>, m), Ten) = Number(<<>>, Ten) * Ten + m
        BY <4>1, NumberOf, TenOf
      <4>3. Number(<<>>, Ten) = 0
        BY NumberOf, TenOf
      <4> QED  BY <4>1, <4>2, <4>3, TenOf
    <3> QED  BY <3>1, <3>2, <3>3
  <2>2. CASE ~ (m < Ten)
    <3> DEFINE q == m \div Ten
               d == m % Ten
               s == Numeral[q]
    <3>1. q \in Nat /\ d \in 0..Ten - 1 /\ m = q * Ten + d
      BY TenOf
    <3>2. q < m
      BY <2>2, TenOf
    <3>3. q \in T
      BY <1>1, <3>1, <3>2
    <3>4. Numeral[m] = Append(s, d)
      BY <2>2, NumeralEquation
    <3>5. s \in Digits(Ten) /\ Number(s, Ten) = q
      BY <3>3
    <3> HIDE DEF q, d, s
    <3>6. s \in Seq(Nat) /\ d \in Nat
      BY <3>1, <3>5, DigitsAreNumbers, TenOf
    <3>7. Append(s, d) \in Digits(Ten)
      BY <3>1, <3>5 DEF Digits
    <3>8. Len(Append(s, d)) \in Nat \ {0}
      BY <3>6
    <3>9. Number(Append(s, d), Ten) = Number(s, Ten) * Ten + d
      BY <3>6, NumberOf, TenOf
    <3>10. Number(Append(s, d), Ten) = m
      BY <3>1, <3>5, <3>9
    <3> QED
      BY <3>4, <3>7, <3>8, <3>10
  <2> QED
    BY <2>1, <2>2
<1>2. Nat \subseteq T
  <2> HIDE DEF T
  <2> QED  BY <1>1, AllSmaller
<1> QED
  BY <1>2

(* Padding on the left changes the length of a numeral and not its number. *)
LEMMA PadLeftOf ==
    ASSUME NEW s \in Digits(Ten), NEW n \in Nat
    PROVE  /\ PadLeft(s, n) \in Digits(Ten)
           /\ Len(PadLeft(s, n)) >= n
           /\ Number(PadLeft(s, n), Ten) = Number(s, Ten)
<1>1. s \in Seq(0..Ten - 1) /\ s \in Seq(Nat) /\ Len(s) \in Nat
  BY DigitsAreNumbers, TenOf DEF Digits
<1>2. CASE Len(s) < n
  <2> DEFINE k == n - Len(s)
             z == Zeros(k)
  <2>1. k \in Nat
    BY <1>1, <1>2
  <2>2. PadLeft(s, n) = z \o s
    BY <1>2 DEF PadLeft
  <2>3. z \in Seq(0..Ten - 1) /\ Len(z) = k
    <3> HIDE DEF k
    <3> QED  BY <2>1, ZerosDigits, ZerosOf, TenOf DEF Digits
  <2>4. Number(z \o s, Ten) = Number(s, Ten)
    <3> HIDE DEF k
    <3> QED  BY <2>1, <1>1, NumberUnleading, TenOf
  <2> HIDE DEF z
  <2>5. Joined(z \o s, z, s, 0..Ten - 1)
    BY <1>1, <2>3, ConcatAt
  <2> QED
    BY <1>1, <2>2, <2>3, <2>4, <2>5 DEF Joined, Digits
<1>3. CASE ~ (Len(s) < n)
  BY <1>1, <1>3 DEF PadLeft
<1> QED
  BY <1>2, <1>3

(* Padding on the right is a factor Ten for each zero.                     *)
LEMMA PadRightOf ==
    ASSUME NEW s \in Seq(Nat), NEW n \in Nat, Len(s) <= n
    PROVE  Number(PadRight(s, n), Ten) = Number(s, Ten) * Power(Ten, n - Len(s))
<1> DEFINE k == n - Len(s)
<1>1. k \in Nat
  OBVIOUS
<1> HIDE DEF k
<1>2. Zeros(k) \in Seq(Nat) /\ Len(Zeros(k)) = k
  BY <1>1, ZerosOf
<1>3. Number(s \o Zeros(k), Ten) = Number(s, Ten) * Power(Ten, Len(Zeros(k))) + Number(Zeros(k), Ten)
  BY <1>2, NumberConcat, TenOf
<1>4. Number(Zeros(k), Ten) = 0
  BY <1>1, NumberZeros, TenOf
<1>5. Number(s, Ten) \in Nat /\ Power(Ten, k) \in Nat
  BY <1>1, NumberOf, PowerOf, TenOf
<1>6. Number(s \o Zeros(k), Ten) = Number(s, Ten) * Power(Ten, k)
  BY <1>2, <1>3, <1>4, <1>5
<1> QED
  BY <1>6 DEF PadRight, k

(* A numeral with no point, and one with. *)
LEMMA ParseWhole ==
    ASSUME NEW w \in Digits(Ten), w # <<>>, NEW d \in Nat
    PROVE  ParseUnits(w, d) = Number(w, Ten) * Power(Ten, d)
<1>1. w \in Seq(0..Ten - 1) /\ w \in Seq(Nat) /\ Len(w) \in Nat
  BY DigitsAreNumbers, TenOf DEF Digits
<1>2. Dots(w) = {}
  BY <1>1, TenOf DEF Dots, Dot
<1>3. DotAt(w) = Len(w) + 1
  BY <1>2 DEF DotAt
<1>4. SubSeq(w, 1, Len(w)) = w
  BY <1>1
<1>5. Skip(w, Len(w) + 1) = <<>> /\ Len(<<>>) = 0
  BY <1>1 DEF Skip
<1>6. Cardinality(Dots(w)) = 0
  BY <1>2, FS_EmptySet
<1>7. PadRight(<<>>, d) = Zeros(d)
  <2>1. Zeros(d) \in Seq(Nat) /\ d - 0 = d
    BY ZerosOf
  <2>2. <<>> \o Zeros(d) = Zeros(d)
    BY <2>1
  <2> QED  BY <2>1, <2>2, <1>5 DEF PadRight
<1>8. Number(Zeros(d), Ten) = 0
  BY NumberZeros, TenOf
<1>9. Number(w, Ten) \in Nat /\ Power(Ten, d) \in Nat
  BY <1>1, NumberOf, PowerOf, TenOf
<1>10. Len(w) + 1 - 1 = Len(w) /\ ~ (0 > 1) /\ ~ (0 > d)
  BY <1>1
<1>11. ParseUnits(w, d) = Number(SubSeq(w, 1, Len(w) + 1 - 1), Ten) * Power(Ten, d)
                            + Number(PadRight(Skip(w, Len(w) + 1), d), Ten)
  BY <1>3, <1>5, <1>6, <1>10 DEF ParseUnits
<1>12. SubSeq(w, 1, Len(w) + 1 - 1) = w
  BY <1>4, <1>10
<1>13. Number(PadRight(Skip(w, Len(w) + 1), d), Ten) = 0
  BY <1>5, <1>7, <1>8
<1>14. ParseUnits(w, d) = Number(w, Ten) * Power(Ten, d) + 0
  BY <1>11, <1>12, <1>13
<1> QED
  BY <1>9, <1>14

(* A text with a point is worth its whole part and its padded fraction.    *)
LEMMA ParsePoint ==
    ASSUME NEW w \in Digits(Ten), NEW f \in Digits(Ten), NEW d \in Nat, Len(f) <= d
    PROVE  ParseUnits(w \o <<Dot>> \o f, d)
             = Number(w, Ten) * Power(Ten, d) + Number(PadRight(f, d), Ten)
<1> DEFINE n == Len(w)
           p == w \o <<Dot>>
           t == p \o f
<1>1. w \in Seq(Nat) /\ f \in Seq(Nat) /\ Dot \in Nat /\ n \in Nat /\ Len(f) \in Nat
  BY DigitsAreNumbers, TenOf DEF Dot
<1>2. p \in Seq(Nat) /\ Len(p) = n + 1 /\ p[n + 1] = Dot /\ \A i \in 1..n : p[i] = w[i]
  <2>1. p \in Seq(Nat)
    BY <1>1
  <2>2. Len(p) = n + 1
    BY <1>1
  <2>3. p[n + 1] = Dot
    BY <1>1
  <2>4. \A i \in 1..n : p[i] = w[i]
    BY <1>1
  <2> QED  BY <2>1, <2>2, <2>3, <2>4
<1>3. \A i \in 1..n : w[i] # Dot
  BY TenOf DEF Digits, Dot
<1>4. \A i \in 1..Len(f) : f[i] # Dot
  BY TenOf DEF Digits, Dot
<1> HIDE DEF p, n
<1>5. Joined(t, p, f, Nat)
  BY <1>1, <1>2, ConcatAt
<1>6. w \o <<Dot>> \o f = t
  BY DEF t, p
<1> HIDE DEF t
<1>7. t \in Seq(Nat) /\ Len(t) = n + 1 + Len(f) /\ t[n + 1] = Dot /\ t # <<>>
  BY <1>1, <1>2, <1>5 DEF Joined
<1>8. Dots(t) = {n + 1}
  <2>1. n + 1 \in Dots(t)
    BY <1>1, <1>7 DEF Dots
  <2>2. ASSUME NEW i \in Dots(t)  PROVE i = n + 1
    <3>1. i \in 1..Len(t) /\ t[i] = Dot
      BY <1>7 DEF Dots
    <3>2. ~ (i <= n)
      <4> SUFFICES ASSUME i <= n  PROVE FALSE
        OBVIOUS
      <4>1. i \in 1..n /\ i \in 1..Len(p)
        BY <3>1, <1>1, <1>2
      <4>2. t[i] = p[i] /\ p[i] = w[i]
        BY <4>1, <1>2, <1>5 DEF Joined
      <4> QED  BY <4>1, <4>2, <3>1, <1>3
    <3>3. ~ (i > n + 1)
      <4> SUFFICES ASSUME i > n + 1  PROVE FALSE
        OBVIOUS
      <4> DEFINE j == i - (n + 1)
      <4>1. j \in 1..Len(f) /\ i = Len(p) + j
        BY <3>1, <1>1, <1>2, <1>7
      <4> HIDE DEF j
      <4>2. t[i] = f[j]
        BY <4>1, <1>5 DEF Joined
      <4> QED  BY <4>1, <4>2, <3>1, <1>4
    <3> QED  BY <3>1, <3>2, <3>3, <1>1
  <2> QED
    BY <2>1, <2>2
<1>9. DotAt(t) = n + 1
  BY <1>8 DEF DotAt
<1>10. Cardinality(Dots(t)) = 1
  BY <1>8, FS_Singleton
<1>11. SubSeq(t, 1, n) = w
  <2> DEFINE u == SubSeq(t, 1, n)
  <2>1. u \in Seq(Nat) /\ Len(u) = n /\ \A i \in 1..n : u[i] = t[i]
    <3>1. u \in Seq(Nat)
      BY <1>1, <1>7
    <3>2. Len(u) = n
      BY <1>1, <1>7
    <3>3. \A i \in 1..n : u[i] = t[i]
      BY <1>1, <1>7
    <3> QED  BY <3>1, <3>2, <3>3
  <2> HIDE DEF u
  <2>2. ASSUME NEW i \in 1..Len(u)  PROVE u[i] = w[i]
    <3>1. i \in 1..n /\ i \in 1..Len(p)
      BY <2>1, <1>1, <1>2
    <3> QED  BY <3>1, <2>1, <1>2, <1>5 DEF Joined
  <2>3. u = w
    BY <2>1, <2>2, <1>1, SeqEqual DEF n
  <2> QED  BY <2>3 DEF u
<1>12. Skip(t, n + 1) = f
  <2> DEFINE u == SubSeq(t, n + 2, Len(t))
  <2>1. u \in Seq(Nat) /\ Len(u) = Len(f) /\ \A i \in 1..Len(f) : u[i] = t[n + 1 + i]
    <3>1. u \in Seq(Nat)
      BY <1>1, <1>7
    <3>2. Len(u) = Len(f)
      BY <1>1, <1>7
    <3>3. \A i \in 1..Len(f) : u[i] = t[n + 1 + i]
      BY <1>1, <1>7
    <3> QED  BY <3>1, <3>2, <3>3
  <2>2. Skip(t, n + 1) = u
    <3>1. n + 1 + 1 = n + 2
      BY <1>1
    <3> QED BY <3>1 DEF Skip
  <2> HIDE DEF u
  <2>3. ASSUME NEW i \in 1..Len(u)  PROVE u[i] = f[i]
    <3>1. i \in 1..Len(f) /\ n + 1 + i = Len(p) + i
      BY <2>1, <1>2
    <3> QED  BY <3>1, <2>1, <1>5 DEF Joined
  <2>4. u = f
    BY <2>1, <2>3, <1>1, SeqEqual
  <2> QED  BY <2>2, <2>4
<1>13. n + 1 - 1 = n /\ ~ (1 > 1) /\ ~ (Len(f) > d)
  BY <1>1
<1>14. SubSeq(t, 1, DotAt(t) - 1) = w
  <2>1. DotAt(t) - 1 = n
    BY <1>1, <1>9
  <2> QED  BY <1>11, <2>1
<1>15. Skip(t, DotAt(t)) = f
  BY <1>9, <1>12
<1>16. ParseUnits(t, d) = Number(w, Ten) * Power(Ten, d) + Number(PadRight(f, d), Ten)
  <2>1. t # <<>>
    BY <1>7
  <2>2. ~ (Cardinality(Dots(t)) > 1)
    BY <1>10, <1>13
  <2>3. ~ (Len(f) > d)
    BY <1>13
  <2> QED
    BY <1>14, <1>15, <2>1, <2>2, <2>3 DEF ParseUnits
<1> QED
  BY <1>6, <1>16

(* A sequence is of digits if each of its members is one.                  *)
LEMMA DigitsByIndex ==
    ASSUME NEW r \in Nat, NEW s \in Seq(Nat), \A i \in 1..Len(s) : s[i] \in 0..r - 1
    PROVE  s \in Digits(r)
<1>1. s = [i \in 1..Len(s) |-> s[i]]
  OBVIOUS
<1>2. s \in [1..Len(s) -> 0..r - 1]
  BY <1>1
<1>3. Len(s) \in Nat
  OBVIOUS
<1> QED
  BY <1>2, <1>3 DEF Digits

(* A part of a sequence of digits is one.                                  *)
LEMMA DigitsSub ==
    ASSUME NEW r \in Nat, NEW s \in Digits(r), NEW m \in Nat \ {0}, NEW n \in 0..Len(s), m <= n + 1
    PROVE  SubSeq(s, m, n) \in Digits(r) /\ Len(SubSeq(s, m, n)) = n - m + 1
<1>1. s \in Seq(0..r - 1)
  BY DEF Digits
<1>2. SubSeq(s, m, n) \in Seq(0..r - 1) /\ Len(SubSeq(s, m, n)) = n - m + 1
  BY <1>1, SubSeqOf
<1> QED
  BY <1>2 DEF Digits

(* What is shown of an amount parses back to it, for any amount and any    *)
(* decimals (example/lib/main.dart, _formatUnits and _parseUnits).         *)
THEOREM AmountReadsBack ==
    ASSUME NEW amount \in Nat, NEW decimals \in Nat
    PROVE  ParseUnits(FormatUnits(amount, decimals), decimals) = amount
<1> DEFINE s == Numeral[amount]
<1>1. s \in Digits(Ten) /\ Len(s) \in Nat \ {0} /\ Number(s, Ten) = amount
  BY NumeralOf
<1> HIDE DEF s
<1>2. CASE decimals = 0
  <2>1. FormatUnits(amount, decimals) = s
    BY <1>2 DEF FormatUnits, s
  <2>2. s # <<>>
    BY <1>1 DEF Digits
  <2>3. ParseUnits(s, decimals) = Number(s, Ten) * Power(Ten, decimals)
    BY <1>1, <2>2, ParseWhole
  <2>4. Power(Ten, decimals) = 1
    BY <1>2, PowerOf, TenOf
  <2> QED
    BY <1>1, <2>1, <2>3, <2>4
<1>3. CASE decimals # 0
  <2> DEFINE p == PadLeft(s, decimals + 1)
             k == Len(p) - decimals
             whole == SubSeq(p, 1, k)
             rest == SubSeq(p, k + 1, Len(p))
             frac == Trimmed(rest)
             text == IF frac = <<>> THEN whole ELSE whole \o <<Dot>> \o frac
  <2>1. FormatUnits(amount, decimals) = text
    BY <1>3 DEF FormatUnits, s, Skip
  <2>2. p \in Digits(Ten) /\ Len(p) >= decimals + 1 /\ Number(p, Ten) = amount
    <3>1. decimals + 1 \in Nat
      OBVIOUS
    <3> QED  BY <1>1, <3>1, PadLeftOf
  <2> HIDE DEF p
  <2>3. p \in Seq(0..Ten - 1) /\ k \in 0..Len(p) /\ k # 0
    BY <2>2 DEF Digits
  <2>4. p = whole \o rest
    <3> HIDE DEF k
    <3> QED  BY <2>3, Cut
  <2>5. whole \in Digits(Ten) /\ Len(whole) = k
    <3>1. k \in 0..Len(p) /\ 1 <= k + 1 /\ k - 1 + 1 = k
      BY <2>3
    <3> HIDE DEF k
    <3> QED  BY <2>2, <3>1, DigitsSub, TenOf
  <2>6. rest \in Digits(Ten) /\ Len(rest) = decimals
    <3>1. Len(p) \in 0..Len(p) /\ k + 1 \in Nat \ {0} /\ k + 1 <= Len(p) + 1
      BY <2>3
    <3>2. rest \in Digits(Ten) /\ Len(rest) = Len(p) - (k + 1) + 1
      <4> HIDE DEF k
      <4> QED  BY <2>2, <3>1, DigitsSub, TenOf
    <3> QED  BY <2>2, <2>3, <3>2
  <2>7. whole # <<>>
    BY <2>3, <2>5
  <2> HIDE DEF k, whole, rest
  <2>8. whole \in Seq(Nat) /\ rest \in Seq(Nat)
    BY <2>5, <2>6, DigitsAreNumbers, TenOf
  <2>9. PICK n \in Nat : rest = frac \o Zeros(n) /\ frac \in Seq(Nat)
          /\ Len(rest) = Len(frac) + n
    BY <2>8, TrimmedOf
  <2> HIDE DEF frac
  <2>10. frac \in Digits(Ten)
    <3>1. Zeros(n) \in Seq(Nat)
      BY ZerosOf
    <3>2. Joined(rest, frac, Zeros(n), Nat)
      BY <2>9, <3>1, ConcatAt
    <3>3. Len(frac) \in Nat
      BY <2>9
    <3>4. ASSUME NEW i \in 1..Len(frac)  PROVE frac[i] \in 0..Ten - 1
      <4>1. rest[i] = frac[i]
        BY <3>2 DEF Joined
      <4>2. i \in 1..Len(rest)
        BY <2>9, <3>3
      <4>3. rest[i] \in 0..Ten - 1
        BY <2>6, <4>2, TenOf DEF Digits
      <4> QED  BY <4>1, <4>3
    <3> QED
      BY <2>9, <3>4, DigitsByIndex, TenOf
  <2>11. amount = Number(whole, Ten) * Power(Ten, decimals) + Number(rest, Ten)
    <3>1. Number(whole \o rest, Ten) = Number(whole, Ten) * Power(Ten, Len(rest)) + Number(rest, Ten)
      BY <2>8, NumberConcat, TenOf
    <3> QED  BY <2>2, <2>4, <2>6, <3>1
  <2>12. CASE frac = <<>>
    <3>1. text = whole
      BY <2>12
    <3>2. Number(rest, Ten) = 0
      <4>1. Zeros(n) \in Seq(Nat)
        BY ZerosOf
      <4>2. <<>> \o Zeros(n) = Zeros(n)
        BY <4>1
      <4>3. rest = Zeros(n)
        BY <2>9, <2>12, <4>2
      <4> QED  BY <4>3, NumberZeros, TenOf
    <3>3. ParseUnits(whole, decimals) = Number(whole, Ten) * Power(Ten, decimals)
      BY <2>5, <2>7, ParseWhole
    <3>4. Number(whole, Ten) \in Nat /\ Power(Ten, decimals) \in Nat
      BY <2>8, NumberOf, PowerOf, TenOf
    <3> HIDE DEF text
    <3> QED
      BY <2>1, <2>11, <3>1, <3>2, <3>3, <3>4
  <2>13. CASE frac # <<>>
    <3>1. text = whole \o <<Dot>> \o frac
      BY <2>13
    <3>2. Len(frac) \in Nat /\ Len(frac) <= decimals /\ decimals - Len(frac) = n
      BY <2>6, <2>9
    <3>3. PadRight(frac, decimals) = rest
      BY <2>9, <3>2 DEF PadRight
    <3>4. ParseUnits(whole \o <<Dot>> \o frac, decimals)
            = Number(whole, Ten) * Power(Ten, decimals) + Number(PadRight(frac, decimals), Ten)
      BY <2>5, <2>10, <3>2, ParsePoint
    <3> HIDE DEF text
    <3> QED
      BY <2>1, <2>11, <3>1, <3>3, <3>4
  <2> QED
    BY <2>12, <2>13
<1> QED
  BY <1>2, <1>3

(* A text that parses is worth exactly the number it names: its digits     *)
(* without the dot, over as many tens as digits stand behind the dot       *)
(* (example/lib/main.dart, _parseUnits).                                   *)
THEOREM TextIsExact ==
    ASSUME NEW text \in Seq(Nat), NEW decimals \in Nat,
           ParseUnits(text, decimals) # Malformed
    PROVE  ParseUnits(text, decimals) * Power(Ten, Len(Skip(text, DotAt(text))))
             = Number(RemoveAt(text, DotAt(text)), Ten) * Power(Ten, decimals)
<1> DEFINE n == Len(text)
           dot == DotAt(text)
           whole == SubSeq(text, 1, dot - 1)
           frac == SubSeq(text, dot + 1, n)
<1>1. dot \in 1..n + 1 /\ n \in Nat
  <2>1. CASE Dots(text) = {}
    BY <2>1 DEF DotAt
  <2>2. CASE Dots(text) # {}
    <3>1. dot \in Dots(text)
      BY <2>2 DEF DotAt
    <3>2. Dots(text) \subseteq 1..n
      BY DEF Dots
    <3> HIDE DEF dot
    <3> QED  BY <3>1, <3>2
  <2> QED  BY <2>1, <2>2
<1>2. RemoveAt(text, dot) = whole \o frac /\ Skip(text, dot) = frac
  BY DEF RemoveAt, Skip
<1>3. ~ (text = <<>> \/ Cardinality(Dots(text)) > 1 \/ Len(Skip(text, dot)) > decimals)
  BY DEF ParseUnits
<1>4. ParseUnits(text, decimals)
        = Number(whole, Ten) * Power(Ten, decimals) + Number(PadRight(Skip(text, dot), decimals), Ten)
  BY <1>3 DEF ParseUnits
<1> HIDE DEF dot
<1>5. whole \in Seq(Nat)
  BY <1>1
<1>6. frac \in Seq(Nat)
  BY <1>1
<1> HIDE DEF whole, frac
<1> DEFINE f == Len(frac)
<1>7. f \in Nat /\ f <= decimals /\ decimals - f \in Nat
  BY <1>2, <1>3, <1>6
<1>8. Number(PadRight(frac, decimals), Ten) = Number(frac, Ten) * Power(Ten, decimals - f)
  BY <1>6, <1>7, PadRightOf
<1> HIDE DEF f
<1>9. Number(whole \o frac, Ten) = Number(whole, Ten) * Power(Ten, f) + Number(frac, Ten)
  BY <1>5, <1>6, NumberConcat, TenOf DEF f
<1>10. Power(Ten, decimals) = Power(Ten, decimals - f) * Power(Ten, f)
  <2>1. decimals = (decimals - f) + f
    BY <1>7
  <2>2. Power(Ten, (decimals - f) + f) = Power(Ten, decimals - f) * Power(Ten, f)
    BY <1>7, PowerSum, TenOf
  <2> QED  BY <2>1, <2>2
<1>11. /\ Number(whole, Ten) \in Nat /\ Number(frac, Ten) \in Nat
       /\ Power(Ten, decimals - f) \in Nat /\ Power(Ten, f) \in Nat
  BY <1>5, <1>6, <1>7, NumberOf, PowerOf, TenOf
<1>12. \A w, m, x, y \in Nat : (w * (x * y) + m * x) * y = (w * y + m) * (x * y)
  OBVIOUS
<1>13. ParseUnits(text, decimals) = Number(whole, Ten) * Power(Ten, decimals)
                                      + Number(frac, Ten) * Power(Ten, decimals - f)
  BY <1>2, <1>4, <1>8
<1>14. ParseUnits(text, decimals) * Power(Ten, f) = Number(whole \o frac, Ten) * Power(Ten, decimals)
  BY <1>9, <1>10, <1>11, <1>12, <1>13
<1> QED
  BY <1>2, <1>14 DEF f, dot
===============================================================================
