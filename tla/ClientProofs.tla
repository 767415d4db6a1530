----------------------------- MODULE ClientProofs -----------------------------
(***************************************************************************)
(* What MCHistory checks on small instances, for every instance.  A walk   *)
(* through the history, for any ledger, limit and clock: no row is given   *)
(* twice, and a row that was listed when the walk began is missed only if  *)
(* another of its very time was given.  The conversions, for any radices,  *)
(* widths and inputs: addresses, phrases, transactions and amounts come    *)
(* back as they were.                                                      *)
(***************************************************************************)
EXTENDS History, Conversions, NumbersProofs

-------------------------------------------------------------------------------
(* Part 1.  The history.                                                   *)

(* What is between two pages: every row given is at the cursor or later    *)
(* than it, and a row that was listed when the walk began and has not been *)
(* given is before the cursor, so that a later page may still give it, or  *)
(* of the time of a row that was.                                          *)
Stamps ==
    /\ time \in Nat
    /\ created \in [Rows -> Nat \cup {None}]
    /\ mine \subseteq Rows
    /\ signed \subseteq {r \in Rows : created[r] # None}

Tied(r) == \E s \in seen : created[s] = created[r]

WalkInv ==
    /\ walk \in {"before", "within", "after"}
    /\ cursor \in Nat \cup {None}
    /\ seen \subseteq Listed
    /\ due \subseteq Listed
    /\ again = {}
    /\ walk = "before" => cursor = None /\ seen = {} /\ due = {}
    /\ walk = "within" => cursor # None
    /\ cursor # None => \A s \in seen : created[s] >= cursor
    /\ walk = "within" => \A r \in due \ seen : created[r] < cursor \/ Tied(r)
    /\ walk = "after" => \A r \in due \ seen : Tied(r)

HistoryInv == Stamps /\ WalkInv

-------------------------------------------------------------------------------
(* What a page of some rows is: rows of them, no older than the others, and *)
(* all of them when it is short of the limit.                               *)
LEMMA PageOfRows ==
    ASSUME NEW rows \in SUBSET Rows, NEW p \in Page(rows)
    PROVE  /\ p \subseteq rows
           /\ \A r \in p, s \in rows \ p : created[r] >= created[s]
           /\ Cardinality(p) < Limit => p = rows
           /\ p = {} => Cardinality(p) < Limit
<1>1. IsFiniteSet(rows)
  BY FiniteLedger, FS_Subset
<1>2. /\ p \in SUBSET rows
      /\ Cardinality(p) = IF Cardinality(rows) < Limit THEN Cardinality(rows) ELSE Limit
      /\ \A r \in p, s \in rows \ p : created[r] >= created[s]
  BY DEF Page, kSubset
<1>3. Cardinality(rows) \in Nat
  BY <1>1, FS_CardinalityType
<1>4. Cardinality(p) = Cardinality(rows) => p = rows
  BY <1>1, <1>2, FS_Subset
<1>5. p = {} => Cardinality(p) = 0
  BY FS_EmptySet
<1> QED  BY <1>2, <1>3, <1>4, <1>5, HistoryBounds

(* The cursor a page leaves is the time of one of its rows and of none an   *)
(* older one.                                                               *)
LEMMA OldestOfPage ==
    ASSUME NEW p, p # {}, \A r \in p : created[r] \in Nat
    PROVE  /\ NextCursor(p) \in Nat
           /\ \E r \in p : created[r] = NextCursor(p)
           /\ \A r \in p : created[r] >= NextCursor(p)
<1> DEFINE T == {created[r] : r \in p}
<1>1. PICK t \in T : \A s \in T : t <= s
  <2>1. T \in SUBSET Nat /\ T # {}
    OBVIOUS
  <2> HIDE DEF T
  <2> QED  BY <2>1, LeastNat
<1>2. \E u \in T : \A r \in p : u <= created[r]
  BY <1>1
<1>3. NextCursor(p) \in T /\ \A r \in p : NextCursor(p) <= created[r]
  BY <1>2 DEF NextCursor, Oldest
<1> QED  BY <1>3

-------------------------------------------------------------------------------
(* Steps of the ledger: rows come to be listed and keep their times.        *)
LEMMA LedgerStep ==
    ASSUME HistoryInv, UNCHANGED pages, Stamps',
           Listed \subseteq Listed',
           \A r \in Listed : created'[r] = created[r]
    PROVE  HistoryInv'
<1>1. /\ \A r \in seen \cup due : created'[r] = created[r]
      /\ seen \subseteq Listed' /\ due \subseteq Listed'
  BY DEF HistoryInv, WalkInv
<1>2. \A r \in due : Tied(r) => Tied(r)'
  BY <1>1 DEF Tied, pages
<1> QED  BY <1>1, <1>2 DEF HistoryInv, WalkInv, pages

(* A claim is of a row nobody has been given.                               *)
LEMMA ClaimKeeps ==
    ASSUME HistoryInv, NEW r \in Rows, ClaimRow(r)
    PROVE  HistoryInv'
<1>1. PICK t \in 0..time : created' = [created EXCEPT ![r] = t]
  BY DEF ClaimRow
<1>2. time \in Nat /\ t \in Nat
  BY <1>1 DEF HistoryInv, Stamps
<1>3. /\ created' \in [Rows -> Nat \cup {None}]
      /\ \A s \in Rows : created'[s] = IF s = r THEN t ELSE created[s]
  BY <1>1, <1>2 DEF HistoryInv, Stamps
<1>4. r \notin signed
  BY DEF HistoryInv, Stamps, ClaimRow
<1>5. Stamps'
  BY <1>2, <1>3, <1>4, CursorIsNoTime DEF HistoryInv, Stamps, ClaimRow
<1>6. Listed \subseteq Listed' /\ \A s \in Listed : created'[s] = created[s]
  BY <1>3, <1>4 DEF Listed, ClaimRow
<1> QED  BY <1>5, <1>6, LedgerStep DEF ClaimRow

(* A row that is marked keeps its time.                                     *)
LEMMA MarkKeeps ==
    ASSUME HistoryInv, NEW r \in Rows, MarkRow(r)
    PROVE  HistoryInv'
<1>1. Stamps'
  BY DEF HistoryInv, Stamps, MarkRow
<1>2. Listed \subseteq Listed' /\ \A s \in Listed : created'[s] = created[s]
  BY DEF Listed, MarkRow
<1> QED  BY <1>1, <1>2, LedgerStep DEF MarkRow

(* The registration and the clock.                                          *)
LEMMA OutsideKeeps ==
    ASSUME HistoryInv, RegisterPayer \/ NextTick \/ UNCHANGED historyVars
    PROVE  HistoryInv'
<1>1. UNCHANGED <<created, mine, signed, pages>> /\ time' \in Nat /\ (registered => registered')
  BY DEF HistoryInv, Stamps, RegisterPayer, NextTick, historyVars, ledger
<1>2. Stamps'
  BY <1>1 DEF HistoryInv, Stamps
<1>3. Listed \subseteq Listed' /\ \A s \in Listed : created'[s] = created[s]
  BY <1>1 DEF Listed
<1> QED  BY <1>1, <1>2, <1>3, LedgerStep

(* A page: its rows are before the cursor, where none of those given is;    *)
(* the rows it leaves out are before the new cursor, or tied with its last. *)
LEMMA FetchKeeps ==
    ASSUME HistoryInv, FetchPage
    PROVE  HistoryInv'
<1> DEFINE rows == {r \in Listed : cursor = None \/ Before(r)}
<1>1. PICK p \in Page(rows) :
         /\ seen' = seen \cup p
         /\ again' = again \cup (seen \cap p)
         /\ cursor' = IF p = {} THEN cursor ELSE NextCursor(p)
         /\ walk' = IF Cardinality(p) < Limit THEN "after" ELSE "within"
  BY DEF FetchPage
<1>2. /\ walk \in {"before", "within"}
      /\ due' = IF walk = "before" THEN Listed ELSE due
      /\ UNCHANGED ledger
  BY DEF FetchPage
<1>3. Listed' = Listed /\ created' = created /\ Stamps'
  BY <1>2 DEF ledger, Listed, HistoryInv, Stamps
<1>4. /\ Listed \subseteq Rows
      /\ \A r \in Listed : created[r] \in Nat
  BY DEF Listed, HistoryInv, Stamps
<1>5. /\ p \subseteq rows
      /\ \A r \in p, s \in rows \ p : created[r] >= created[s]
      /\ Cardinality(p) < Limit => p = rows
      /\ p = {} => Cardinality(p) < Limit
  <2>1. rows \in SUBSET Rows
    BY <1>4
  <2> HIDE DEF rows
  <2> QED  BY <2>1, <1>1, PageOfRows
<1>6. p # {} => /\ cursor' \in Nat
                /\ \E r \in p : created[r] = cursor'
                /\ \A r \in p : created[r] >= cursor'
  <2>1. \A r \in p : created[r] \in Nat
    BY <1>4, <1>5
  <2> QED  BY <2>1, <1>1, OldestOfPage
(* The rows a walk still owes are among those the page is taken from.       *)
<1>7. \A r \in due' \ seen : r \in rows \/ Tied(r)
  <2>1. CASE walk = "before"
    BY <2>1, <1>2 DEF HistoryInv, WalkInv
  <2>2. CASE walk = "within"
    BY <2>2, <1>2 DEF HistoryInv, WalkInv, Before
  <2> QED  BY <1>2, <2>1, <2>2
<1>8. \A r \in due' \ seen' : Tied(r)' \/ (p # {} /\ created[r] < cursor' /\ r \in rows \ p)
  <2> SUFFICES ASSUME NEW r \in due' \ seen'
               PROVE  Tied(r)' \/ (p # {} /\ created[r] < cursor' /\ r \in rows \ p)
    OBVIOUS
  <2>1. CASE Tied(r)
    BY <2>1, <1>1, <1>3 DEF Tied
  <2>2. CASE r \in rows
    <3>1. r \in rows \ p /\ p # {}
      BY <2>2, <1>1, <1>5
    <3>2. PICK s \in p : created[s] = cursor'
      BY <3>1, <1>6
    <3>3. created[r] \in Nat /\ created[r] <= created[s] /\ cursor' \in Nat
      BY <3>1, <3>2, <1>4, <1>5, <1>6
    <3>4. s \in seen'
      BY <1>1
    <3> QED  BY <3>1, <3>2, <3>3, <3>4, <1>3 DEF Tied
  <2> QED  BY <2>1, <2>2, <1>1, <1>7
<1>9. \A r \in due' \ seen' : walk' = "after" => Tied(r)'
  BY <1>1, <1>5, <1>8
<1>10. seen \cap p = {}
  <2>1. ASSUME NEW r \in seen, r \in p  PROVE FALSE
    <3>1. cursor # None /\ created[r] < cursor /\ created[r] >= cursor
      BY <2>1, <1>2, <1>5 DEF HistoryInv, WalkInv, Before
    <3> QED  BY <3>1, <1>4, <1>5, <2>1 DEF HistoryInv, WalkInv
  <2> QED  BY <2>1
<1>11. cursor' # None => \A s \in seen' : created[s] >= cursor'
  <2>1. CASE p = {}
    BY <2>1, <1>1 DEF HistoryInv, WalkInv
  <2>2. CASE p # {} /\ cursor = None
    BY <2>2, <1>1, <1>2, <1>6 DEF HistoryInv, WalkInv
  <2>3. CASE p # {} /\ cursor # None
    <3>1. PICK q \in p : created[q] = cursor'
      BY <2>3, <1>6
    <3>2. created[q] < cursor /\ cursor \in Nat /\ cursor' \in Nat
      BY <3>1, <2>3, <1>5, <1>6 DEF Before, HistoryInv, WalkInv
    <3>3. \A s \in seen : created[s] >= cursor /\ created[s] \in Nat
      BY <2>3, <1>4 DEF HistoryInv, WalkInv
    <3> QED  BY <3>1, <3>2, <3>3, <1>1, <1>6, <2>3
  <2> QED  BY <2>1, <2>2, <2>3
<1>12. WalkInv'
  <2>1. walk' \in {"within", "after"}
    BY <1>1
  <2>2. walk' = "within" => p # {}
    BY <1>1, <1>5
  <2>3. cursor' \in Nat \cup {None} /\ (walk' = "within" => cursor' # None)
    BY <2>2, <1>1, <1>6, CursorIsNoTime DEF HistoryInv, WalkInv
  <2>4. seen' \subseteq Listed' /\ due' \subseteq Listed' /\ again' = {}
    BY <1>1, <1>2, <1>3, <1>5, <1>10 DEF HistoryInv, WalkInv
  <2>5. walk' = "within" => \A r \in due' \ seen' : created'[r] < cursor' \/ Tied(r)'
    BY <1>3, <1>8
  <2>6. cursor' # None => \A s \in seen' : created'[s] >= cursor'
    BY <1>3, <1>11
  <2> QED  BY <2>1, <2>3, <2>4, <2>5, <2>6, <1>9 DEF WalkInv
<1> QED  BY <1>3, <1>12 DEF HistoryInv

-------------------------------------------------------------------------------
(* The invariant of a walk: HistoryInv holds whatever is claimed, signed    *)
(* and registered between the pages (handlers/wallet.rs, history;           *)
(* store/transactions.rs, list_for_wallet).                                 *)
THEOREM WalkInductive == HistorySpec => []HistoryInv
<1>1. HistoryInit => HistoryInv
  BY DEF HistoryInit, HistoryInv, Stamps, WalkInv, Listed
<1>2. HistoryInv /\ [HistoryNext]_historyVars => HistoryInv'
  <2> SUFFICES ASSUME HistoryInv, [HistoryNext]_historyVars  PROVE HistoryInv'
    OBVIOUS
  <2>1. CASE RegisterPayer \/ NextTick \/ UNCHANGED historyVars
    BY <2>1, OutsideKeeps
  <2>2. CASE FetchPage
    BY <2>2, FetchKeeps
  <2>3. ASSUME NEW r \in Rows, ClaimRow(r)  PROVE HistoryInv'
    BY <2>3, ClaimKeeps
  <2>4. ASSUME NEW r \in Rows, MarkRow(r)  PROVE HistoryInv'
    BY <2>4, MarkKeeps
  <2> QED  BY <2>1, <2>2, <2>3, <2>4 DEF HistoryNext
<1> QED  BY <1>1, <1>2, PTL DEF HistorySpec

(* No row of the history is given twice: the cursor is strictly before      *)
(* every row given so far, and a row keeps its time.                        *)
THEOREM RowsComeOnce == HistorySpec => []NoRowTwice
<1>1. HistoryInv => NoRowTwice
  BY DEF HistoryInv, WalkInv, NoRowTwice
<1> QED  BY <1>1, WalkInductive, PTL

(* A walk that has ended gave every row that was listed when it began, or   *)
(* another of the very time of the row it did not give.                     *)
THEOREM OnlyTiesAreMissed == HistorySpec => []OnlyTiesAreSkipped
<1>1. HistoryInv => OnlyTiesAreSkipped
  BY DEF HistoryInv, WalkInv, OnlyTiesAreSkipped, Tied
<1> QED  BY <1>1, WalkInductive, PTL

-------------------------------------------------------------------------------
(* Part 2.  Addresses.  Base58.encode: a pass divides the bytes by the     *)
(* radix of addresses.                                                     *)

(* The bases of the conversion of addresses. *)
LEMMA RadixOf == Radix \in Nat \ {0, 1} /\ Radix \in Nat /\ Radix \in Nat \ {0}
BY Radices

(* The radix of addresses is a number above one, and no greater than that  *)
(* of bytes.                                                               *)
LEMMA BaseOf == Base \in Nat \ {0, 1} /\ Base \in Nat /\ Base \in Nat \ {0} /\ Base <= Radix
BY Radices

Quotient == [out : Digits(Radix), rem : 0..Base - 1]
Bytes == 0..Radix - 1
Division == [p \in Quotient \X Bytes |-> DivideDigit(p[1], p[2])]
Undivided == [out |-> <<>>, rem |-> 0]

(* One digit of the division: its quotient is a byte, so that it fits in   *)
(* the place of the digit, and nothing is lost.                            *)
LEMMA DivideDigitOf ==
    ASSUME NEW a \in Quotient, NEW d \in Bytes
    PROVE  /\ DivideDigit(a, d) \in Quotient
           /\ \E q \in Bytes, x \in 0..Base - 1 :
                DivideDigit(a, d) = [out |-> Append(a.out, q), rem |-> x]
                  /\ a.rem * Radix + d = q * Base + x
<1> DEFINE acc == d + a.rem * Radix
           q == acc \div Base
           x == acc % Base
<1>1. a.rem \in 0..Base - 1 /\ a.rem \in Nat /\ d \in Nat
  BY BaseOf, RadixOf DEF Quotient, Bytes
<1>2. acc \in Nat
  BY <1>1, RadixOf
<1>3. acc < Base * Radix
  <2>1. (a.rem + 1) * Radix <= Base * Radix
    BY <1>1, BaseOf, RadixOf
  <2>2. (a.rem + 1) * Radix = a.rem * Radix + Radix
    BY <1>1, RadixOf
  <2>3. d < Radix
    BY RadixOf DEF Bytes
  <2>4. a.rem * Radix \in Nat /\ Base * Radix \in Nat
    BY <1>1, BaseOf, RadixOf
  <2> QED  BY <1>1, <2>1, <2>2, <2>3, <2>4, RadixOf
<1> HIDE DEF acc
<1>4. q \in Nat /\ x \in 0..Base - 1 /\ acc = q * Base + x
  BY <1>2, BaseOf
<1>5. q < Radix
  <2> HIDE DEF q, x
  <2>1. q * Base < Radix * Base
    <3>1. q * Base \in Nat
      BY <1>4, BaseOf
    <3> QED  BY <1>3, <1>4, <3>1, BaseOf, RadixOf
  <2> SUFFICES ASSUME Radix <= q  PROVE FALSE
    BY <1>4, RadixOf
  <2>2. Radix * Base <= q * Base
    BY <1>4, BaseOf, RadixOf
  <2>3. q * Base \in Nat /\ Radix * Base \in Nat
    BY <1>4, BaseOf, RadixOf
  <2> QED  BY <2>1, <2>2, <2>3
<1>6. q \in Bytes
  BY <1>4, <1>5, RadixOf DEF Bytes
<1>7. DivideDigit(a, d) = [out |-> Append(a.out, q), rem |-> x]
  BY DEF DivideDigit, q, x, acc
<1> HIDE DEF q, x
<1>8. Append(a.out, q) \in Digits(Radix)
  BY <1>6 DEF Quotient, Digits, Bytes
<1>9. DivideDigit(a, d) \in Quotient
  BY <1>4, <1>7, <1>8 DEF Quotient
<1>10. a.rem * Radix + d = q * Base + x
  BY <1>1, <1>4, RadixOf DEF acc
<1> QED
  BY <1>4, <1>6, <1>7, <1>9, <1>10

(* The steps of a division are of the type of its state.                   *)
LEMMA DivisionType == Division \in [Quotient \X Bytes -> Quotient] /\ Undivided \in Quotient
<1>1. ASSUME NEW p \in Quotient \X Bytes  PROVE DivideDigit(p[1], p[2]) \in Quotient
  <2>1. p[1] \in Quotient /\ p[2] \in Bytes
    OBVIOUS
  <2> QED  BY <2>1, DivideDigitOf
<1>2. Division \in [Quotient \X Bytes -> Quotient]
  BY <1>1 DEF Division
<1>3. Undivided \in Quotient
  BY BaseOf DEF Undivided, Quotient, Digits
<1> QED
  BY <1>2, <1>3

(* Divide is the fold of Division.                                         *)
LEMMA DivideIsFold ==
    ASSUME NEW s \in Seq(Bytes)
    PROVE  Divide(s) = Fold(Division, Undivided, s)
<1> DEFINE body(f) == [t \in SUBSET DOMAIN s |->
                         IF t = {} THEN Undivided ELSE DivideDigit(f[t \ {Max(t)}], s[Max(t)])]
           it == CHOOSE f : f = body(f)
<1>1. Divide(s) = it[1..Len(s)]
  <2>1. Divide(s) = it[DOMAIN s]
    BY DEF Divide, FoldLeft, MapThenFoldSet, Undivided
  <2>2. DOMAIN s = 1..Len(s)
    OBVIOUS
  <2> HIDE DEF it
  <2> QED  BY <2>1, <2>2
<1>2. PICK f \in [SUBSET DOMAIN s -> Quotient] : Folding(f, Division, Undivided, s)
  BY DivisionType, FoldExists
<1>3. ASSUME NEW t \in SUBSET DOMAIN s  PROVE f[t] = body(f)[t]
  <2>1. CASE t = {}
    BY <2>1, <1>2 DEF Folding
  <2>2. CASE t # {}
    <3>1. Max(t) \in DOMAIN s
      <4>1. t \in SUBSET (1..Len(s)) /\ Len(s) \in Nat
        OBVIOUS
      <4> QED  BY <4>1, <2>2, MaxOf
    <3>2. f[t \ {Max(t)}] \in Quotient /\ s[Max(t)] \in Bytes
      BY <3>1
    <3>3. f[t] = Division[<<f[t \ {Max(t)}], s[Max(t)]>>]
      BY <2>2, <1>2 DEF Folding
    <3>4. \A a \in Quotient, d \in Bytes : Division[<<a, d>>] = DivideDigit(a, d)
      BY DEF Division
    <3>5. f[t] = DivideDigit(f[t \ {Max(t)}], s[Max(t)])
      BY <3>2, <3>3, <3>4
    <3> QED
      BY <2>2, <3>5
  <2> QED
    BY <2>1, <2>2
<1>4. f = body(f)
  BY <1>3
<1>5. it = body(it)
  <2> HIDE DEF body
  <2> QED  BY <1>4
<1>6. ASSUME NEW t \in SUBSET DOMAIN s
      PROVE  it[t] = IF t = {} THEN Undivided ELSE DivideDigit(it[t \ {Max(t)}], s[Max(t)])
  <2>1. it[t] = body(it)[t]
    <3> HIDE DEF body
    <3> QED  BY <1>5
  <2> HIDE DEF it
  <2> QED  BY <2>1
<1> HIDE DEF it
<1>7. it[{}] = Undivided
  BY <1>6
<1>8. ASSUME NEW k \in 0..Len(s) - 1, it[1..k] \in Quotient
      PROVE  it[1..k + 1] = Division[<<it[1..k], s[k + 1]>>]
  <2>1. /\ 1..k + 1 \in SUBSET (1..Len(s)) /\ 1..k + 1 # {}
        /\ Max(1..k + 1) = k + 1 /\ (1..k + 1) \ {Max(1..k + 1)} = 1..k
    <3>1. Len(s) \in Nat /\ k \in 0..Len(s) /\ k # Len(s)
      OBVIOUS
    <3> QED  BY <3>1, FoldSets
  <2>2. it[1..k + 1] = DivideDigit(it[(1..k + 1) \ {Max(1..k + 1)}], s[Max(1..k + 1)])
    <3>1. 1..k + 1 \in SUBSET DOMAIN s
      BY <2>1
    <3> QED  BY <1>6, <2>1, <3>1
  <2>3. s[k + 1] \in Bytes
    OBVIOUS
  <2>4. \A a \in Quotient, d \in Bytes : Division[<<a, d>>] = DivideDigit(a, d)
    BY DEF Division
  <2>5. it[1..k + 1] = DivideDigit(it[1..k], s[k + 1])
    BY <2>1, <2>2
  <2>6. it[1..k] \in Quotient
    BY <1>8
  <2> QED
    BY <2>3, <2>4, <2>5, <2>6
<1>9. FoldsOn(it, Undivided, Division, Quotient, s)
  BY <1>7, <1>8 DEF FoldsOn
<1>10. FoldEnds(it, Undivided, Division, s)
  BY DivisionType, <1>9, FoldIs
<1> QED
  BY <1>1, <1>10 DEF FoldEnds

(* A pass divides: what comes out and what remains make up what went in.   *)
LEMMA DivideOf ==
    ASSUME NEW s \in Digits(Radix)
    PROVE  /\ Divide(s) \in Quotient
           /\ Len(Divide(s).out) = Len(s)
           /\ Number(s, Radix) = Number(Divide(s).out, Radix) * Base + Divide(s).rem
<1> DEFINE D(u) == Fold(Division, Undivided, u)
           T == {u \in Digits(Radix) : /\ Len(D(u).out) = Len(u)
                                       /\ Number(u, Radix) = Number(D(u).out, Radix) * Base + D(u).rem}
<1>0. FoldLaw(Division, Undivided, Quotient, Bytes)
  BY DivisionType, FoldSequence
<1>1. <<>> \in T
  <2>1. D(<<>>) = Undivided /\ Number(<<>>, Radix) = 0 /\ <<>> \in Digits(Radix)
    BY <1>0, NumberOf, RadixOf DEF FoldLaw, Digits
  <2>2. D(<<>>).out = <<>> /\ D(<<>>).rem = 0
    BY <2>1 DEF Undivided
  <2>3. Number(<<>>, Radix) = Number(D(<<>>).out, Radix) * Base + D(<<>>).rem
    BY <2>1, <2>2, BaseOf
  <2> QED  BY <2>1, <2>2, <2>3
<1>2. ASSUME NEW u \in Seq(0..Radix - 1), NEW d \in 0..Radix - 1, u \in T  PROVE Append(u, d) \in T
  <2> DEFINE a == D(u)
             b == D(Append(u, d))
  <2>1. a \in Quotient /\ u \in Seq(Bytes) /\ d \in Bytes
    BY <1>0 DEF FoldLaw, Bytes
  <2>2. b = Division[<<a, d>>]
    BY <1>0, <2>1 DEF FoldLaw
  <2>3. Len(a.out) = Len(u) /\ Number(u, Radix) = Number(a.out, Radix) * Base + a.rem
    BY <1>2
  <2> HIDE DEF a, b
  <2>4. b = DivideDigit(a, d)
    BY <2>1, <2>2 DEF Division
  <2>5. PICK q \in Bytes, x \in 0..Base - 1 :
          b = [out |-> Append(a.out, q), rem |-> x] /\ a.rem * Radix + d = q * Base + x
    BY <2>1, <2>4, DivideDigitOf
  <2>6. a.out \in Digits(Radix) /\ a.rem \in Nat /\ q \in Nat /\ x \in Nat /\ d \in Nat
    BY <2>1, <2>5, RadixOf, BaseOf DEF Quotient, Bytes
  <2>7. a.out \in Seq(Nat) /\ u \in Seq(Nat)
    BY <2>6, DigitsAreNumbers, RadixOf DEF Digits
  <2>8. Number(Append(u, d), Radix) = Number(u, Radix) * Radix + d
    BY <2>6, <2>7, NumberOf, RadixOf
  <2>9. Number(Append(a.out, q), Radix) = Number(a.out, Radix) * Radix + q
          /\ Number(a.out, Radix) \in Nat
    BY <2>6, <2>7, NumberOf, RadixOf
  <2>10. \A n \in Nat : (n * Base + a.rem) * Radix + d = (n * Radix + q) * Base + x
    <3>1. ASSUME NEW n \in Nat  PROVE (n * Base + a.rem) * Radix + d = (n * Radix + q) * Base + x
      <4>1. (n * Base + a.rem) * Radix + d = n * Base * Radix + (a.rem * Radix + d)
        BY <2>6, BaseOf, RadixOf
      <4>2. (n * Radix + q) * Base + x = n * Base * Radix + (q * Base + x)
        BY <2>6, BaseOf, RadixOf
      <4> QED  BY <4>1, <4>2, <2>5
    <3> QED  BY <3>1
  <2>11. b.out = Append(a.out, q) /\ b.rem = x
    BY <2>5
  <2>12. Number(Append(u, d), Radix) = Number(b.out, Radix) * Base + b.rem
    BY <2>3, <2>8, <2>9, <2>10, <2>11
  <2>13. Len(b.out) = Len(Append(u, d))
    <3>1. Len(Append(a.out, q)) = Len(a.out) + 1 /\ Len(Append(u, d)) = Len(u) + 1
      BY <2>6, <2>7
    <3> QED  BY <2>3, <2>11, <3>1
  <2>14. Append(u, d) \in Digits(Radix)
    BY DEF Digits
  <2> QED
    BY <2>12, <2>13, <2>14 DEF b
<1>3. Seq(0..Radix - 1) \subseteq T
  <2> HIDE DEF T
  <2> QED  BY <1>1, <1>2, AllSequences
<1>4. s \in Seq(Bytes) /\ s \in T
  <2> HIDE DEF T
  <2> QED  BY <1>3 DEF Digits, Bytes
<1>5. Divide(s) = D(s)
  BY <1>4, DivideIsFold
<1>6. D(s) \in Quotient
  BY <1>0, <1>4 DEF FoldLaw
<1> QED
  BY <1>4, <1>5, <1>6

(* A sequence that is not empty has a length above zero.                   *)
LEMMA NonEmpty ==
    ASSUME NEW r, NEW s \in Digits(r), s # <<>>
    PROVE  Len(s) \in Nat \ {0}
BY DEF Digits

(* A leading zero that is dropped does not change the number.              *)
LEMMA DropZero ==
    ASSUME NEW r \in Nat \ {0}, NEW s \in Digits(r), s # <<>>, s[1] = 0
    PROVE  /\ Tail(s) \in Digits(r) /\ Len(Tail(s)) = Len(s) - 1
           /\ Number(s, r) = Number(Tail(s), r)
<1> DEFINE t == Tail(s)
           z == Zeros(1)
<1>1. t \in Digits(r) /\ Len(t) = Len(s) - 1
  BY DEF Digits
<1>2. s = <<0>> \o t
  BY DEF Digits
<1>3. z = <<0>>
  BY DEF Zeros
<1> HIDE DEF t, z
<1>4. Number(z \o t, r) = Number(t, r)
  BY <1>1, NumberUnleading, DigitsAreNumbers DEF z
<1> QED
  BY <1>1, <1>2, <1>3, <1>4 DEF t

(* Digits without a leading zero spell a positive number, unless there are *)
(* none.                                                                   *)
LEMMA CanonicalPositive ==
    ASSUME NEW r \in Nat \ {0}, NEW s \in Digits(r), Canonical(s)
    PROVE  s = <<>> \/ Number(s, r) \in Nat \ {0}
<1> SUFFICES ASSUME s # <<>>  PROVE Number(s, r) \in Nat \ {0}
  OBVIOUS
<1>1. Len(s) - 1 \in Nat /\ Power(r, Len(s) - 1) <= Number(s, r)
  BY NumberLow DEF Canonical
<1>2. Power(r, Len(s) - 1) \in Nat \ {0}
  BY <1>1, PowerPositive
<1>3. Number(s, r) \in Nat
  BY NumberOf, DigitsAreNumbers
<1> QED
  BY <1>1, <1>2, <1>3

(* What the next pass divides.                                             *)
Rest(in) == IF Divide(in).out[1] = 0 THEN Tail(Divide(in).out) ELSE Divide(in).out

Weight(in) == Len(in) + Number(in, Radix)

(* Length and number of some bytes are numbers, and so is their sum.       *)
LEMMA WeightType ==
    ASSUME NEW in \in Digits(Radix)
    PROVE  Weight(in) \in Nat /\ Len(in) \in Nat /\ Number(in, Radix) \in Nat
<1>1. Number(in, Radix) \in Nat
  BY NumberOf, DigitsAreNumbers, RadixOf
<1>2. Len(in) \in Nat
  BY DEF Digits
<1> QED
  BY <1>1, <1>2 DEF Weight

(* What a pass leaves to the next: the quotient, and it is nearer to       *)
(* nothing.                                                                *)
LEMMA RestOf ==
    ASSUME NEW in \in Digits(Radix), in # <<>>
    PROVE  /\ Rest(in) \in Digits(Radix)
           /\ Number(in, Radix) = Number(Rest(in), Radix) * Base + Divide(in).rem
           /\ Divide(in).rem \in 0..Base - 1
           /\ Weight(Rest(in)) < Weight(in)
           /\ Canonical(in) => Canonical(Rest(in))
<1> DEFINE o == Divide(in).out
           x == Divide(in).rem
<1>1. o \in Digits(Radix) /\ x \in 0..Base - 1 /\ x \in Nat
  BY DivideOf, BaseOf DEF Quotient
<1>2. Len(o) = Len(in) /\ Number(in, Radix) = Number(o, Radix) * Base + x
  BY DivideOf
<1> HIDE DEF o, x
<1>3. Number(o, Radix) \in Nat /\ Number(in, Radix) \in Nat /\ Len(in) \in Nat \ {0}
  <2>1. Number(o, Radix) \in Nat
    BY <1>1, WeightType
  <2>2. Number(in, Radix) \in Nat
    BY WeightType
  <2> QED  BY <2>1, <2>2, NonEmpty
<1>4. o # <<>>
  BY <1>2, <1>3
<1>5. CASE o[1] = 0
  <2> DEFINE t == Tail(o)
  <2>1. t \in Digits(Radix) /\ Len(t) = Len(in) - 1 /\ Number(o, Radix) = Number(t, Radix)
    BY <1>1, <1>2, <1>4, <1>5, DropZero, RadixOf
  <2>2. Rest(in) = t
    BY <1>5 DEF Rest, o
  <2> HIDE DEF t
  <2>3. Number(o, Radix) <= Number(in, Radix)
    BY <1>1, <1>2, <1>3, BaseOf
  <2>4. Weight(t) < Weight(in)
    BY <2>1, <2>3, <1>3 DEF Weight
  <2>5. ASSUME Canonical(in)  PROVE Canonical(t)
    <3> SUFFICES ASSUME t # <<>>, t[1] = 0  PROVE FALSE
      BY DEF Canonical
    <3> DEFINE n == Len(in) - 2
               u == Tail(t)
    <3>1. n \in Nat /\ Len(t) = n + 1 /\ Len(in) - 1 = n + 1
      <4>1. Len(t) \in Nat \ {0}
        BY <2>1, <2>5, NonEmpty
      <4> QED  BY <1>3, <2>1, <4>1
    <3>2. u \in Digits(Radix) /\ Len(u) = n /\ Number(t, Radix) = Number(u, Radix)
      BY <2>1, <3>1, DropZero, RadixOf
    <3> HIDE DEF n, u
    <3>3. Number(u, Radix) < Power(Radix, n)
      BY <3>2, NumberBound, RadixOf
    <3>4. Power(Radix, n + 1) <= Number(in, Radix)
      <4>1. in[1] # 0
        BY <2>5 DEF Canonical
      <4>2. Power(Radix, Len(in) - 1) <= Number(in, Radix)
        BY <4>1, NumberLow, RadixOf
      <4> QED  BY <3>1, <4>2
    <3>5. Power(Radix, n + 1) = Radix * Power(Radix, n) /\ Power(Radix, n) \in Nat
      BY <3>1, PowerOf, RadixOf
    <3>6. Number(in, Radix) = Number(u, Radix) * Base + x /\ Number(u, Radix) \in Nat
      BY <1>2, <1>3, <2>1, <3>2
    <3>7. \A m, p \in Nat : m < p => m * Base + x < Radix * p
      <4>1. ASSUME NEW m \in Nat, NEW p \in Nat, m < p  PROVE m * Base + x < Radix * p
        <5>1. (m + 1) * Base <= p * Base
          BY <4>1, BaseOf
        <5>2. p * Base <= p * Radix
          BY BaseOf, RadixOf
        <5>3. (m + 1) * Base = m * Base + Base /\ p * Radix = Radix * p
          BY BaseOf, RadixOf
        <5>4. m * Base \in Nat /\ p * Base \in Nat /\ p * Radix \in Nat
          BY BaseOf, RadixOf
        <5> QED  BY <5>1, <5>2, <5>3, <5>4, <1>1, BaseOf
      <4> QED  BY <4>1
    <3>8. Number(in, Radix) < Radix * Power(Radix, n)
      BY <3>3, <3>5, <3>6, <3>7
    <3>9. Radix * Power(Radix, n) \in Nat
      BY <3>5, RadixOf
    <3> QED
      BY <3>4, <3>5, <3>8, <3>9, <1>3
  <2> QED
    BY <1>1, <1>2, <2>1, <2>2, <2>4, <2>5 DEF x
<1>6. CASE o[1] # 0
  <2>1. Rest(in) = o
    BY <1>6 DEF Rest, o
  <2>2. Canonical(o)
    BY <1>6 DEF Canonical
  <2>3. Number(o, Radix) \in Nat \ {0}
    BY <1>1, <1>4, <2>2, CanonicalPositive, RadixOf
  <2>4. Number(o, Radix) < Number(in, Radix)
    BY <1>1, <1>2, <1>3, <2>3, BaseOf
  <2>5. Weight(o) < Weight(in)
    BY <1>2, <1>3, <2>4 DEF Weight
  <2> QED
    BY <1>1, <1>2, <2>1, <2>2, <2>5 DEF x
<1> QED
  BY <1>5, <1>6

(* Passes solves its equation: every pass shortens its input or makes it a *)
(* smaller number.                                                         *)
LEMMA PassesEquation ==
    ASSUME NEW in \in Digits(Radix)
    PROVE  Passes[in] = IF in = <<>> THEN <<>> ELSE Append(Passes[Rest(in)], Divide(in).rem)
<1> DEFINE D == Seq(0..Radix - 1)
           V == Seq(0..Base - 1)
           B == {<<>>}
           body(f) == [s \in D |-> IF s = <<>> THEN <<>>
                                   ELSE Append(f[IF Divide(s).out[1] = 0 THEN Tail(Divide(s).out)
                                                 ELSE Divide(s).out], Divide(s).rem)]
           mu == [s \in D |-> Weight(s)]
           base == [s \in D |-> <<>>]
           next == [s \in D |-> IF s = <<>> THEN <<>> ELSE Rest(s)]
           go == [p \in D \X V |-> IF p[1] = <<>> THEN <<>> ELSE Append(p[2], Divide(p[1]).rem)]
<1>0. D = Digits(Radix) /\ <<>> \in D /\ <<>> \in V
  BY DEF Digits
<1> HIDE DEF D
<1>1. ASSUME NEW s \in D, s # <<>>
      PROVE  Rest(s) \in D /\ Weight(Rest(s)) < Weight(s) /\ Divide(s).rem \in 0..Base - 1
  BY <1>0, <1>1, RestOf
<1>2. mu \in [D -> Nat]
  BY <1>0, WeightType
<1>3. base \in [D -> V]
  BY <1>0
<1>4. next \in [D -> D]
  BY <1>0, <1>1
<1>5. go \in [D \X V -> V]
  <2>1. ASSUME NEW p \in D \X V
        PROVE  (IF p[1] = <<>> THEN <<>> ELSE Append(p[2], Divide(p[1]).rem)) \in V
    <3>1. CASE p[1] = <<>>
      BY <1>0, <3>1
    <3>2. CASE p[1] # <<>>
      <4>1. Divide(p[1]).rem \in 0..Base - 1 /\ p[2] \in Seq(0..Base - 1)
        BY <1>1, <3>2
      <4> QED  BY <3>2, <4>1
    <3> QED  BY <3>1, <3>2
  <2> HIDE DEF V
  <2> QED  BY <2>1
<1>6. Nearer(D, B, next, mu)
  <2>1. ASSUME NEW s \in D, s \notin B  PROVE mu[next[s]] < mu[s]
    <3>1. next[s] = Rest(s) /\ Rest(s) \in D /\ Weight(Rest(s)) < Weight(s)
      BY <1>1, <2>1
    <3> QED  BY <3>1
  <2> HIDE DEF B, mu, next
  <2> QED  BY <2>1 DEF Nearer
<1>7. PICK f \in [D -> V] : Solves(f, D, B, base, next, go)
  <2> HIDE DEF V, B, mu, base, next, go
  <2> QED  BY <1>2, <1>3, <1>4, <1>5, <1>6, Recursion
<1>8. ASSUME NEW s \in D  PROVE f[s] = body(f)[s]
  <2>1. CASE s = <<>>
    <3>1. f[s] = base[s]
      <4>1. s \in B
        BY <2>1
      <4> HIDE DEF B, base, next, go, V
      <4> QED  BY <4>1, <1>7 DEF Solves
    <3> QED  BY <2>1, <3>1
  <2>2. CASE s # <<>>
    <3>1. f[s] = go[<<s, f[next[s]]>>]
      <4>1. s \notin B
        BY <2>2
      <4> HIDE DEF B, base, next, go, V
      <4> QED  BY <4>1, <1>7 DEF Solves
    <3>2. next[s] = Rest(s) /\ f[Rest(s)] \in V
      BY <1>1, <2>2
    <3>3. f[s] = Append(f[Rest(s)], Divide(s).rem)
      <4> HIDE DEF V, next
      <4> QED  BY <2>2, <3>1, <3>2
    <3> QED  BY <2>2, <3>3 DEF Rest
  <2> QED
    BY <2>1, <2>2
<1>9. f = body(f)
  <2> HIDE DEF V
  <2> QED  BY <1>8
<1>10. Passes = CHOOSE g : g = body(g)
  BY DEF Passes, D
<1>11. Passes = body(Passes)
  <2> HIDE DEF body
  <2> QED  BY <1>9, <1>10
<1>12. Passes[in] = body(Passes)[in]
  <2> HIDE DEF body
  <2> QED  BY <1>11
<1> QED
  BY <1>0, <1>12 DEF Rest

(* The passes write the same number in the other base.                     *)
LEMMA PassesOf ==
    ASSUME NEW in \in Digits(Radix)
    PROVE  /\ Passes[in] \in Digits(Base)
           /\ Number(Passes[in], Base) = Number(in, Radix)
           /\ Canonical(in) => Canonical(Passes[in])
<1> DEFINE Right(s) == /\ Passes[s] \in Digits(Base)
                       /\ Number(Passes[s], Base) = Number(s, Radix)
                       /\ Canonical(s) => Canonical(Passes[s])
           T == {n \in Nat : \A s \in Digits(Radix) : Weight(s) = n => Right(s)}
<1>1. ASSUME NEW n \in Nat, \A m \in 0..n - 1 : m \in T  PROVE n \in T
  <2>1. ASSUME NEW s \in Digits(Radix), Weight(s) = n  PROVE Right(s)
    <3>1. CASE s = <<>>
      <4>1. Passes[s] = <<>>
        BY <3>1, PassesEquation
      <4>2. Number(<<>>, Base) = 0 /\ Number(<<>>, Radix) = 0
        BY NumberOf, BaseOf, RadixOf
      <4>3. <<>> \in Digits(Base)
        BY DEF Digits
      <4> QED  BY <3>1, <4>1, <4>2, <4>3 DEF Canonical
    <3>2. CASE s # <<>>
      <4> DEFINE t == Rest(s)
                 x == Divide(s).rem
                 q == Passes[t]
      <4>1. /\ t \in Digits(Radix)
            /\ Number(s, Radix) = Number(t, Radix) * Base + x
            /\ x \in 0..Base - 1
            /\ Weight(t) < Weight(s)
            /\ Canonical(s) => Canonical(t)
        BY <3>2, RestOf
      <4>2. Passes[s] = Append(q, x)
        BY <3>2, PassesEquation
      <4> HIDE DEF t, x
      <4>3. Weight(t) \in 0..n - 1
        BY <2>1, <4>1, WeightType
      <4>4. Right(t)
        <5>1. Weight(t) \in T
          BY <1>1, <4>3
        <5> HIDE DEF Right
        <5> QED  BY <4>1, <5>1
      <4>5. q \in Digits(Base) /\ Number(q, Base) = Number(t, Radix)
              /\ (Canonical(t) => Canonical(q))
        BY <4>4
      <4> HIDE DEF q, Right
      <4>6. q \in Seq(Nat) /\ x \in Nat
        BY <4>1, <4>5, DigitsAreNumbers, BaseOf
      <4>7. Append(q, x) \in Digits(Base)
        BY <4>1, <4>5 DEF Digits
      <4>8. Number(Append(q, x), Base) = Number(q, Base) * Base + x
        BY <4>6, NumberOf, BaseOf
      <4>9. ASSUME Canonical(s)  PROVE Canonical(Append(q, x))
        <5>1. CASE q = <<>>
          <6>1. Number(t, Radix) = 0
            BY <4>5, <5>1, NumberOf, BaseOf
          <6>2. Number(s, Radix) = x
            BY <4>1, <4>6, <6>1, BaseOf
          <6>3. Number(s, Radix) \in Nat \ {0}
            BY <3>2, <4>9, CanonicalPositive, RadixOf
          <6>4. Append(q, x)[1] = x
            BY <5>1
          <6> QED  BY <6>2, <6>3, <6>4 DEF Canonical
        <5>2. CASE q # <<>>
          <6>1. q[1] # 0
            BY <4>1, <4>5, <4>9, <5>2 DEF Canonical
          <6>2. Append(q, x)[1] = q[1]
            BY <4>6, <5>2
          <6> QED  BY <6>1, <6>2 DEF Canonical
        <5> QED  BY <5>1, <5>2
      <4> QED
        BY <4>1, <4>2, <4>5, <4>7, <4>8, <4>9 DEF Right
    <3> QED
      BY <3>1, <3>2
  <2> QED
    BY <2>1
<1>2. Nat \subseteq T
  <2> HIDE DEF T
  <2> QED  BY <1>1, AllSmaller
<1>3. Weight(in) \in T
  BY <1>2, WeightType
<1>4. Right(in)
  <2> HIDE DEF Right
  <2> QED  BY <1>3
<1> QED
  BY <1>4

-------------------------------------------------------------------------------
(* Base58.decode: the bytes grow from their low end.                       *)

(* The bytes that decode grows stand with the low end first.               *)
Low(b) == Number(Reverse(b), Radix)

(* A sequence of one member.                                               *)
LEMMA SingleOf ==
    ASSUME NEW S, NEW x \in S
    PROVE  Reverse(<<x>>) = <<x>> /\ <<x>> \in Seq(S) /\ Len(<<x>>) = 1
<1> DEFINE s == <<x>>
           u == Reverse(s)
<1>1. s \in Seq(S) /\ Len(s) = 1 /\ s[1] = x
  OBVIOUS
<1> HIDE DEF s
<1>2. u \in Seq(S) /\ Len(u) = Len(s) /\ \A i \in 1..Len(s) : u[i] = s[Len(s) - i + 1]
  BY <1>1, ReverseOf
<1> HIDE DEF u
<1>3. \A i \in 1..Len(u) : u[i] = s[i]
  BY <1>1, <1>2
<1>4. u = s
  BY <1>1, <1>2, <1>3, SeqEqual
<1> QED
  BY <1>1, <1>4 DEF u, s

(* One digit spells itself.                                                *)
LEMMA NumberSingle ==
    ASSUME NEW r \in Nat, NEW x \in Nat
    PROVE  Number(<<x>>, r) = x
<1>1. <<>> \in Seq(Nat) /\ <<x>> = Append(<<>>, x)
  OBVIOUS
<1>2. Number(Append(<<>>, x), r) = Number(<<>>, r) * r + x /\ Number(<<>>, r) = 0
  BY <1>1, NumberOf
<1> QED
  BY <1>1, <1>2

(* The number of some bytes, the lowest first.                             *)
LEMMA LowOf ==
    ASSUME NEW s \in Digits(Radix)
    PROVE  Low(s) \in Nat /\ Reverse(s) \in Digits(Radix) /\ Len(Reverse(s)) = Len(s)
<1>1. Reverse(s) \in Digits(Radix) /\ Len(Reverse(s)) = Len(s)
  BY ReverseOf DEF Digits
<1> QED
  BY <1>1, NumberOf, DigitsAreNumbers, RadixOf DEF Low

(* Bytes that follow are worth a power more each.                          *)
LEMMA LowConcat ==
    ASSUME NEW s \in Digits(Radix), NEW t \in Digits(Radix)
    PROVE  /\ s \o t \in Digits(Radix)
           /\ Low(s \o t) = Low(t) * Power(Radix, Len(s)) + Low(s)
<1> DEFINE a == Reverse(s)
           b == Reverse(t)
<1>1. s \o t \in Digits(Radix)
  BY DEF Digits
<1>2. Reverse(s \o t) = b \o a
  BY ReverseConcat DEF Digits
<1>3. a \in Digits(Radix) /\ b \in Digits(Radix) /\ Len(a) = Len(s)
  BY LowOf
<1>4. a \in Seq(Nat) /\ b \in Seq(Nat)
  BY <1>3, DigitsAreNumbers, RadixOf
<1> HIDE DEF a, b
<1>5. Number(b \o a, Radix) = Number(b, Radix) * Power(Radix, Len(a)) + Number(a, Radix)
  BY <1>4, NumberConcat, RadixOf
<1> QED
  BY <1>1, <1>2, <1>3, <1>5 DEF Low, a, b

(* One byte is worth itself.                                               *)
LEMMA LowSingle ==
    ASSUME NEW x \in Bytes
    PROVE  <<x>> \in Digits(Radix) /\ Low(<<x>>) = x /\ Len(<<x>>) = 1
<1>1. Reverse(<<x>>) = <<x>> /\ <<x>> \in Seq(Bytes) /\ Len(<<x>>) = 1
  BY SingleOf
<1>2. x \in Nat
  BY RadixOf DEF Bytes
<1> QED
  BY <1>1, <1>2, NumberSingle, RadixOf DEF Low, Digits, Bytes

(* A byte more is worth the power of its place.                            *)
LEMMA LowAppend ==
    ASSUME NEW s \in Digits(Radix), NEW x \in Bytes
    PROVE  Append(s, x) \in Digits(Radix)
             /\ Low(Append(s, x)) = x * Power(Radix, Len(s)) + Low(s)
<1>1. Append(s, x) = s \o <<x>>
  BY DEF Digits
<1>2. <<x>> \in Digits(Radix) /\ Low(<<x>>) = x
  BY LowSingle
<1> QED
  BY <1>1, <1>2, LowConcat

(* No bytes are worth zero.                                                *)
LEMMA LowEmpty == <<>> \in Digits(Radix) /\ Low(<<>>) = 0 /\ Reverse(<<>>) = <<>>
<1>1. <<>> \in Digits(Radix) /\ Len(<<>>) = 0
  BY DEF Digits
<1>2. Reverse(<<>>) \in Digits(Radix) /\ Len(Reverse(<<>>)) = 0
  BY <1>1, LowOf
<1>3. Reverse(<<>>) = <<>>
  BY <1>2 DEF Digits
<1>4. Number(<<>>, Radix) = 0
  BY NumberOf, RadixOf
<1> QED
  BY <1>1, <1>3, <1>4 DEF Low

(* What spills over is written out, without zeros at the high end.         *)
Spilled(n) == /\ Spill[n] \in Digits(Radix)
              /\ Low(Spill[n]) = n
              /\ Canonical(Reverse(Spill[n]))

(* Spill solves its equation.                                              *)
LEMMA SpillEquation ==
    ASSUME NEW n \in Nat
    PROVE  /\ n % Radix \in Bytes /\ n \div Radix \in Nat
             /\ n = (n \div Radix) * Radix + (n % Radix)
           /\ n # 0 => n \div Radix < n
           /\ Spill[n] = IF n = 0 THEN <<>> ELSE <<n % Radix>> \o Spill[n \div Radix]
<1> DEFINE V == Seq(Bytes)
           B == {0}
           body(f) == [k \in Nat |-> IF k = 0 THEN <<>> ELSE <<k % Radix>> \o f[k \div Radix]]
           mu == [k \in Nat |-> k]
           base == [k \in Nat |-> <<>>]
           next == [k \in Nat |-> k \div Radix]
           go == [p \in Nat \X V |-> <<p[1] % Radix>> \o p[2]]
<1>1. ASSUME NEW k \in Nat
      PROVE  /\ k % Radix \in Bytes /\ k \div Radix \in Nat
               /\ k = (k \div Radix) * Radix + (k % Radix)
             /\ k # 0 => k \div Radix < k
  <2> DEFINE q == k \div Radix
             x == k % Radix
  <2>1. q \in Nat /\ x \in 0..Radix - 1 /\ k = q * Radix + x
    BY RadixOf
  <2> HIDE DEF q, x
  <2>2. q * Radix >= 2 * q
    BY <2>1, RadixOf
  <2>3. ASSUME k # 0  PROVE q < k
    <3>1. x \in Nat /\ q * Radix \in Nat
      BY <2>1, RadixOf
    <3>2. \A y \in Nat : k = y + x /\ y >= 2 * q => q < k
      BY <2>1, <2>3, <3>1
    <3> QED  BY <2>1, <2>2, <3>1, <3>2
  <2>4. x \in Bytes
    BY <2>1 DEF Bytes
  <2> QED
    BY <2>1, <2>3, <2>4 DEF q, x
<1>2. mu \in [Nat -> Nat] /\ base \in [Nat -> V]
  OBVIOUS
<1>3. next \in [Nat -> Nat]
  BY <1>1
<1>4. go \in [Nat \X V -> V]
  <2>1. ASSUME NEW p \in Nat \X V  PROVE <<p[1] % Radix>> \o p[2] \in V
    <3>1. p[1] % Radix \in Bytes /\ p[2] \in V
      BY <1>1
    <3>2. <<p[1] % Radix>> \in V
      BY <3>1
    <3> QED  BY <3>1, <3>2
  <2> HIDE DEF V
  <2> QED  BY <2>1
<1>5. Nearer(Nat, B, next, mu)
  <2>1. ASSUME NEW k \in Nat, k \notin B  PROVE mu[next[k]] < mu[k]
    BY <1>1, <2>1
  <2> HIDE DEF B, mu, next
  <2> QED  BY <2>1 DEF Nearer
<1>6. PICK f \in [Nat -> V] : Solves(f, Nat, B, base, next, go)
  <2> HIDE DEF V, B, mu, base, next, go
  <2> QED  BY <1>2, <1>3, <1>4, <1>5, Recursion
<1>7. ASSUME NEW k \in Nat  PROVE f[k] = body(f)[k]
  <2>1. CASE k = 0
    <3>1. f[k] = base[k]
      <4>1. k \in B
        BY <2>1
      <4> HIDE DEF B, base, next, go, V
      <4> QED  BY <4>1, <1>6 DEF Solves
    <3> QED  BY <2>1, <3>1
  <2>2. CASE k # 0
    <3>1. f[k] = go[<<k, f[next[k]]>>]
      <4>1. k \notin B
        BY <2>2
      <4> HIDE DEF B, base, next, go, V
      <4> QED  BY <4>1, <1>6 DEF Solves
    <3>2. next[k] = k \div Radix /\ k \div Radix \in Nat
      BY <1>1
    <3>3. f[k \div Radix] \in V
      <4> HIDE DEF V
      <4> QED  BY <3>2
    <3>4. f[k] = <<k % Radix>> \o f[k \div Radix]
      <4> HIDE DEF V, next
      <4> QED  BY <3>1, <3>2, <3>3
    <3> QED  BY <2>2, <3>4
  <2> QED
    BY <2>1, <2>2
<1>8. f = body(f)
  <2> HIDE DEF V
  <2> QED  BY <1>7
<1>9. Spill = CHOOSE g : g = body(g)
  BY DEF Spill
<1>10. Spill = body(Spill)
  <2> HIDE DEF body
  <2> QED  BY <1>8, <1>9
<1>11. Spill[n] = body(Spill)[n]
  <2> HIDE DEF body
  <2> QED  BY <1>10
<1>12. Spill[n] = IF n = 0 THEN <<>> ELSE <<n % Radix>> \o Spill[n \div Radix]
  BY <1>11
<1> QED
  BY <1>1, <1>12

(* Spill writes a carry out in full, without a leading zero.               *)
LEMMA SpillOf ==
    ASSUME NEW n \in Nat
    PROVE  Spilled(n)
<1> DEFINE T == {k \in Nat : Spilled(k)}
<1>1. ASSUME NEW k \in Nat, \A m \in 0..k - 1 : m \in T  PROVE k \in T
  <2>1. CASE k = 0
    <3>1. Spill[k] = <<>>
      BY <2>1, SpillEquation
    <3>2. Spill[k] \in Digits(Radix) /\ Low(Spill[k]) = k /\ Reverse(Spill[k]) = <<>>
      BY <2>1, <3>1, LowEmpty
    <3>3. Canonical(Reverse(Spill[k]))
      BY <3>2 DEF Canonical
    <3>4. Spilled(k)
      BY <3>2, <3>3 DEF Spilled
    <3> QED
      BY <3>4
  <2>2. CASE k # 0
    <3> DEFINE q == k \div Radix
               x == k % Radix
               s == Spill[q]
               e == <<x>>
    <3>0. q \in Nat /\ x \in Bytes /\ k = q * Radix + x /\ q < k /\ Spill[k] = e \o s
      <4>1. x \in Bytes /\ q \in Nat /\ k = q * Radix + x /\ q < k
        BY <2>2, SpillEquation
      <4>2. Spill[k] = e \o s
        BY <2>2, SpillEquation
      <4> QED  BY <4>1, <4>2
    <3> HIDE DEF q, x, s, e
    <3>1. q \in 0..k - 1 /\ q \in Nat /\ x \in Bytes /\ k = q * Radix + x /\ Spill[k] = e \o s
      BY <3>0
    <3> USE DEF s, e
    <3>2. Spilled(q)
      BY <1>1, <3>1
    <3> HIDE DEF q, x
    <3>3. s \in Digits(Radix) /\ Low(s) = q /\ Canonical(Reverse(s))
      BY <3>2 DEF Spilled
    <3>4. e \in Digits(Radix) /\ Low(e) = x /\ Len(e) = 1 /\ Reverse(e) = e
      BY <3>1, LowSingle, SingleOf
    <3> HIDE DEF s
    <3>4a. e[1] = x
      OBVIOUS
    <3> HIDE DEF e
    <3>5. e \o s \in Digits(Radix) /\ Low(e \o s) = q * Power(Radix, 1) + x
      BY <3>3, <3>4, LowConcat
    <3>6. Power(Radix, 1) = Radix
      <4>1. Power(Radix, 0) = 1 /\ Power(Radix, 0 + 1) = Radix * Power(Radix, 0)
        BY PowerOf, RadixOf
      <4> QED  BY <4>1, RadixOf
    <3>7. Canonical(Reverse(e \o s))
      <4> DEFINE a == Reverse(s)
      <4>1. Reverse(e \o s) = a \o e
        BY <3>3, <3>4, ReverseConcat DEF Digits
      <4>2. a \in Digits(Radix)
        BY <3>3, LowOf
      <4>3. CASE a = <<>>
        <5>1. s = <<>>
          <6>1. Len(s) = Len(a)
            BY <3>3, LowOf
          <6> QED  BY <3>3, <4>3, <6>1 DEF Digits
        <5>2. q = 0
          BY <3>3, <5>1, LowEmpty
        <5>3. x # 0
          BY <2>2, <3>1, <5>2, RadixOf
        <5>4. a \o e = e
          BY <4>3, <3>4 DEF Digits
        <5> QED  BY <4>1, <5>3, <5>4, <3>4a DEF Canonical
      <4>4. CASE a # <<>>
        <5>1. a[1] # 0
          BY <3>3, <4>4 DEF Canonical
        <5> HIDE DEF a
        <5>2. (a \o e)[1] = a[1]
          <6>1. a \in Seq(0..Radix - 1) /\ e \in Seq(0..Radix - 1) /\ Len(a) \in Nat \ {0}
            BY <4>2, <3>4, <4>4, NonEmpty DEF Digits
          <6>2. Joined(a \o e, a, e, 0..Radix - 1)
            BY <6>1, ConcatAt
          <6> QED  BY <6>1, <6>2 DEF Joined
        <5> QED  BY <4>1, <5>1, <5>2 DEF Canonical
      <4> QED
        BY <4>3, <4>4
    <3> QED
      BY <3>1, <3>5, <3>6, <3>7 DEF Spilled
  <2> QED
    BY <2>1, <2>2
<1>2. Nat \subseteq T
  <2> HIDE DEF T
  <2> QED  BY <1>1, AllSmaller
<1> QED
  BY <1>2

(* A digit is carried through the bytes. *)
Growing == [out : Digits(Radix), carry : Nat]
Carrying == [p \in Growing \X Bytes |-> CarryByte(p[1], p[2])]
Fresh(digit) == [out |-> <<>>, carry |-> digit]

(* One byte of a multiplication: what does not fit is carried, and nothing *)
(* is lost.                                                                *)
LEMMA CarryByteOf ==
    ASSUME NEW a \in Growing, NEW d \in Bytes
    PROVE  /\ CarryByte(a, d) \in Growing
           /\ \E q \in Nat, x \in Bytes :
                CarryByte(a, d) = [out |-> Append(a.out, x), carry |-> q]
                  /\ a.carry + d * Base = q * Radix + x
<1> DEFINE acc == a.carry + d * Base
           q == acc \div Radix
           x == acc % Radix
<1>1. a.carry \in Nat /\ d \in Nat
  BY RadixOf DEF Growing, Bytes
<1>2. acc \in Nat
  BY <1>1, BaseOf
<1> HIDE DEF acc
<1>3. q \in Nat /\ x \in Bytes /\ acc = q * Radix + x
  BY <1>2, SpillEquation
<1>4. CarryByte(a, d) = [out |-> Append(a.out, x), carry |-> q]
  BY DEF CarryByte, q, x, acc
<1> HIDE DEF q, x
<1>5. Append(a.out, x) \in Digits(Radix)
  BY <1>3 DEF Growing, Digits, Bytes
<1>6. CarryByte(a, d) \in Growing
  BY <1>3, <1>4, <1>5 DEF Growing
<1>7. a.carry + d * Base = q * Radix + x
  BY <1>3 DEF acc
<1> QED
  BY <1>3, <1>4, <1>6, <1>7

(* The steps of a multiplication are of the type of its state.             *)
LEMMA CarryingType == Carrying \in [Growing \X Bytes -> Growing]
  /\ \A c \in Nat : Fresh(c) \in Growing
<1>1. ASSUME NEW p \in Growing \X Bytes  PROVE CarryByte(p[1], p[2]) \in Growing
  <2>1. p[1] \in Growing /\ p[2] \in Bytes
    OBVIOUS
  <2> QED  BY <2>1, CarryByteOf
<1>2. Carrying \in [Growing \X Bytes -> Growing]
  BY <1>1 DEF Carrying
<1>3. ASSUME NEW c \in Nat  PROVE Fresh(c) \in Growing
  BY DEF Fresh, Growing, Digits
<1> QED
  BY <1>2, <1>3

Carried(s, c) == FoldLeft(CarryByte, [out |-> <<>>, carry |-> c], s)

(* Carry runs over the bytes as the fold of Carrying.                      *)
LEMMA CarryIsFold ==
    ASSUME NEW s \in Seq(Bytes), NEW c \in Nat
    PROVE  Carried(s, c) = Fold(Carrying, Fresh(c), s)
<1> DEFINE b == Fresh(c)
           body(f) == [t \in SUBSET DOMAIN s |->
                         IF t = {} THEN b ELSE CarryByte(f[t \ {Max(t)}], s[Max(t)])]
           it == CHOOSE f : f = body(f)
<1>1. Carried(s, c) = it[1..Len(s)]
  <2>1. Carried(s, c) = it[DOMAIN s]
    BY DEF Carried, FoldLeft, MapThenFoldSet, Fresh
  <2>2. DOMAIN s = 1..Len(s)
    OBVIOUS
  <2> HIDE DEF it
  <2> QED  BY <2>1, <2>2
<1>0. b \in Growing
  BY CarryingType
<1> HIDE DEF b
<1>2. PICK f \in [SUBSET DOMAIN s -> Growing] : Folding(f, Carrying, b, s)
  BY <1>0, CarryingType, FoldExists
<1>3. ASSUME NEW t \in SUBSET DOMAIN s  PROVE f[t] = body(f)[t]
  <2>1. CASE t = {}
    BY <2>1, <1>2 DEF Folding
  <2>2. CASE t # {}
    <3>1. Max(t) \in DOMAIN s
      <4>1. t \in SUBSET (1..Len(s)) /\ Len(s) \in Nat
        OBVIOUS
      <4> QED  BY <4>1, <2>2, MaxOf
    <3>2. f[t \ {Max(t)}] \in Growing /\ s[Max(t)] \in Bytes
      BY <3>1
    <3>3. f[t] = Carrying[<<f[t \ {Max(t)}], s[Max(t)]>>]
      BY <2>2, <1>2 DEF Folding
    <3>4. \A a \in Growing, d \in Bytes : Carrying[<<a, d>>] = CarryByte(a, d)
      BY DEF Carrying
    <3>5. f[t] = CarryByte(f[t \ {Max(t)}], s[Max(t)])
      BY <3>2, <3>3, <3>4
    <3> QED
      BY <2>2, <3>5
  <2> QED
    BY <2>1, <2>2
<1>4. f = body(f)
  BY <1>3
<1>5. it = body(it)
  <2> HIDE DEF body
  <2> QED  BY <1>4
<1>6. ASSUME NEW t \in SUBSET DOMAIN s
      PROVE  it[t] = IF t = {} THEN b ELSE CarryByte(it[t \ {Max(t)}], s[Max(t)])
  <2>1. it[t] = body(it)[t]
    <3> HIDE DEF body
    <3> QED  BY <1>5
  <2> HIDE DEF it
  <2> QED  BY <2>1
<1> HIDE DEF it
<1>7. it[{}] = b
  BY <1>6
<1>8. ASSUME NEW k \in 0..Len(s) - 1, it[1..k] \in Growing
      PROVE  it[1..k + 1] = Carrying[<<it[1..k], s[k + 1]>>]
  <2>1. /\ 1..k + 1 \in SUBSET (1..Len(s)) /\ 1..k + 1 # {}
        /\ Max(1..k + 1) = k + 1 /\ (1..k + 1) \ {Max(1..k + 1)} = 1..k
    <3>1. Len(s) \in Nat /\ k \in 0..Len(s) /\ k # Len(s)
      OBVIOUS
    <3> QED  BY <3>1, FoldSets
  <2>2. it[1..k + 1] = CarryByte(it[(1..k + 1) \ {Max(1..k + 1)}], s[Max(1..k + 1)])
    <3>1. 1..k + 1 \in SUBSET DOMAIN s
      BY <2>1
    <3> QED  BY <1>6, <2>1, <3>1
  <2>3. s[k + 1] \in Bytes
    OBVIOUS
  <2>4. \A a \in Growing, d \in Bytes : Carrying[<<a, d>>] = CarryByte(a, d)
    BY DEF Carrying
  <2>5. it[1..k + 1] = CarryByte(it[1..k], s[k + 1])
    BY <2>1, <2>2
  <2>6. it[1..k] \in Growing
    BY <1>8
  <2> QED
    BY <2>3, <2>4, <2>5, <2>6
<1>9. FoldsOn(it, b, Carrying, Growing, s)
  BY <1>7, <1>8 DEF FoldsOn
<1>10. FoldEnds(it, b, Carrying, s)
  BY <1>0, CarryingType, <1>9, FoldIs
<1> QED
  BY <1>1, <1>10 DEF FoldEnds, b

(* What comes out, with what is still carried above it, is Base times what *)
(* went in, and the digit.                                                 *)
LEMMA CarriedOf ==
    ASSUME NEW s \in Digits(Radix), NEW c \in Nat
    PROVE  /\ Carried(s, c) \in Growing
           /\ Len(Carried(s, c).out) = Len(s)
           /\ Low(s) * Base + c = Carried(s, c).carry * Power(Radix, Len(s)) + Low(Carried(s, c).out)
<1> DEFINE b == Fresh(c)
           D(u) == Fold(Carrying, b, u)
           Right(u, v) == /\ Len(v.out) = Len(u)
                          /\ Low(u) * Base + c = v.carry * Power(Radix, Len(u)) + Low(v.out)
           T == {u \in Digits(Radix) : Right(u, D(u))}
<1>0. b \in Growing /\ b.out = <<>> /\ b.carry = c
  BY CarryingType DEF Fresh
<1> HIDE DEF b
<1>1. FoldLaw(Carrying, b, Growing, Bytes)
  BY <1>0, CarryingType, FoldSequence
<1>2. <<>> \in T
  <2>1. D(<<>>) = b
    BY <1>1 DEF FoldLaw
  <2>2. Low(<<>>) = 0 /\ <<>> \in Digits(Radix) /\ Power(Radix, 0) = 1 /\ Len(<<>>) = 0
    BY LowEmpty, PowerOf, RadixOf
  <2>3. Low(<<>>) * Base + c = c * Power(Radix, Len(<<>>)) + Low(<<>>)
    BY <2>2, BaseOf
  <2> QED  BY <1>0, <2>1, <2>2, <2>3
<1>3. ASSUME NEW u \in Seq(0..Radix - 1), NEW d \in 0..Radix - 1, u \in T  PROVE Append(u, d) \in T
  <2> DEFINE a == D(u)
             e == D(Append(u, d))
             P == Power(Radix, Len(u))
  <2>1. a \in Growing /\ u \in Seq(Bytes) /\ d \in Bytes
    BY <1>1 DEF FoldLaw, Bytes
  <2>2. e = Carrying[<<a, d>>]
    BY <1>1, <2>1 DEF FoldLaw
  <2>3. Len(a.out) = Len(u) /\ Low(u) * Base + c = a.carry * P + Low(a.out)
    BY <1>3
  <2> HIDE DEF a, e
  <2>4. e = CarryByte(a, d)
    BY <2>1, <2>2 DEF Carrying
  <2>5. PICK q \in Nat, x \in Bytes :
          e = [out |-> Append(a.out, x), carry |-> q] /\ a.carry + d * Base = q * Radix + x
    BY <2>1, <2>4, CarryByteOf
  <2>6. a.out \in Digits(Radix) /\ a.carry \in Nat /\ x \in Nat /\ d \in Nat
          /\ u \in Digits(Radix)
    BY <2>1, <2>5, RadixOf DEF Growing, Bytes, Digits
  <2>7. Low(Append(u, d)) = d * P + Low(u) /\ Append(u, d) \in Digits(Radix)
    BY <2>1, <2>6, LowAppend
  <2>8. Low(Append(a.out, x)) = x * P + Low(a.out)
    BY <2>3, <2>5, <2>6, LowAppend
  <2>9. Low(u) \in Nat /\ Low(a.out) \in Nat
    BY <2>6, LowOf
  <2>10. Len(u) \in Nat /\ P \in Nat /\ Power(Radix, Len(u) + 1) = Radix * P
    BY PowerOf, RadixOf
  <2> HIDE DEF P
  <2>11. \A l, m \in Nat : l * Base + c = a.carry * P + m =>
           (d * P + l) * Base + c = q * (Radix * P) + (x * P + m)
    <3>1. ASSUME NEW l \in Nat, NEW m \in Nat, l * Base + c = a.carry * P + m
          PROVE  (d * P + l) * Base + c = q * (Radix * P) + (x * P + m)
      <4>1. (d * P + l) * Base + c = d * P * Base + (l * Base + c)
        BY <2>6, <2>10, BaseOf
      <4>2. d * P * Base + (a.carry * P + m) = (a.carry + d * Base) * P + m
        BY <2>6, <2>10, BaseOf
      <4>3. (q * Radix + x) * P + m = q * (Radix * P) + (x * P + m)
        BY <2>5, <2>6, <2>10, RadixOf
      <4> QED  BY <3>1, <4>1, <4>2, <4>3, <2>5
    <3> QED  BY <3>1
  <2>12. e.out = Append(a.out, x) /\ e.carry = q
    BY <2>5
  <2>13. Len(Append(u, d)) = Len(u) + 1
    OBVIOUS
  <2>14. Len(e.out) = Len(Append(u, d))
    <3>1. Len(Append(a.out, x)) = Len(a.out) + 1
      BY <2>6 DEF Digits
    <3> QED  BY <2>3, <2>12, <2>13, <3>1
  <2>15. Low(Append(u, d)) * Base + c = e.carry * Power(Radix, Len(Append(u, d))) + Low(e.out)
    <3>1. (d * P + Low(u)) * Base + c = q * (Radix * P) + (x * P + Low(a.out))
      BY <2>3, <2>9, <2>11
    <3> QED  BY <2>7, <2>8, <2>10, <2>12, <2>13, <3>1
  <2>16. Right(Append(u, d), e)
    BY <2>14, <2>15
  <2> HIDE DEF Right
  <2> QED
    BY <2>7, <2>16 DEF e
<1>4. Seq(0..Radix - 1) \subseteq T
  <2> HIDE DEF T
  <2> QED  BY <1>2, <1>3, AllSequences
<1>5. s \in Seq(Bytes) /\ s \in T
  <2> HIDE DEF T
  <2> QED  BY <1>4 DEF Digits, Bytes
<1>6. Carried(s, c) = D(s)
  BY <1>5, CarryIsFold DEF b
<1>7. D(s) \in Growing
  BY <1>1, <1>5 DEF FoldLaw
<1>8. Right(s, D(s))
  <2> HIDE DEF Right
  <2> QED  BY <1>5
<1> QED
  BY <1>6, <1>7, <1>8

(* The bytes of a number, low end first and without zeros at the high end. *)
Grown == {b \in Digits(Radix) : Canonical(Reverse(b))}

(* Carry multiplies by the radix of addresses and adds a digit; the bytes  *)
(* stay without a leading zero.                                            *)
LEMMA CarryOf ==
    ASSUME NEW b \in Grown, NEW d \in 0..Base - 1
    PROVE  Carry(b, d) \in Grown /\ Low(Carry(b, d)) = Low(b) * Base + d
<1> DEFINE r == Carried(b, d)
           o == r.out
           c == r.carry
           s == Spill[c]
<1>0. b \in Digits(Radix) /\ Canonical(Reverse(b)) /\ d \in Nat
  BY BaseOf DEF Grown
<1>1. Carry(b, d) = o \o s
  BY DEF Carry, Carried
<1>2. o \in Digits(Radix) /\ c \in Nat /\ Len(o) = Len(b)
  BY <1>0, CarriedOf DEF Growing
<1>3. Low(b) * Base + d = c * Power(Radix, Len(b)) + Low(o)
  BY <1>0, CarriedOf
<1> HIDE DEF r, o, c
<1>4. s \in Digits(Radix) /\ Low(s) = c /\ Canonical(Reverse(s))
  BY <1>2, SpillOf DEF Spilled
<1> HIDE DEF s
<1>5. o \o s \in Digits(Radix) /\ Low(o \o s) = c * Power(Radix, Len(b)) + Low(o)
  BY <1>2, <1>4, LowConcat
<1>6. Canonical(Reverse(o \o s))
  <2> DEFINE hi == Reverse(s)
             lo == Reverse(o)
  <2>1. Reverse(o \o s) = hi \o lo
    BY <1>2, <1>4, ReverseConcat DEF Digits
  <2>2. hi \in Digits(Radix) /\ lo \in Digits(Radix) /\ Len(hi) = Len(s) /\ Len(lo) = Len(o)
    BY <1>2, <1>4, LowOf
  <2>3. Low(o) = Number(lo, Radix) /\ Canonical(hi)
    BY <1>4 DEF Low
  <2> HIDE DEF hi, lo
  <2>4. CASE hi = <<>>
    <3>1. hi \o lo = lo
      BY <2>2, <2>4 DEF Digits
    <3>2. c = 0
      <4>1. s = <<>>
        BY <1>4, <2>2, <2>4 DEF Digits
      <4> QED  BY <1>4, <4>1, LowEmpty
    <3> DEFINE top == Reverse(b)
    <3>3. top \in Digits(Radix) /\ Len(top) = Len(b) /\ Low(b) = Number(top, Radix)
            /\ Low(b) \in Nat /\ Canonical(top)
      BY <1>0, LowOf DEF Low
    <3> HIDE DEF top
    <3>4. Low(o) = Low(b) * Base + d
      <4>1. Low(o) \in Nat
        BY <1>2, LowOf
      <4>2. Len(b) \in Nat
        BY <1>0 DEF Digits
      <4>3. Power(Radix, Len(b)) \in Nat
        BY <4>2, PowerOf, RadixOf
      <4> QED  BY <1>3, <3>2, <4>1, <4>3
    <3>5. ASSUME lo # <<>>, lo[1] = 0  PROVE FALSE
      <4>1. top # <<>> /\ top[1] # 0
        <5>1. Len(lo) \in Nat \ {0}
          BY <2>2, <3>5, NonEmpty
        <5>2. Len(top) # 0
          BY <1>2, <2>2, <3>3, <5>1
        <5>3. top # <<>>
          BY <5>2
        <5> QED  BY <3>3, <5>3 DEF Canonical
      <4> DEFINE n == Len(top) - 1
                 t == Tail(lo)
      <4>2. n \in Nat /\ Power(Radix, n) <= Number(top, Radix)
        BY <3>3, <4>1, NumberLow, RadixOf
      <4>3. t \in Digits(Radix) /\ Len(t) = n /\ Number(lo, Radix) = Number(t, Radix)
        <5>1. t \in Digits(Radix) /\ Len(t) = Len(lo) - 1
                /\ Number(lo, Radix) = Number(t, Radix)
          BY <2>2, <3>5, DropZero, RadixOf
        <5> QED  BY <5>1, <1>2, <2>2, <3>3
      <4> HIDE DEF n, t
      <4>4. Number(t, Radix) < Power(Radix, n)
        BY <4>3, NumberBound, RadixOf
      <4>5. Low(b) <= Low(o)
        <5>1. \A x \in Nat : x <= x * Base + d
          BY <1>0, BaseOf
        <5> QED  BY <3>3, <3>4, <5>1
      <4>6. Power(Radix, n) \in Nat /\ Number(t, Radix) \in Nat
        BY <4>2, <4>3, PowerOf, WeightType, RadixOf
      <4> QED
        BY <4>2, <4>3, <4>4, <4>5, <4>6, <3>3, <2>3
    <3> QED
      BY <2>1, <3>1, <3>5 DEF Canonical
  <2>5. CASE hi # <<>>
    <3>1. hi[1] # 0
      BY <2>3, <2>5 DEF Canonical
    <3>2. (hi \o lo)[1] = hi[1]
      <4>1. hi \in Seq(0..Radix - 1) /\ lo \in Seq(0..Radix - 1) /\ Len(hi) \in Nat \ {0}
        BY <2>2, <2>5, NonEmpty DEF Digits
      <4>2. Joined(hi \o lo, hi, lo, 0..Radix - 1)
        BY <4>1, ConcatAt
      <4> QED  BY <4>1, <4>2 DEF Joined
    <3> QED  BY <2>1, <3>1, <3>2 DEF Canonical
  <2> QED
    BY <2>4, <2>5
<1>7. Carry(b, d) \in Grown
  BY <1>1, <1>5, <1>6 DEF Grown
<1>8. Low(Carry(b, d)) = Low(b) * Base + d
  BY <1>1, <1>3, <1>5
<1> QED
  BY <1>7, <1>8

-------------------------------------------------------------------------------
(* Encode and decode undo each other.                                      *)

Growth == [p \in Grown \X (0..Base - 1) |-> Carry(p[1], p[2])]

(* The steps of a decoding are of the type of its state.                   *)
LEMMA GrowthType == Growth \in [Grown \X (0..Base - 1) -> Grown] /\ <<>> \in Grown
<1>1. ASSUME NEW p \in Grown \X (0..Base - 1)  PROVE Carry(p[1], p[2]) \in Grown
  <2>1. p[1] \in Grown /\ p[2] \in 0..Base - 1
    OBVIOUS
  <2> QED  BY <2>1, CarryOf
<1>2. Growth \in [Grown \X (0..Base - 1) -> Grown]
  BY <1>1 DEF Growth
<1>3. Canonical(Reverse(<<>>))
  BY LowEmpty DEF Canonical
<1> QED
  BY <1>2, <1>3, LowEmpty DEF Grown

AllGrown(s) == FoldLeft(Carry, <<>>, s)

(* The bytes of a decoding are the fold of Growth.                         *)
LEMMA GrownIsFold ==
    ASSUME NEW s \in Digits(Base)
    PROVE  AllGrown(s) = Fold(Growth, <<>>, s)
<1> DEFINE E == 0..Base - 1
           body(f) == [t \in SUBSET DOMAIN s |->
                         IF t = {} THEN <<>> ELSE Carry(f[t \ {Max(t)}], s[Max(t)])]
           it == CHOOSE f : f = body(f)
<1>0. s \in Seq(E) /\ Growth \in [Grown \X E -> Grown] /\ <<>> \in Grown
  BY GrowthType DEF Digits
<1>00. \A a \in Grown, d \in E : Growth[<<a, d>>] = Carry(a, d)
  BY DEF Growth
<1> HIDE DEF E
<1>1. AllGrown(s) = it[1..Len(s)]
  <2>1. AllGrown(s) = it[DOMAIN s]
    BY DEF AllGrown, FoldLeft, MapThenFoldSet
  <2>2. DOMAIN s = 1..Len(s)
    BY <1>0
  <2> HIDE DEF it
  <2> QED  BY <2>1, <2>2
<1>2. PICK f \in [SUBSET DOMAIN s -> Grown] : Folding(f, Growth, <<>>, s)
  BY <1>0, FoldExists
<1>3. ASSUME NEW t \in SUBSET DOMAIN s  PROVE f[t] = body(f)[t]
  <2>1. CASE t = {}
    BY <2>1, <1>2 DEF Folding
  <2>2. CASE t # {}
    <3>1. Max(t) \in DOMAIN s
      <4>1. t \in SUBSET (1..Len(s)) /\ Len(s) \in Nat
        BY <1>0
      <4> QED  BY <4>1, <2>2, MaxOf
    <3>2. f[t \ {Max(t)}] \in Grown /\ s[Max(t)] \in E
      BY <1>0, <3>1
    <3>3. f[t] = Growth[<<f[t \ {Max(t)}], s[Max(t)]>>]
      BY <2>2, <1>2 DEF Folding
    <3>5. f[t] = Carry(f[t \ {Max(t)}], s[Max(t)])
      BY <3>2, <3>3, <1>00
    <3> QED
      BY <2>2, <3>5
  <2> QED
    BY <2>1, <2>2
<1>4. f = body(f)
  BY <1>3
<1>5. it = body(it)
  <2> HIDE DEF body
  <2> QED  BY <1>4
<1>6. ASSUME NEW t \in SUBSET DOMAIN s
      PROVE  it[t] = IF t = {} THEN <<>> ELSE Carry(it[t \ {Max(t)}], s[Max(t)])
  <2>1. it[t] = body(it)[t]
    <3> HIDE DEF body
    <3> QED  BY <1>5
  <2> HIDE DEF it
  <2> QED  BY <2>1
<1> HIDE DEF it
<1>7. it[{}] = <<>>
  BY <1>6
<1>8. ASSUME NEW k \in 0..Len(s) - 1, it[1..k] \in Grown
      PROVE  it[1..k + 1] = Growth[<<it[1..k], s[k + 1]>>]
  <2>1. /\ 1..k + 1 \in SUBSET (1..Len(s)) /\ 1..k + 1 # {}
        /\ Max(1..k + 1) = k + 1 /\ (1..k + 1) \ {Max(1..k + 1)} = 1..k
    <3>1. Len(s) \in Nat /\ k \in 0..Len(s) /\ k # Len(s)
      BY <1>0
    <3> QED  BY <3>1, FoldSets
  <2>2. it[1..k + 1] = Carry(it[(1..k + 1) \ {Max(1..k + 1)}], s[Max(1..k + 1)])
    <3>1. 1..k + 1 \in SUBSET DOMAIN s
      BY <1>0, <2>1
    <3> QED  BY <1>6, <2>1, <3>1
  <2>3. s[k + 1] \in E
    BY <1>0
  <2>5. it[1..k + 1] = Carry(it[1..k], s[k + 1])
    BY <2>1, <2>2
  <2>6. it[1..k] \in Grown
    BY <1>8
  <2> QED
    BY <2>3, <2>5, <2>6, <1>00
<1>9. FoldsOn(it, <<>>, Growth, Grown, s)
  BY <1>7, <1>8 DEF FoldsOn
<1>10. FoldEnds(it, <<>>, Growth, s)
  BY <1>0, <1>9, FoldIs
<1> QED
  BY <1>1, <1>10 DEF FoldEnds

(* The bytes that decode grows are those of the number the digits name.    *)
LEMMA GrownOf ==
    ASSUME NEW s \in Digits(Base)
    PROVE  AllGrown(s) \in Grown /\ Low(AllGrown(s)) = Number(s, Base)
<1> DEFINE D(u) == Fold(Growth, <<>>, u)
           T == {u \in Digits(Base) : Low(D(u)) = Number(u, Base)}
<1>1. FoldLaw(Growth, <<>>, Grown, 0..Base - 1)
  BY GrowthType, FoldSequence
<1>2. <<>> \in T
  <2>1. D(<<>>) = <<>> /\ Number(<<>>, Base) = 0 /\ <<>> \in Digits(Base) /\ Low(<<>>) = 0
    BY <1>1, NumberOf, BaseOf, LowEmpty DEF FoldLaw, Digits
  <2> QED  BY <2>1
<1>3. ASSUME NEW u \in Seq(0..Base - 1), NEW d \in 0..Base - 1, u \in T  PROVE Append(u, d) \in T
  <2>1. D(u) \in Grown /\ D(Append(u, d)) = Growth[<<D(u), d>>]
    BY <1>1 DEF FoldLaw
  <2>2. D(Append(u, d)) = Carry(D(u), d)
    BY <2>1 DEF Growth
  <2>3. Low(D(Append(u, d))) = Low(D(u)) * Base + d
    BY <2>1, <2>2, CarryOf
  <2>4. u \in Seq(Nat) /\ d \in Nat
    BY DigitsAreNumbers, BaseOf DEF Digits
  <2>5. Number(Append(u, d), Base) = Number(u, Base) * Base + d
    BY <2>4, NumberOf, BaseOf
  <2>6. Append(u, d) \in Digits(Base)
    BY DEF Digits
  <2>7. Low(D(u)) = Number(u, Base)
    BY <1>3
  <2>8. Low(D(Append(u, d))) = Number(Append(u, d), Base)
    BY <2>3, <2>5, <2>7
  <2> HIDE DEF D
  <2> QED  BY <2>6, <2>8
<1>4. Seq(0..Base - 1) \subseteq T
  <2> HIDE DEF T
  <2> QED  BY <1>2, <1>3, AllSequences
<1>5. s \in Seq(0..Base - 1) /\ s \in T
  <2> HIDE DEF T
  <2> QED  BY <1>4 DEF Digits
<1>6. AllGrown(s) = D(s)
  BY GrownIsFold
<1>7. D(s) \in Grown
  BY <1>1, <1>5 DEF FoldLaw
<1> QED
  BY <1>5, <1>6, <1>7

(* Leading zeros apart, the digits and the bytes are of one number.        *)
LEMMA EncodeOf ==
    ASSUME NEW n \in Nat, NEW b \in Digits(Radix), Canonical(b)
    PROVE  /\ Encode(Zeros(n) \o b) = Zeros(n) \o Passes[b]
           /\ Passes[b] \in Digits(Base) /\ Canonical(Passes[b])
           /\ Number(Passes[b], Base) = Number(b, Radix)
<1> DEFINE s == Zeros(n) \o b
<1>1. b \in Seq(Nat)
  BY DigitsAreNumbers, RadixOf
<1>2. Leading(s) = n
  BY <1>1, LeadingConcat
<1>3. Skip(s, n) = b
  <2>1. Zeros(n) \in Seq(Nat) /\ Len(Zeros(n)) = n
    BY ZerosOf
  <2> DEFINE z == Zeros(n)
             t == SubSeq(z \o b, n + 1, Len(z \o b))
  <2> HIDE DEF z
  <2>2. z \in Seq(Nat) /\ Len(z) = n
    BY <2>1 DEF z
  <2>3. Joined(z \o b, z, b, Nat)
    BY <1>1, <2>2, ConcatAt
  <2> DEFINE u == z \o b
  <2>4. u \in Seq(Nat) /\ Len(u) = n + Len(b) /\ \A i \in 1..Len(b) : u[n + i] = b[i]
    BY <2>2, <2>3 DEF Joined
  <2> HIDE DEF u
  <2>5. Len(b) \in Nat /\ Len(u) \in 0..Len(u) /\ n + 1 <= Len(u) + 1 /\ n + 1 \in Nat \ {0}
          /\ Len(u) - (n + 1) + 1 = Len(b)
    BY <1>1, <2>4
  <2>6. /\ SubSeq(u, n + 1, Len(u)) \in Seq(Nat) /\ Len(SubSeq(u, n + 1, Len(u))) = Len(b)
        /\ \A i \in 1..Len(b) : SubSeq(u, n + 1, Len(u))[i] = u[n + 1 + i - 1]
    <3>1. /\ SubSeq(u, n + 1, Len(u)) \in Seq(Nat)
               /\ Len(SubSeq(u, n + 1, Len(u))) = Len(u) - (n + 1) + 1
          /\ \A i \in 1..Len(u) - (n + 1) + 1 : SubSeq(u, n + 1, Len(u))[i] = u[n + 1 + i - 1]
      BY <2>4, <2>5, SubSeqOf
    <3> QED  BY <2>5, <3>1
  <2> DEFINE v == SubSeq(u, n + 1, Len(u))
  <2>7. v \in Seq(Nat) /\ Len(v) = Len(b) /\ \A i \in 1..Len(v) : v[i] = b[i]
    <3>1. \A i \in 1..Len(b) : n + 1 + i - 1 = n + i
      OBVIOUS
    <3> QED  BY <2>4, <2>6, <3>1
  <2> HIDE DEF v
  <2>8. v = b
    BY <1>1, <2>7, SeqEqual
  <2> QED
    BY <2>8 DEF v, u, z, Skip
<1>4. Encode(s) = Zeros(n) \o Passes[b]
  BY <1>2, <1>3 DEF Encode
<1> QED
  BY <1>4, PassesOf

(* The digits of a number decode to its bytes, and each leading zero to a  *)
(* zero.                                                                   *)
LEMMA DecodeOf ==
    ASSUME NEW n \in Nat, NEW e \in Digits(Base), Canonical(e), NEW b \in Digits(Radix), Canonical(b),
           Number(e, Base) = Number(b, Radix)
    PROVE  Decode(Zeros(n) \o e) = Zeros(n) \o b
<1> DEFINE s == Zeros(n) \o e
           g == AllGrown(s)
<1>1. e \in Seq(Nat) /\ Zeros(n) \in Digits(Base)
  BY DigitsAreNumbers, ZerosDigits, BaseOf
<1>2. s \in Digits(Base)
  BY <1>1 DEF Digits
<1>3. Leading(s) = n
  BY <1>1, LeadingConcat
<1>4. Number(s, Base) = Number(e, Base)
  BY <1>1, NumberUnleading, BaseOf
<1>5. g \in Grown /\ Low(g) = Number(b, Radix)
  BY <1>2, <1>4, GrownOf
<1>6. Decode(s) = Zeros(n) \o Reverse(g)
  BY <1>3 DEF Decode, AllGrown
<1> HIDE DEF g
<1>7. Reverse(g) \in Digits(Radix) /\ Canonical(Reverse(g))
        /\ Number(Reverse(g), Radix) = Number(b, Radix)
  BY <1>5, LowOf DEF Grown, Low
<1>8. Reverse(g) = b
  BY <1>7, CanonicalSame, RadixOf
<1> QED
  BY <1>6, <1>8

(* Digits are zeros and digits without a leading zero.                     *)
LEMMA UnleadingDigits ==
    ASSUME NEW r \in Nat, NEW s \in Digits(r)
    PROVE  \E n \in Nat, t \in Digits(r) : Canonical(t) /\ s = Zeros(n) \o t
<1> DEFINE n == Leading(s)
           t == Skip(s, n)
<1>1. s \in Seq(Nat)
  BY DigitsAreNumbers
<1>2. n \in Nat /\ s = Zeros(n) \o t /\ t \in Seq(Nat) /\ Canonical(t)
  BY <1>1, Unleading
<1>3. n \in 0..Len(s)
  BY <1>1, LeadingOf
<1> HIDE DEF n
<1>4. t \in Digits(r)
  <2>1. s \in Seq(0..r - 1) /\ n + 1 \in Nat \ {0} /\ Len(s) \in 0..Len(s)
          /\ n + 1 <= Len(s) + 1
    BY <1>3 DEF Digits
  <2>2. SubSeq(s, n + 1, Len(s)) \in Seq(0..r - 1)
    BY <2>1, SubSeqOf
  <2> QED  BY <2>2 DEF Skip, Digits
<1> HIDE DEF t
<1> QED
  BY <1>2, <1>4

(* Every byte string comes back from its encoding in base 58, and every    *)
(* digit string from its decoding: an address has one spelling, and no two *)
(* byte strings share one (Base58.swift).                                  *)
THEOREM AddressReadsBack ==
    \A bytes \in Digits(Radix) : Decode(Encode(bytes)) = bytes
<1> SUFFICES ASSUME NEW bytes \in Digits(Radix)  PROVE Decode(Encode(bytes)) = bytes
  OBVIOUS
<1>1. PICK n \in Nat, b \in Digits(Radix) : Canonical(b) /\ bytes = Zeros(n) \o b
  BY UnleadingDigits, RadixOf
<1> DEFINE e == Passes[b]
<1>2. Encode(bytes) = Zeros(n) \o e /\ e \in Digits(Base) /\ Canonical(e)
        /\ Number(e, Base) = Number(b, Radix)
  BY <1>1, EncodeOf
<1> HIDE DEF e
<1> QED
  BY <1>1, <1>2, DecodeOf

(* Every number that digits spell is spelled by bytes too.                 *)
LEMMA BytesOf ==
    ASSUME NEW e \in Digits(Base), Canonical(e)
    PROVE  \E b \in Digits(Radix) : Canonical(b) /\ Number(b, Radix) = Number(e, Base)
<1> DEFINE g == AllGrown(e)
           b == Reverse(g)
<1>1. g \in Grown /\ Low(g) = Number(e, Base)
  BY GrownOf
<1> HIDE DEF g
<1>2. b \in Digits(Radix) /\ Canonical(b) /\ Number(b, Radix) = Number(e, Base)
  BY <1>1, LowOf DEF Grown, Low
<1> HIDE DEF b
<1> QED
  BY <1>2

(* The other way: an address of any digits is the encoding of its bytes.   *)
THEOREM AddressIsUnique ==
    \A digits \in Digits(Base) : Encode(Decode(digits)) = digits
<1> SUFFICES ASSUME NEW digits \in Digits(Base)  PROVE Encode(Decode(digits)) = digits
  OBVIOUS
<1>1. PICK n \in Nat, e \in Digits(Base) : Canonical(e) /\ digits = Zeros(n) \o e
  BY UnleadingDigits, BaseOf
<1>2. PICK b \in Digits(Radix) : Canonical(b) /\ Number(b, Radix) = Number(e, Base)
  BY <1>1, BytesOf
<1>3. Decode(digits) = Zeros(n) \o b
  BY <1>1, <1>2, DecodeOf
<1>4. Encode(Zeros(n) \o b) = Zeros(n) \o Passes[b] /\ Passes[b] \in Digits(Base)
        /\ Canonical(Passes[b])
      /\ Number(Passes[b], Base) = Number(b, Radix)
  BY <1>2, EncodeOf
<1>5. Passes[b] = e
  BY <1>1, <1>2, <1>4, CanonicalSame, BaseOf
<1> QED
  BY <1>1, <1>3, <1>4, <1>5

-------------------------------------------------------------------------------
(* Part 3.  Recovery phrases.  Bits, and words of bits.                    *)

(* Halving.                                                                *)
LEMMA Halves ==
    ASSUME NEW n \in Nat
    PROVE  n \div 2 \in Nat /\ n % 2 \in 0..1 /\ n = (n \div 2) * 2 + (n % 2)
OBVIOUS

(* Division by a positive number.                                          *)
LEMMA DivideBy ==
    ASSUME NEW n \in Nat, NEW p \in Nat \ {0}
    PROVE  /\ n \div p \in Nat /\ n % p \in 0..p - 1 /\ n = (n \div p) * p + (n % p)
OBVIOUS

(* Dividing by twice p is halving, then dividing by p.                     *)
LEMMA DivTwice ==
    ASSUME NEW n \in Nat, NEW p \in Nat \ {0}
    PROVE  n \div (2 * p) = (n \div 2) \div p
<1> DEFINE h == n \div 2
           e == n % 2
           q == h \div p
           x == h % p
           m == 2 * p
           a == n \div m
           c == n % m
<1>1. h \in Nat /\ e \in 0..1 /\ n = h * 2 + e
  BY Halves
<1> HIDE DEF h, e
<1>2. q \in Nat /\ x \in 0..p - 1 /\ h = q * p + x
  BY <1>1, DivideBy
<1> HIDE DEF q, x
<1>3. m \in Nat \ {0} /\ q * m = 2 * (q * p) /\ q * p \in Nat
  BY <1>2
<1>4. n = q * m + (2 * x + e)
  BY <1>1, <1>2, <1>3
<1>5. 2 * x + e \in 0..m - 1
  BY <1>1, <1>2
<1> HIDE DEF m
<1>6. a \in Nat /\ c \in 0..m - 1 /\ n = a * m + c
  BY <1>3, DivideBy
<1> HIDE DEF a, c
<1>7. a * m + c = q * m + (2 * x + e)
  BY <1>4, <1>6
<1>8. a = q
  BY <1>2, <1>3, <1>5, <1>6, <1>7, DivMod
<1> QED
  BY <1>8 DEF a, m, q, h

(* Powers of two. *)
LEMMA PowersOfTwo ==
    /\ Power(2, 0) = 1
    /\ \A n \in Nat : Power(2, n) \in Nat \ {0} /\ Power(2, n + 1) = 2 * Power(2, n)
<1>1. 2 \in Nat /\ 2 \in Nat \ {0}
  OBVIOUS
<1> QED
  BY <1>1, PowerOf, PowerPositive

Bits == Seq(0..1)

(* Bits are digits of radix two.                                           *)
LEMMA BitsAre == Bits = Digits(2)
<1>1. 0..1 = 0..2 - 1
  OBVIOUS
<1> QED
  BY <1>1 DEF Bits, Digits

(* BitsOf writes as many bits as it is asked for.                          *)
LEMMA BitsOfType ==
    ASSUME NEW n \in Nat, NEW w \in Nat
    PROVE  BitsOf(n, w) \in Bits /\ Len(BitsOf(n, w)) = w
<1>1. ASSUME NEW i \in 1..w  PROVE (n \div Power(2, w - i)) % 2 \in 0..1
  <2>1. Power(2, w - i) \in Nat \ {0}
    <3>1. w - i \in Nat
      OBVIOUS
    <3> QED  BY <3>1, PowersOfTwo
  <2>2. n \div Power(2, w - i) \in Nat
    BY <2>1, DivideBy
  <2> QED
    BY <2>2, Halves
<1>2. BitsOf(n, w) \in [1..w -> 0..1]
  BY <1>1 DEF BitsOf
<1> QED
  BY <1>2 DEF Bits

(* The last bit is the remainder by two, the others are the bits of half.  *)
LEMMA BitsAppend ==
    ASSUME NEW n \in Nat, NEW w \in Nat
    PROVE  BitsOf(n, w + 1) = Append(BitsOf(n \div 2, w), n % 2)
<1> DEFINE b == BitsOf(n, w + 1)
           h == BitsOf(n \div 2, w)
           e == Append(h, n % 2)
<1>1. n \div 2 \in Nat /\ n % 2 \in 0..1
  BY Halves
<1>2. w + 1 \in Nat
  OBVIOUS
<1>3. b \in Bits /\ Len(b) = w + 1
  BY <1>2, BitsOfType
<1>4. h \in Bits /\ Len(h) = w
  BY <1>1, BitsOfType
<1>5. e \in Bits /\ Len(e) = w + 1 /\ e[w + 1] = n % 2 /\ \A i \in 1..w : e[i] = h[i]
  <2> HIDE DEF h
  <2> QED  BY <1>1, <1>4 DEF Bits
<1>6. ASSUME NEW i \in 1..w + 1  PROVE b[i] = e[i]
  <2>1. b[i] = (n \div Power(2, (w + 1) - i)) % 2
    BY DEF BitsOf
  <2>2. CASE i = w + 1
    <3>1. (w + 1) - i = 0
      BY <2>2
    <3>2. n \div 1 = n
      OBVIOUS
    <3> HIDE DEF b, e
    <3> QED  BY <1>5, <2>1, <2>2, <3>1, <3>2, PowersOfTwo
  <2>3. CASE i # w + 1
    <3>1. i \in 1..w /\ w - i \in Nat /\ (w + 1) - i = (w - i) + 1
      BY <2>3
    <3>2. Power(2, (w + 1) - i) = 2 * Power(2, w - i) /\ Power(2, w - i) \in Nat \ {0}
      BY <3>1, PowersOfTwo
    <3>3. n \div Power(2, (w + 1) - i) = (n \div 2) \div Power(2, w - i)
      BY <3>2, DivTwice
    <3>4. h[i] = ((n \div 2) \div Power(2, w - i)) % 2
      BY <3>1 DEF BitsOf
    <3> HIDE DEF b, e, h
    <3> QED  BY <1>5, <2>1, <3>1, <3>3, <3>4
  <2> QED
    BY <2>2, <2>3
<1> HIDE DEF b, e
<1>7. b = e
  BY <1>3, <1>5, <1>6, SeqEqual DEF Bits
<1> QED
  BY <1>7 DEF b, e

(* The bits of a number that fits are a number again.                      *)
LEMMA NumberOfBits ==
    ASSUME NEW w \in Nat
    PROVE  \A n \in 0..Power(2, w) - 1 : Number(BitsOf(n, w), 2) = n
<1> DEFINE Good(k) == \A n \in 0..Power(2, k) - 1 : Number(BitsOf(n, k), 2) = n
           T == {k \in Nat : Good(k)}
<1>1. 0 \in T
  <2>1. ASSUME NEW n \in 0..Power(2, 0) - 1  PROVE Number(BitsOf(n, 0), 2) = n
    <3>1. n = 0
      BY PowersOfTwo
    <3>2. BitsOf(0, 0) = <<>>
      <4>1. BitsOf(0, 0) \in Seq(0..1) /\ Len(BitsOf(0, 0)) = 0
        BY BitsOfType DEF Bits
      <4> QED  BY <4>1
    <3>3. Number(<<>>, 2) = 0
      BY NumberOf
    <3> QED  BY <3>1, <3>2, <3>3
  <2> QED  BY <2>1
<1>2. ASSUME NEW k \in Nat, k \in T  PROVE k + 1 \in T
  <2>1. ASSUME NEW n \in 0..Power(2, k + 1) - 1  PROVE Number(BitsOf(n, k + 1), 2) = n
    <3> DEFINE h == n \div 2
               e == n % 2
               b == BitsOf(h, k)
    <3>1. Power(2, k + 1) = 2 * Power(2, k) /\ Power(2, k) \in Nat \ {0}
      BY PowersOfTwo
    <3>2. n \in Nat /\ n < 2 * Power(2, k)
      BY <3>1
    <3>3. h \in Nat /\ e \in 0..1 /\ n = h * 2 + e
      BY <3>2, Halves
    <3>4. BitsOf(n, k + 1) = Append(b, e)
      BY <3>2, BitsAppend
    <3> HIDE DEF h, e
    <3>5. h \in 0..Power(2, k) - 1
      BY <3>1, <3>2, <3>3
    <3>6. Number(b, 2) = h
      BY <1>2, <3>5
    <3>7. b \in Seq(Nat) /\ e \in Nat
      <4>1. b \in Bits
        BY <3>3, BitsOfType
      <4>2. 2 \in Nat
        OBVIOUS
      <4> QED  BY <3>3, <4>1, <4>2, BitsAre, DigitsAreNumbers
    <3> HIDE DEF b
    <3>8. Number(Append(b, e), 2) = Number(b, 2) * 2 + e
      BY <3>7, NumberOf
    <3> QED  BY <3>3, <3>4, <3>6, <3>8
  <2> QED
    BY <2>1
<1>3. Nat \subseteq T
  <2> HIDE DEF T
  <2> QED  BY <1>1, <1>2, AllNumbers
<1>4. Good(w)
  <2> HIDE DEF Good
  <2> QED  BY <1>3
<1> QED
  BY <1>4

(* The number of w bits fits in w bits.                                    *)
LEMMA NumberFits ==
    ASSUME NEW s \in Bits
    PROVE  Number(s, 2) \in Nat /\ Number(s, 2) \in 0..Power(2, Len(s)) - 1
<1>1. s \in Digits(2) /\ 2 \in Nat \ {0} /\ 2 \in Nat /\ Len(s) \in Nat
  BY BitsAre DEF Bits
<1>2. Number(s, 2) < Power(2, Len(s))
  BY <1>1, NumberBound
<1>3. Number(s, 2) \in Nat
  BY <1>1, NumberOf, DigitsAreNumbers
<1>4. Power(2, Len(s)) \in Nat
  BY <1>1, PowersOfTwo
<1> QED
  BY <1>2, <1>3, <1>4

(* Bits are the bits of their number.                                      *)
LEMMA BitsOfNumber ==
    ASSUME NEW s \in Bits
    PROVE  BitsOf(Number(s, 2), Len(s)) = s
<1> DEFINE w == Len(s)
           n == Number(s, 2)
           b == BitsOf(n, w)
<1>1. w \in Nat /\ n \in 0..Power(2, w) - 1 /\ n \in Nat
  BY NumberFits DEF Bits
<1>2. b \in Bits /\ Len(b) = w
  BY <1>1, BitsOfType
<1>3. Number(b, 2) = n
  BY <1>1, NumberOfBits
<1> HIDE DEF b
<1>4. b \in Digits(2) /\ s \in Digits(2) /\ 2 \in Nat \ {0}
  BY <1>2, BitsAre
<1>5. b = s
  BY <1>2, <1>3, <1>4, NumberSame
<1> QED
  BY <1>5 DEF b

(* Joining sequences. *)
LEMMA FlattenOf ==
    ASSUME NEW S, NEW cs \in Seq(Seq(S))
    PROVE  /\ FlattenSeq(cs) \in Seq(S)
           /\ cs = <<>> => FlattenSeq(cs) = <<>>
           /\ \A c \in Seq(S) : FlattenSeq(Append(cs, c)) = FlattenSeq(cs) \o c
<1> DEFINE V == Seq(S)
           body(s, f) == [i \in 1..Len(s) |-> IF i = 1 THEN s[i] ELSE f[i - 1] \o s[i]]
           it(s) == CHOOSE f : f = body(s, f)
<1>0. cs \in Seq(V) /\ <<>> \in V
  OBVIOUS
<1>1. ASSUME NEW s \in Seq(V)
      PROVE  FlattenSeq(s) = IF s = <<>> THEN <<>> ELSE it(s)[Len(s)]
  <2>1. FlattenSeq(s) = IF Len(s) = 0 THEN s ELSE it(s)[Len(s)]
    BY DEF FlattenSeq
  <2>2. Len(s) = 0 <=> s = <<>>
    OBVIOUS
  <2> HIDE DEF it
  <2> QED  BY <2>1, <2>2
<1>2. ASSUME NEW s \in Seq(V)
      PROVE  \E f \in [1..Len(s) -> V] : f = body(s, f)
  <2> DEFINE n == Len(s)
             D == 0..n
             mu == [i \in D |-> i]
             at == [i \in D |-> IF i = 0 THEN <<>> ELSE s[i]]
             next == [i \in D |-> IF i = 0 THEN 0 ELSE i - 1]
             go == [p \in D \X V |-> p[2] \o at[p[1]]]
             B == {0, 1}
  <2>0. n \in Nat
    OBVIOUS
  <2>1. mu \in [D -> Nat] /\ next \in [D -> D]
    BY <2>0
  <2>2. at \in [D -> V]
    <3>1. ASSUME NEW i \in D  PROVE (IF i = 0 THEN <<>> ELSE s[i]) \in V
      <4>1. CASE i = 0
        BY <4>1
      <4>2. CASE i # 0
        <5>1. i \in 1..Len(s)
          BY <4>2
        <5> HIDE DEF V
        <5>2. s[i] \in V
          BY <5>1
        <5> QED  BY <4>2, <5>2
      <4> QED  BY <4>1, <4>2
    <3> HIDE DEF V, D
    <3> QED  BY <3>1
  <2>3. go \in [D \X V -> V]
    <3>1. ASSUME NEW p \in D \X V  PROVE p[2] \o at[p[1]] \in V
      <4>1. p[2] \in V /\ at[p[1]] \in V
        BY <2>2
      <4> HIDE DEF at
      <4> QED  BY <4>1
    <3> HIDE DEF V, D, at
    <3> QED  BY <3>1
  <2>4. Nearer(D, B, next, mu)
    BY DEF Nearer
  <2>5. PICK f \in [D -> V] : Solves(f, D, B, at, next, go)
    <3> HIDE DEF D, V, mu, at, next, go, B
    <3> QED  BY <2>1, <2>2, <2>3, <2>4, Recursion
  <2>6. ASSUME NEW i \in 1..n  PROVE f[i] = IF i = 1 THEN s[i] ELSE f[i - 1] \o s[i]
    <3>0. i \in D /\ i # 0 /\ at[i] = s[i]
      OBVIOUS
    <3>1. CASE i = 1
      <4>1. f[i] = at[i]
        <5>1. i \in B
          BY <3>1
        <5> HIDE DEF D, V, at, next, go, B
        <5> QED  BY <3>0, <5>1, <2>5 DEF Solves
      <4> QED  BY <3>0, <3>1, <4>1
    <3>2. CASE i # 1
      <4>1. f[i] = go[<<i, f[next[i]]>>]
        <5>1. i \notin B
          BY <3>0, <3>2
        <5> HIDE DEF D, V, at, next, go, B
        <5> QED  BY <3>0, <5>1, <2>5 DEF Solves
      <4>2. next[i] = i - 1 /\ i - 1 \in D
        BY <3>0
      <4>3. f[i - 1] \in V
        <5> HIDE DEF V, D
        <5> QED  BY <4>2
      <4>4. f[i] = f[i - 1] \o at[i]
        <5> HIDE DEF V, D, at, next
        <5> QED  BY <3>0, <4>1, <4>2, <4>3
      <4> HIDE DEF at
      <4> QED  BY <3>0, <3>2, <4>4
    <3> QED
      BY <3>1, <3>2
  <2> DEFINE g == [i \in 1..n |-> f[i]]
  <2>7. g \in [1..n -> V]
    <3>1. \A i \in 1..n : i \in D
      OBVIOUS
    <3> HIDE DEF V, D
    <3> QED  BY <3>1
  <2>8. g = body(s, g)
    <3>1. ASSUME NEW i \in 1..n  PROVE g[i] = IF i = 1 THEN s[i] ELSE g[i - 1] \o s[i]
      <4>1. CASE i = 1
        BY <2>6, <4>1
      <4>2. CASE i # 1
        <5>1. i - 1 \in 1..n
          BY <4>2
        <5>2. g[i - 1] = f[i - 1] /\ g[i] = f[i]
          BY <5>1
        <5> HIDE DEF g
        <5> QED  BY <2>6, <4>2, <5>2
      <4> QED  BY <4>1, <4>2
    <3> QED  BY <3>1
  <2> HIDE DEF g, V, body
  <2> QED
    BY <2>7, <2>8
<1>3. ASSUME NEW s \in Seq(V), NEW i \in 1..Len(s)
      PROVE  it(s)[i] = IF i = 1 THEN s[i] ELSE it(s)[i - 1] \o s[i]
  <2>1. it(s) = body(s, it(s))
    <3> HIDE DEF body, V
    <3> QED  BY <1>2
  <2> DEFINE g == it(s)
  <2>2. g = body(s, g)
    BY <2>1
  <2> HIDE DEF g
  <2>3. g[i] = IF i = 1 THEN s[i] ELSE g[i - 1] \o s[i]
    BY <2>2
  <2> QED
    BY <2>3 DEF g
<1>4. ASSUME NEW s \in Seq(V), NEW c \in V, NEW m \in Nat, m \in 1..Len(s)
      PROVE  it(s)[m] = it(Append(s, c))[m] /\ it(s)[m] \in V
  <2> DEFINE e == Append(s, c)
             a == it(s)
             z == it(e)
             T == {k \in Nat : k \in 1..Len(s) => a[k] = z[k] /\ a[k] \in V}
  <2>0. e \in Seq(V) /\ Len(e) = Len(s) + 1 /\ \A k \in 1..Len(s) : e[k] = s[k] /\ s[k] \in V
    <3> HIDE DEF V
    <3> QED  OBVIOUS
  <2> HIDE DEF e
  <2>1. \A k \in 1..Len(s) : a[k] = IF k = 1 THEN s[k] ELSE a[k - 1] \o s[k]
    <3> HIDE DEF it, V
    <3> QED  BY <1>3
  <2>2. \A k \in 1..Len(e) : z[k] = IF k = 1 THEN e[k] ELSE z[k - 1] \o e[k]
    <3> HIDE DEF it, V
    <3> QED  BY <1>3, <2>0
  <2> HIDE DEF a, z
  <2>3. 0 \in T
    OBVIOUS
  <2>4. ASSUME NEW k \in Nat, k \in T  PROVE k + 1 \in T
    <3>1. ASSUME k + 1 \in 1..Len(s)  PROVE a[k + 1] = z[k + 1] /\ a[k + 1] \in V
      <4>0. k + 1 \in 1..Len(e) /\ e[k + 1] = s[k + 1] /\ s[k + 1] \in V
        <5>1. Len(s) \in Nat
          OBVIOUS
        <5> HIDE DEF V
        <5> QED  BY <2>0, <3>1, <5>1
      <4>1. CASE k = 0
        <5> HIDE DEF V
        <5> QED  BY <2>1, <2>2, <3>1, <4>0, <4>1
      <4>2. CASE k # 0
        <5>1. k \in 1..Len(s) /\ k + 1 - 1 = k /\ k + 1 # 1
          BY <3>1, <4>2
        <5>2. a[k] = z[k] /\ a[k] \in V
          BY <2>4, <5>1
        <5>3. a[k + 1] = a[k] \o s[k + 1] /\ z[k + 1] = z[k] \o s[k + 1]
          <6> HIDE DEF V
          <6> DEFINE j == k + 1
          <6>1. j \in 1..Len(s) /\ j \in 1..Len(e) /\ j # 1 /\ j - 1 = k /\ e[j] = s[j]
            BY <3>1, <4>0, <5>1
          <6> HIDE DEF j
          <6>2. a[j] = a[j - 1] \o s[j]
            BY <2>1, <6>1
          <6>3. z[j] = z[j - 1] \o e[j]
            BY <2>2, <6>1
          <6> QED  BY <6>1, <6>2, <6>3 DEF j
        <5>4. a[k] \o s[k + 1] \in V
          BY <4>0, <5>2
        <5> HIDE DEF V
        <5> QED  BY <5>2, <5>3, <5>4
      <4> QED  BY <4>1, <4>2
    <3> HIDE DEF V
    <3> QED  BY <3>1
  <2>5. Nat \subseteq T
    <3> HIDE DEF T
    <3> QED  BY <2>3, <2>4, AllNumbers
  <2>6. a[m] = z[m] /\ a[m] \in V
    <3> HIDE DEF V
    <3> QED  BY <2>5, <1>4
  <2> QED
    BY <2>6 DEF a, z, e
<1> HIDE DEF it
<1>5. ASSUME NEW s \in Seq(V)  PROVE FlattenSeq(s) \in V
  <2>1. CASE s = <<>>
    <3>1. FlattenSeq(s) = <<>>
      BY <1>1, <2>1
    <3> HIDE DEF V
    <3> QED  BY <1>0, <3>1
  <2>2. CASE s # <<>>
    <3>1. Len(s) \in 1..Len(s) /\ Len(s) \in Nat
      BY <2>2
    <3> HIDE DEF V
    <3>3. it(s)[Len(s)] \in V
      BY <1>0, <1>4, <3>1
    <3> QED  BY <1>1, <2>2, <3>3
  <2> QED  BY <2>1, <2>2
<1>6. ASSUME NEW c \in V  PROVE FlattenSeq(Append(cs, c)) = FlattenSeq(cs) \o c
  <2> DEFINE e == Append(cs, c)
             n == Len(cs)
  <2>1. e \in Seq(V) /\ Len(e) = n + 1 /\ e # <<>> /\ e[n + 1] = c /\ n \in Nat
    <3> HIDE DEF V
    <3>1. e \in Seq(V) /\ Len(e) = n + 1 /\ e[n + 1] = c /\ n \in Nat
      BY <1>0
    <3> HIDE DEF n, e
    <3>2. e # <<>>
      BY <3>1
    <3> QED  BY <3>1, <3>2
  <2>2. FlattenSeq(e) = it(e)[n + 1]
    <3> HIDE DEF V, e
    <3> QED  BY <1>1, <2>1
  <2>3. n + 1 \in 1..Len(e)
    BY <2>1
  <2>4. it(e)[n + 1] = IF n + 1 = 1 THEN e[n + 1] ELSE it(e)[n + 1 - 1] \o e[n + 1]
    <3> HIDE DEF V, e, n
    <3> QED  BY <1>3, <2>1, <2>3
  <2>5. CASE n = 0
    <3>1. cs = <<>>
      BY <2>5
    <3>2. FlattenSeq(cs) = <<>>
      BY <1>1, <3>1
    <3>3. <<>> \o c = c
      OBVIOUS
    <3> HIDE DEF V, e
    <3> QED  BY <2>1, <2>2, <2>4, <2>5, <3>2, <3>3 DEF e
  <2>6. CASE n # 0
    <3>1. n \in 1..Len(cs) /\ cs # <<>> /\ n + 1 - 1 = n /\ n + 1 # 1
      BY <2>1, <2>6
    <3>2. it(cs)[n] = it(e)[n]
      <4> HIDE DEF V
      <4> QED  BY <1>0, <1>4, <2>1, <3>1
    <3>3. FlattenSeq(cs) = it(cs)[n]
      <4> HIDE DEF V
      <4> QED  BY <1>0, <1>1, <3>1
    <3> HIDE DEF V
    <3> QED  BY <2>1, <2>2, <2>4, <3>1, <3>2, <3>3
  <2> QED
    BY <2>5, <2>6
<1> QED
  BY <1>1, <1>5, <1>6

(* The places of n chunks of w. *)
LEMMA Slot ==
    ASSUME NEW n \in Nat, NEW w \in Nat, NEW i \in 1..n, NEW j \in 1..w
    PROVE  /\ (i - 1) * w \in Nat /\ (i - 1) * w + j \in 1..n * w
           /\ (i - 1) * w + w = i * w /\ i * w <= n * w /\ i * w \in Nat
<1>1. (i - 1) * w \in Nat /\ i * w \in Nat /\ n * w \in Nat
  OBVIOUS
<1>2. (i - 1) * w + w = i * w
  OBVIOUS
<1>3. i * w <= n * w
  OBVIOUS
<1> QED
  BY <1>1, <1>2, <1>3

HasSlot(k, n, w) == \E i \in 1..n, j \in 1..w : k = (i - 1) * w + j

(* Every place in a row of chunks is in one of them.                       *)
LEMMA SlotOf ==
    ASSUME NEW n \in Nat, NEW w \in Nat \ {0}, NEW k \in 1..n * w
    PROVE  HasSlot(k, n, w)
<1> DEFINE q == (k - 1) \div w
           x == (k - 1) % w
<1>1. n * w \in Nat /\ k - 1 \in Nat
  OBVIOUS
<1>2. q \in Nat /\ x \in 0..w - 1 /\ k - 1 = q * w + x
  BY <1>1, DivideBy
<1> HIDE DEF q, x
<1>3. q < n
  <2> SUFFICES ASSUME n <= q  PROVE FALSE
    BY <1>2
  <2>1. n * w <= q * w /\ q * w \in Nat
    BY <1>2
  <2> QED  BY <1>1, <1>2, <2>1
<1> DEFINE i == q + 1
           j == x + 1
<1>4. i \in 1..n /\ j \in 1..w /\ i - 1 = q
  BY <1>2, <1>3
<1>5. k = q * w + j
  <2>1. q * w \in Nat
    BY <1>2
  <2> QED  BY <1>1, <1>2, <2>1
<1> HIDE DEF i, j
<1> QED
  BY <1>4, <1>5 DEF HasSlot

(* f is the chunks one after the other.                                    *)
Laid(f, cs, w, S) ==
    /\ f \in Seq(S)
    /\ Len(f) = Len(cs) * w
    /\ \A i \in 1..Len(cs), j \in 1..w : f[(i - 1) * w + j] = cs[i][j]

(* Chunks of one length laid end to end: chunk i starts after i - 1        *)
(* lengths.                                                                *)
LEMMA FlattenChunks ==
    ASSUME NEW S, NEW w \in Nat, NEW cs \in Seq(Chunk(S, w))
    PROVE  Laid(FlattenSeq(cs), cs, w, S)
<1> DEFINE C == Chunk(S, w)
           T == {s \in Seq(C) : Laid(FlattenSeq(s), s, w, S)}
<1>0. \A s \in Seq(C) : s \in Seq(Seq(S))
  BY DEF Chunk
<1>c. \A c \in C : c \in Seq(S) /\ Len(c) = w
  BY DEF Chunk
<1> HIDE DEF C
<1>1. <<>> \in T
  <2>1. <<>> \in Seq(C) /\ <<>> \in Seq(Seq(S)) /\ <<>> \in Seq(S) /\ Len(<<>>) = 0
    OBVIOUS
  <2>2. FlattenSeq(<<>>) = <<>>
    BY <2>1, FlattenOf
  <2>3. 0 = 0 * w
    OBVIOUS
  <2>4. Laid(<<>>, <<>>, w, S)
    BY <2>1, <2>3 DEF Laid
  <2> QED  BY <2>1, <2>2, <2>4
<1>2. ASSUME NEW s \in Seq(C), NEW c \in C, s \in T  PROVE Append(s, c) \in T
  <2> DEFINE f == FlattenSeq(s)
             e == Append(s, c)
             g == f \o c
             n == Len(s)
  <2>1. s \in Seq(Seq(S)) /\ c \in Seq(S) /\ Len(c) = w
    BY <1>0, <1>c
  <2>2. Laid(f, s, w, S)
    BY <1>2
  <2>3. FlattenSeq(e) = g
    BY <2>1, FlattenOf
  <2>4. e \in Seq(C) /\ Len(e) = n + 1 /\ e[n + 1] = c /\ n \in Nat
          /\ \A i \in 1..n : e[i] = s[i]
    OBVIOUS
  <2> HIDE DEF e, f
  <2>5. f \in Seq(S) /\ Len(f) = n * w
    BY <2>2 DEF Laid
  <2>6. Joined(g, f, c, S)
    BY <2>1, <2>5, ConcatAt
  <2> HIDE DEF g, n
  <2>7. n * w \in Nat /\ (n + 1) * w = n * w + w
    BY <2>4
  <2>8. g \in Seq(S) /\ Len(g) = Len(e) * w
    BY <2>1, <2>4, <2>5, <2>6, <2>7 DEF Joined
  <2>9. ASSUME NEW i \in 1..Len(e), NEW j \in 1..w  PROVE g[(i - 1) * w + j] = e[i][j]
    <3>1. CASE i = n + 1
      <4>1. i - 1 = n /\ e[i] = c
        BY <2>4, <3>1
      <4>2. g[Len(f) + j] = c[j]
        BY <2>1, <2>6 DEF Joined
      <4> QED  BY <2>5, <4>1, <4>2
    <3>2. CASE i # n + 1
      <4>1. i \in 1..n /\ e[i] = s[i]
        BY <2>4, <3>2
      <4>2. (i - 1) * w + j \in 1..n * w
        BY <2>4, <4>1, Slot
      <4> DEFINE k == (i - 1) * w + j
      <4>3. f[k] = s[i][j]
        BY <2>2, <4>1 DEF Laid, n
      <4>4. k \in 1..Len(f)
        BY <2>5, <4>2
      <4> HIDE DEF k
      <4>5. g[k] = f[k]
        BY <2>6, <4>4 DEF Joined
      <4> QED  BY <4>1, <4>3, <4>5 DEF k
    <3> QED
      BY <3>1, <3>2
  <2>10. Laid(g, e, w, S)
    BY <2>8, <2>9 DEF Laid
  <2> QED
    BY <2>3, <2>4, <2>10 DEF e
<1>3. Seq(C) \subseteq T
  <2> HIDE DEF T
  <2> QED  BY <1>1, <1>2, AllSequences
<1> QED
  BY <1>3 DEF C

(* Numbers of w bits, and the string of their bits.                        *)
Words(w) == 0..Power(2, w) - 1

(* A word is a number.                                                     *)
LEMMA WordsAreNumbers ==
    ASSUME NEW w \in Nat, NEW n \in Words(w)
    PROVE  n \in Nat /\ n \in 0..Power(2, w) - 1
<1>1. Power(2, w) \in Nat
  BY PowersOfTwo
<1> QED
  BY <1>1 DEF Words

(* The bits of some words, w to a word.                                    *)
LEMMA BitStringOf ==
    ASSUME NEW w \in Nat, NEW s \in Seq(Words(w))
    PROVE  /\ BitString(s, w) \in Bits
           /\ Len(BitString(s, w)) = Len(s) * w
           /\ \A i \in 1..Len(s), j \in 1..w : BitString(s, w)[(i - 1) * w + j] = BitsOf(s[i], w)[j]
<1> DEFINE C == Chunk(0..1, w)
           cs == [i \in DOMAIN s |-> BitsOf(s[i], w)]
<1>1. ASSUME NEW i \in 1..Len(s)  PROVE BitsOf(s[i], w) \in C
  <2>1. s[i] \in Nat
    BY WordsAreNumbers
  <2> QED  BY <2>1, BitsOfType DEF Chunk, Bits
<1>2. DOMAIN s = 1..Len(s) /\ Len(s) \in Nat
  OBVIOUS
<1> HIDE DEF C
<1>3. cs \in Seq(C)
  <2>1. cs \in [1..Len(s) -> C]
    BY <1>1, <1>2
  <2> HIDE DEF cs
  <2> QED  BY <1>2, <2>1
<1>4. Len(cs) = Len(s) /\ \A i \in 1..Len(s) : cs[i] = BitsOf(s[i], w)
  BY <1>2
<1>5. BitString(s, w) = FlattenSeq(cs)
  BY DEF BitString
<1> HIDE DEF cs
<1>6. Laid(FlattenSeq(cs), cs, w, 0..1)
  BY <1>3, FlattenChunks DEF C
<1> QED
  BY <1>4, <1>5, <1>6 DEF Laid, Bits

(* One group of w bits.                                                    *)
LEMMA GroupOf ==
    ASSUME NEW w \in Nat \ {0}, NEW n \in Nat, NEW bits \in Bits, Len(bits) = n * w,
           NEW i \in 1..n
    PROVE  LET t == SubSeq(bits, (i - 1) * w + 1, i * w)
           IN  t \in Bits /\ Len(t) = w /\ \A j \in 1..w : t[j] = bits[(i - 1) * w + j]
<1> DEFINE a == (i - 1) * w
           b == i * w
           t == SubSeq(bits, a + 1, b)
<1>1. 1 \in 1..w
  OBVIOUS
<1>2. a \in Nat /\ a + w = b /\ b <= n * w /\ b \in Nat
  BY <1>1, Slot
<1> HIDE DEF a, b
<1>3. a + 1 \in Nat \ {0} /\ b \in 0..Len(bits) /\ a + 1 <= b + 1 /\ b - (a + 1) + 1 = w
  BY <1>2
<1>4. bits \in Seq(0..1)
  BY DEF Bits
<1>5. t \in Seq(0..1) /\ Len(t) = w /\ \A j \in 1..w : t[j] = bits[a + 1 + j - 1]
  <2>1. t \in Seq(0..1) /\ Len(t) = b - (a + 1) + 1
          /\ \A j \in 1..b - (a + 1) + 1 : t[j] = bits[a + 1 + j - 1]
    BY <1>3, <1>4, SubSeqOf
  <2> HIDE DEF t
  <2> QED  BY <1>3, <2>1
<1>6. \A j \in 1..w : a + 1 + j - 1 = a + j
  BY <1>2
<1>7. \A j \in 1..w : t[j] = bits[a + j]
  <2> HIDE DEF t
  <2> QED  BY <1>5, <1>6
<1>8. t \in Bits /\ Len(t) = w /\ \A j \in 1..w : t[j] = bits[a + j]
  BY <1>5, <1>7 DEF Bits
<1> QED
  BY <1>8 DEF t, a, b

(* Bits taken w at a time are words.                                       *)
LEMMA GroupedOf ==
    ASSUME NEW w \in Nat \ {0}, NEW n \in Nat, NEW bits \in Bits, Len(bits) = n * w
    PROVE  /\ Grouped(bits, w) \in Seq(Words(w))
           /\ Len(Grouped(bits, w)) = n
           /\ \A i \in 1..n : Grouped(bits, w)[i] = Number(SubSeq(bits, (i - 1) * w + 1, i * w), 2)
<1> DEFINE num(i) == Number(SubSeq(bits, (i - 1) * w + 1, i * w), 2)
           g == [i \in 1..n |-> num(i)]
<1>1. Len(bits) \div w = n
  <2>1. n * w = n * w + 0 /\ n * w \in Nat
    OBVIOUS
  <2> DEFINE q == (n * w) \div w
             x == (n * w) % w
  <2>2. q \in Nat /\ x \in 0..w - 1 /\ n * w = q * w + x
    BY <2>1, DivideBy
  <2> HIDE DEF q, x
  <2>3. q = n
    <3>1. 0 \in 0..w - 1 /\ q * w + x = n * w + 0
      BY <2>1, <2>2
    <3> QED  BY <2>2, <3>1, DivMod
  <2> QED  BY <2>3 DEF q
<1>2. Grouped(bits, w) = g
  BY <1>1 DEF Grouped
<1>3. ASSUME NEW i \in 1..n  PROVE num(i) \in Words(w)
  <2> DEFINE t == SubSeq(bits, (i - 1) * w + 1, i * w)
  <2>1. t \in Bits /\ Len(t) = w
    BY GroupOf
  <2> HIDE DEF t
  <2>2. Number(t, 2) \in 0..Power(2, w) - 1
    BY <2>1, NumberFits
  <2> QED  BY <2>2 DEF t, Words
<1> HIDE DEF num
<1>4. g \in [1..n -> Words(w)]
  BY <1>3
<1>5. g \in Seq(Words(w)) /\ Len(g) = n /\ \A i \in 1..n : g[i] = num(i)
  <2>1. \A i \in 1..n : g[i] = num(i)
    OBVIOUS
  <2> HIDE DEF g
  <2> QED  BY <1>4, <2>1
<1> HIDE DEF g
<1> QED
  BY <1>2, <1>5 DEF num

(* Words come back from their bits.                                        *)
LEMMA GroupedBits ==
    ASSUME NEW w \in Nat \ {0}, NEW s \in Seq(Words(w))
    PROVE  Grouped(BitString(s, w), w) = s
<1> DEFINE bits == BitString(s, w)
           n == Len(s)
           g == Grouped(bits, w)
<1>1. /\ bits \in Bits /\ Len(bits) = n * w /\ n \in Nat
      /\ \A i \in 1..n, j \in 1..w : bits[(i - 1) * w + j] = BitsOf(s[i], w)[j]
  BY BitStringOf
<1> HIDE DEF bits
<1>2. g \in Seq(Words(w)) /\ Len(g) = n
        /\ \A i \in 1..n : g[i] = Number(SubSeq(bits, (i - 1) * w + 1, i * w), 2)
  BY <1>1, GroupedOf
<1> HIDE DEF g
<1>3. ASSUME NEW i \in 1..n  PROVE g[i] = s[i]
  <2> DEFINE t == SubSeq(bits, (i - 1) * w + 1, i * w)
             b == BitsOf(s[i], w)
  <2>0. s[i] \in 0..Power(2, w) - 1 /\ s[i] \in Nat
    BY WordsAreNumbers
  <2>1. t \in Bits /\ Len(t) = w /\ \A j \in 1..w : t[j] = bits[(i - 1) * w + j]
    BY <1>1, GroupOf
  <2>2. b \in Bits /\ Len(b) = w
    BY <2>0, BitsOfType
  <2>3. \A j \in 1..w : bits[(i - 1) * w + j] = b[j]
    BY <1>1
  <2>4. Number(b, 2) = s[i]
    BY <2>0, NumberOfBits
  <2>5. g[i] = Number(t, 2)
    BY <1>2
  <2> HIDE DEF t, b
  <2>6. t = b
    <3>1. \A j \in 1..Len(t) : t[j] = b[j]
      BY <2>1, <2>3
    <3> QED  BY <2>1, <2>2, <3>1, SeqEqual DEF Bits
  <2> QED  BY <2>4, <2>5, <2>6
<1>4. g = s
  BY <1>2, <1>3, SeqEqual
<1> QED
  BY <1>4 DEF g, bits

(* Bits come back from their words.                                        *)
LEMMA BitsGrouped ==
    ASSUME NEW w \in Nat \ {0}, NEW n \in Nat, NEW bits \in Bits, Len(bits) = n * w
    PROVE  BitString(Grouped(bits, w), w) = bits
<1> DEFINE g == Grouped(bits, w)
           b == BitString(g, w)
<1>1. g \in Seq(Words(w)) /\ Len(g) = n
        /\ \A i \in 1..n : g[i] = Number(SubSeq(bits, (i - 1) * w + 1, i * w), 2)
  BY GroupedOf
<1> HIDE DEF g
<1>2. /\ b \in Bits /\ Len(b) = n * w
      /\ \A i \in 1..n, j \in 1..w : b[(i - 1) * w + j] = BitsOf(g[i], w)[j]
  BY <1>1, BitStringOf
<1> HIDE DEF b
<1>3. ASSUME NEW k \in 1..Len(b)  PROVE b[k] = bits[k]
  <2>1. PICK i \in 1..n, j \in 1..w : k = (i - 1) * w + j
    <3>1. k \in 1..n * w
      BY <1>2
    <3>2. HasSlot(k, n, w)
      BY <3>1, SlotOf
    <3> QED  BY <3>2 DEF HasSlot
  <2> DEFINE t == SubSeq(bits, (i - 1) * w + 1, i * w)
  <2>2. t \in Bits /\ Len(t) = w /\ t[j] = bits[(i - 1) * w + j]
    BY GroupOf
  <2>3. g[i] = Number(t, 2)
    BY <1>1
  <2> HIDE DEF t
  <2>4. BitsOf(g[i], w) = t
    BY <2>2, <2>3, BitsOfNumber
  <2>5. b[(i - 1) * w + j] = BitsOf(g[i], w)[j]
    BY <1>2
  <2> QED  BY <2>1, <2>2, <2>4, <2>5
<1>4. b = bits
  BY <1>2, <1>3, SeqEqual DEF Bits
<1> QED
  BY <1>4 DEF b, g

-------------------------------------------------------------------------------
(* Phrase and entropy undo each other.                                     *)

(* The widths are positive numbers.                                        *)
LEMMA WidthsOf ==
    /\ ByteBits \in Nat \ {0} /\ WordBits \in Nat \ {0} /\ SignatureBytes \in Nat \ {0}
    /\ Ratio \in Nat \ {0} /\ Ratio + 1 \in Nat \ {0} /\ ByteBits \in Nat /\ WordBits \in Nat
BY Widths

(* A multiple is divided without remainder.                                *)
LEMMA Quotients ==
    ASSUME NEW n \in Nat, NEW w \in Nat \ {0}
    PROVE  n * w \in Nat /\ (n * w) \div w = n /\ (n * w) % w = 0
<1> DEFINE m == n * w
           q == m \div w
           x == m % w
<1>1. m \in Nat
  OBVIOUS
<1>2. q \in Nat /\ x \in 0..w - 1 /\ m = q * w + x
  BY <1>1, DivideBy
<1>3. m = n * w + 0
  BY <1>1
<1> HIDE DEF q, x
<1>4. q = n /\ x = 0
  <2>1. 0 \in 0..w - 1 /\ q * w + x = n * w + 0
    BY <1>2, <1>3
  <2> QED  BY <1>2, <2>1, DivMod
<1> QED
  BY <1>1, <1>4 DEF q, x, m

(* A number divided without remainder is a multiple.                       *)
LEMMA Divides ==
    ASSUME NEW n \in Nat, NEW w \in Nat \ {0}, n % w = 0
    PROVE  n \div w \in Nat /\ n = (n \div w) * w
<1>1. n \div w \in Nat /\ n % w \in 0..w - 1 /\ n = (n \div w) * w + (n % w)
  BY DivideBy
<1>2. (n \div w) * w \in Nat
  BY <1>1
<1> QED
  BY <1>1, <1>2

(* What divides a factor divides the product.                              *)
LEMMA DividesProduct ==
    ASSUME NEW n \in Nat, NEW m \in Nat, NEW w \in Nat \ {0}, m % w = 0
    PROVE  n * (m \div w) \in Nat /\ n * m = (n * (m \div w)) * w
<1> DEFINE q == m \div w
<1>1. q \in Nat /\ m = q * w
  BY Divides
<1> HIDE DEF q
<1>2. n * (q * w) = (n * q) * w /\ n * q \in Nat
  BY <1>1
<1> QED
  BY <1>1, <1>2 DEF q

(* Bits followed by the part of the checksum that goes with them.          *)
LEMMA SplitOf ==
    ASSUME NEW a \in Bits, NEW b \in Bits
    PROVE  Split(a \o b, Len(b)) = [entropy |-> a, checksum |-> b]
<1> DEFINE c == a \o b
           n == Len(a)
           u == SubSeq(c, 1, n)
           v == SubSeq(c, n + 1, Len(c))
<1>0. a \in Seq(0..1) /\ b \in Seq(0..1)
  BY DEF Bits
<1>1. Joined(c, a, b, 0..1)
  BY <1>0, ConcatAt
<1>2. Split(c, Len(b)) = [entropy |-> SubSeq(c, 1, Len(c) - Len(b)), checksum |-> SubSeq(c, Len(c) - Len(b) + 1, Len(c))]
  BY DEF Split
<1> HIDE DEF c
<1>3. c \in Seq(0..1) /\ Len(c) = n + Len(b) /\ n \in Nat /\ Len(b) \in Nat
  BY <1>0, <1>1 DEF Joined
<1>a. (\A i \in 1..n : c[i] = a[i]) /\ \A i \in 1..Len(b) : c[n + i] = b[i]
  BY <1>1 DEF Joined
<1> HIDE DEF n
<1>4. Len(c) - Len(b) = n
  BY <1>3
<1>5. u \in Seq(0..1) /\ Len(u) = n /\ \A i \in 1..n : u[i] = c[i]
  <2>1. 1 \in Nat \ {0} /\ n \in 0..Len(c) /\ 1 <= n + 1 /\ n - 1 + 1 = n
    BY <1>3
  <2>2. u \in Seq(0..1) /\ Len(u) = n - 1 + 1 /\ \A i \in 1..n - 1 + 1 : u[i] = c[1 + i - 1]
    BY <1>3, <2>1, SubSeqOf
  <2> HIDE DEF u
  <2>3. \A i \in 1..n : 1 + i - 1 = i
    BY <1>3
  <2> QED  BY <2>1, <2>2, <2>3
<1>6. v \in Seq(0..1) /\ Len(v) = Len(b) /\ \A i \in 1..Len(b) : v[i] = c[n + i]
  <2>1. n + 1 \in Nat \ {0} /\ Len(c) \in 0..Len(c) /\ n + 1 <= Len(c) + 1
          /\ Len(c) - (n + 1) + 1 = Len(b)
    BY <1>3
  <2>2. v \in Seq(0..1) /\ Len(v) = Len(c) - (n + 1) + 1
          /\ \A i \in 1..Len(c) - (n + 1) + 1 : v[i] = c[n + 1 + i - 1]
    BY <1>3, <2>1, SubSeqOf
  <2> HIDE DEF v
  <2>3. \A i \in 1..Len(b) : n + 1 + i - 1 = n + i
    BY <1>3
  <2> QED  BY <2>1, <2>2, <2>3
<1> HIDE DEF u, v
<1>7. u = a
  <2>1. \A i \in 1..Len(u) : u[i] = a[i]
    BY <1>5, <1>a
  <2>2. Len(u) = Len(a)
    BY <1>5 DEF n
  <2> QED  BY <1>0, <1>5, <2>1, <2>2, SeqEqual
<1>8. v = b
  <2>1. \A i \in 1..Len(v) : v[i] = b[i]
    BY <1>6, <1>a
  <2> QED  BY <1>0, <1>6, <2>1, SeqEqual
<1> QED
  BY <1>2, <1>4, <1>7, <1>8 DEF u, v, c

(* The words of a phrase spell the entropy and its checksum.               *)
LEMMA PhraseOf ==
    ASSUME NEW entropy, Fits(entropy)
    PROVE  LET bits == BitString(entropy, ByteBits)
               sum == Len(bits) \div Ratio
               check == SubSeq(Checksum(entropy), 1, sum)
           IN  /\ bits \in Bits /\ check \in Bits /\ sum \in Nat /\ Len(check) = sum
               /\ Phrase(entropy) \in Seq(Words(WordBits))
               /\ BitString(Phrase(entropy), WordBits) = bits \o check
               /\ Len(bits \o check) = sum * (Ratio + 1)
               /\ Grouped(bits, ByteBits) = entropy
<1> DEFINE bits == BitString(entropy, ByteBits)
           L == Len(entropy) * ByteBits
           sum == Len(bits) \div Ratio
           k == Checksum(entropy)
           check == SubSeq(k, 1, sum)
           all == bits \o check
           m == sum * ((Ratio + 1) \div WordBits)
<1>1. entropy \in Seq(Words(ByteBits)) /\ k \in Seq(0..1) /\ L % Ratio = 0
        /\ L \div Ratio <= Len(k)
  BY DEF Fits, Words
<1>2. bits \in Bits /\ Len(bits) = L
  BY <1>1, BitStringOf, WidthsOf
<1>3. Grouped(bits, ByteBits) = entropy
  BY <1>1, GroupedBits, WidthsOf
<1>4. Phrase(entropy) = Grouped(all, WordBits)
  BY DEF Phrase
<1> HIDE DEF bits, k
<1>5. L \in Nat
  BY <1>1, WidthsOf
<1> HIDE DEF L
<1>6. sum \in Nat /\ L = sum * Ratio /\ sum <= Len(k)
  BY <1>1, <1>2, <1>5, Divides, WidthsOf
<1> HIDE DEF sum
<1>7. check \in Bits /\ Len(check) = sum
  <2>1. 1 \in Nat \ {0} /\ sum \in 0..Len(k) /\ 1 <= sum + 1 /\ sum - 1 + 1 = sum
    BY <1>1, <1>6
  <2>2. check \in Seq(0..1) /\ Len(check) = sum - 1 + 1
    BY <1>1, <2>1, SubSeqOf
  <2> QED  BY <2>1, <2>2 DEF Bits
<1> HIDE DEF check
<1>8. all \in Bits /\ Len(all) = sum * (Ratio + 1)
  <2>1. all \in Seq(0..1) /\ Len(all) = L + sum
    BY <1>2, <1>7 DEF Bits
  <2>2. sum * (Ratio + 1) = sum * Ratio + sum
    BY <1>6, WidthsOf
  <2> QED  BY <2>1, <2>2, <1>6 DEF Bits
<1> HIDE DEF all
<1>9. m \in Nat /\ sum * (Ratio + 1) = m * WordBits
  BY <1>6, DividesProduct, WidthsOf, Groups
<1> HIDE DEF m
<1>10. Len(all) = m * WordBits
  BY <1>8, <1>9
<1>11. Grouped(all, WordBits) \in Seq(Words(WordBits))
  BY <1>8, <1>9, <1>10, GroupedOf, WidthsOf
<1>12. BitString(Grouped(all, WordBits), WordBits) = all
  BY <1>8, <1>9, <1>10, BitsGrouped, WidthsOf
<1>13. Phrase(entropy) \in Seq(Words(WordBits)) /\ BitString(Phrase(entropy), WordBits) = all
  BY <1>4, <1>11, <1>12
<1> QED
  BY <1>2, <1>3, <1>6, <1>7, <1>8, <1>13 DEF bits, sum, check, all, k

(* The phrase of an entropy gives it back (Mnemonic.swift).                *)
THEOREM PhraseReadsBack ==
    ASSUME NEW entropy, Fits(entropy)
    PROVE  Entropy(Phrase(entropy)) = entropy
<1> DEFINE bits == BitString(entropy, ByteBits)
           sum == Len(bits) \div Ratio
           check == SubSeq(Checksum(entropy), 1, sum)
           words == Phrase(entropy)
           all == BitString(words, WordBits)
<1>1. /\ bits \in Bits /\ check \in Bits /\ sum \in Nat /\ Len(check) = sum
      /\ all = bits \o check
      /\ Len(all) = sum * (Ratio + 1)
      /\ Grouped(bits, ByteBits) = entropy
  BY PhraseOf
<1>2. Len(words) \in Counts
  BY DEF Fits
<1> DEFINE s == Len(all) \div (Ratio + 1)
           part == Split(all, s)
           got == Grouped(part.entropy, ByteBits)
<1>3. Entropy(words) = IF Len(words) \in Counts /\ part.checksum = SubSeq(Checksum(got), 1, s)
                         THEN got ELSE NoEntropy
  BY DEF Entropy
<1>5. check = SubSeq(Checksum(entropy), 1, sum)
  OBVIOUS
<1> HIDE DEF bits, check, words, sum
<1>4. s = sum
  BY <1>1, Quotients, WidthsOf
<1> HIDE DEF all, s
<1>6. part = [entropy |-> bits, checksum |-> check]
  BY <1>1, <1>4, SplitOf
<1>7. part.entropy = bits /\ part.checksum = check
  BY <1>6
<1>8. got = entropy
  BY <1>1, <1>7
<1> HIDE DEF got, part
<1>9. Entropy(words) = entropy
  BY <1>2, <1>3, <1>4, <1>5, <1>7, <1>8
<1> QED
  BY <1>9 DEF words

(* A phrase is accepted only if it is the phrase of the entropy found.     *)
THEOREM PhraseIsUnique ==
    ASSUME NEW words \in Seq(Dictionary), Entropy(words) # NoEntropy
    PROVE  Phrase(Entropy(words)) = words
<1> DEFINE n == Len(words)
           bits == BitString(words, WordBits)
           sum == Len(bits) \div (Ratio + 1)
           part == Split(bits, sum)
           got == Grouped(part.entropy, ByteBits)
<1>1. Entropy(words) = IF n \in Counts /\ part.checksum = SubSeq(Checksum(got), 1, sum)
                         THEN got ELSE NoEntropy
  BY DEF Entropy
<1>2. n \in Counts /\ part.checksum = SubSeq(Checksum(got), 1, sum) /\ Entropy(words) = got
  <2> HIDE DEF n, bits, sum, part, got
  <2> QED  BY <1>1
<1>3. words \in Seq(Words(WordBits))
  BY DEF Dictionary, Words
<1>4. bits \in Bits /\ Len(bits) = n * WordBits /\ n \in Nat
  BY <1>3, BitStringOf, WidthsOf
<1>5. Grouped(bits, WordBits) = words
  BY <1>3, GroupedBits, WidthsOf
<1>6. part.entropy = SubSeq(bits, 1, Len(bits) - sum)
        /\ part.checksum = SubSeq(bits, Len(bits) - sum + 1, Len(bits))
  BY DEF Split
<1> HIDE DEF bits, n
<1>7. n * WordBits \in Nat /\ (n * WordBits) % (Ratio + 1) = 0
  BY <1>2, <1>4, Groups, WidthsOf
<1>8. sum \in Nat /\ Len(bits) = sum * (Ratio + 1)
  BY <1>4, <1>7, Divides, WidthsOf
<1> HIDE DEF sum
<1> DEFINE L == sum * Ratio
           e == SubSeq(bits, 1, L)
           c == SubSeq(bits, L + 1, Len(bits))
<1>9. L \in Nat /\ Len(bits) = L + sum /\ Len(bits) - sum = L
  <2>1. sum * (Ratio + 1) = sum * Ratio + sum /\ sum * Ratio \in Nat
    BY <1>8, WidthsOf
  <2> QED  BY <1>8, <2>1
<1>10. part.entropy = e /\ part.checksum = c
  BY <1>6, <1>9
<1> HIDE DEF L, part
<1>11. bits = e \o c
  <2>1. bits \in Seq(0..1) /\ L \in 0..Len(bits)
    BY <1>4, <1>8, <1>9 DEF Bits
  <2> QED  BY <2>1, Cut
<1>12. e \in Bits /\ Len(e) = L
  <2>1. bits \in Seq(0..1) /\ 1 \in Nat \ {0} /\ L \in 0..Len(bits) /\ 1 <= L + 1
          /\ L - 1 + 1 = L
    BY <1>4, <1>8, <1>9 DEF Bits
  <2>2. e \in Seq(0..1) /\ Len(e) = L - 1 + 1
    BY <2>1, SubSeqOf
  <2> QED  BY <2>1, <2>2 DEF Bits
<1>13. got = Grouped(e, ByteBits)
  BY <1>10
<1> HIDE DEF e, c, got
<1> DEFINE m == sum * (Ratio \div ByteBits)
<1>14. m \in Nat /\ L = m * ByteBits
  BY <1>8, DividesProduct, WidthsOf, Groups DEF L
<1> HIDE DEF m
<1>15. BitString(got, ByteBits) = e
  BY <1>12, <1>13, <1>14, BitsGrouped, WidthsOf
<1>16. Len(e) \div Ratio = sum
  BY <1>8, <1>12, Quotients, WidthsOf DEF L
<1>17. Phrase(got) = Grouped(e \o SubSeq(Checksum(got), 1, sum), WordBits)
  BY <1>15, <1>16 DEF Phrase
<1>18. SubSeq(Checksum(got), 1, sum) = c
  BY <1>2, <1>10
<1>19. Phrase(got) = words
  BY <1>5, <1>11, <1>17, <1>18
<1> QED
  BY <1>2, <1>19

(* "re-deriving the same key on-device" (xend_wallet.dart 104) does hold of *)
(* a phrase typed as generate spells it, with one space between two words.  *)
THEOREM SpelledRestores ==
    ASSUME NEW entropy, Fits(entropy)
    PROVE  Restored(Spelled(Phrase(entropy))) = Generated(entropy)
<1>1. Entropy(Phrase(entropy)) = entropy
  BY PhraseReadsBack
<1>2. entropy # NoEntropy
  <2>1. entropy \in Seq(Words(ByteBits))
    BY DEF Fits, Words
  <2>2. NoEntropy[1] = -1 /\ Len(NoEntropy) = 1
    BY DEF NoEntropy
  <2>3. ASSUME entropy = NoEntropy  PROVE FALSE
    <3>1. entropy[1] \in Words(ByteBits) /\ entropy[1] = -1
      BY <2>1, <2>2, <2>3
    <3> QED  BY <3>1, WordsAreNumbers, WidthsOf
  <2> QED  BY <2>3
<1>3. Spelled(Phrase(entropy)).words = Phrase(entropy)
  BY DEF Spelled
<1> QED
  BY <1>1, <1>2, <1>3 DEF Restored, Generated

-------------------------------------------------------------------------------
(* Part 4.  Signed transactions.                                           *)

(* A byte of a count counts to a number above one.                         *)
LEMMA GroupIsNumber == Group \in Nat \ {0, 1} /\ Group \in Nat /\ Group \in Nat \ {0}
BY Radices

(* What one byte of a count leaves to the others.                          *)
LEMMA ShortStep ==
    ASSUME NEW n \in Nat
    PROVE  /\ n % Group \in 0..Group - 1 /\ n % Group \in Nat /\ n \div Group \in Nat
           /\ n = (n \div Group) * Group + (n % Group)
           /\ ~ (n < Group) => n \div Group < n
<1> DEFINE q == n \div Group
           x == n % Group
<1>1. q \in Nat /\ x \in 0..Group - 1 /\ n = q * Group + x
  BY GroupIsNumber, DivideBy
<1>2. x \in Nat
  BY <1>1, GroupIsNumber
<1> HIDE DEF q, x
<1>3. ASSUME ~ (n < Group)  PROVE q < n
  <2>1. q * Group >= 2 * q /\ q * Group \in Nat
    BY <1>1, GroupIsNumber
  <2>2. q # 0
    <3>1. q = 0 => n = x
      BY <1>1, <1>2, GroupIsNumber
    <3>2. x < Group
      BY <1>1, <1>2, GroupIsNumber
    <3> QED  BY <1>3, <3>1, <3>2
  <2>3. \A y \in Nat : n = y + x /\ y >= 2 * q => q < n
    BY <1>1, <1>2, <2>2
  <2> QED  BY <1>1, <2>1, <2>3
<1> QED
  BY <1>1, <1>2, <1>3 DEF q, x

(* ShortVec solves its equation.                                           *)
LEMMA ShortVecEquation ==
    ASSUME NEW n \in Nat
    PROVE  ShortVec[n] = IF n < Group THEN <<n>> ELSE <<Group + (n % Group)>> \o ShortVec[n \div Group]
<1> DEFINE V == Seq(Nat)
           B == {k \in Nat : k < Group}
           body(f) == [k \in Nat |-> IF k < Group THEN <<k>> ELSE <<Group + (k % Group)>> \o f[k \div Group]]
           mu == [k \in Nat |-> k]
           base == [k \in Nat |-> <<k>>]
           next == [k \in Nat |-> k \div Group]
           go == [p \in Nat \X V |-> <<Group + (p[1] % Group)>> \o p[2]]
<1>1. mu \in [Nat -> Nat] /\ base \in [Nat -> V]
  OBVIOUS
<1>2. next \in [Nat -> Nat]
  BY ShortStep
<1>3. go \in [Nat \X V -> V]
  <2>1. ASSUME NEW p \in Nat \X V  PROVE <<Group + (p[1] % Group)>> \o p[2] \in V
    <3>0. p[1] \in Nat /\ p[2] \in V
      OBVIOUS
    <3>00. p[1] % Group \in Nat
      BY <3>0, ShortStep
    <3>1. Group + (p[1] % Group) \in Nat /\ p[2] \in V
      BY <3>0, <3>00, GroupIsNumber
    <3>2. <<Group + (p[1] % Group)>> \in V
      BY <3>1
    <3> QED  BY <3>1, <3>2
  <2> HIDE DEF V
  <2> QED  BY <2>1
<1>4. Nearer(Nat, B, next, mu)
  <2>1. ASSUME NEW k \in Nat, k \notin B  PROVE mu[next[k]] < mu[k]
    <3>1. ~ (k < Group)
      BY <2>1
    <3> QED  BY <3>1, ShortStep
  <2> HIDE DEF B, mu, next
  <2> QED  BY <2>1 DEF Nearer
<1>5. PICK f \in [Nat -> V] : Solves(f, Nat, B, base, next, go)
  <2> HIDE DEF V, B, mu, base, next, go
  <2> QED  BY <1>1, <1>2, <1>3, <1>4, Recursion
<1>6. ASSUME NEW k \in Nat  PROVE f[k] = body(f)[k]
  <2>1. CASE k < Group
    <3>1. f[k] = base[k]
      <4>1. k \in B
        BY <2>1
      <4> HIDE DEF B, base, next, go, V
      <4> QED  BY <4>1, <1>5 DEF Solves
    <3> QED  BY <2>1, <3>1
  <2>2. CASE ~ (k < Group)
    <3>1. f[k] = go[<<k, f[next[k]]>>]
      <4>1. k \notin B
        BY <2>2
      <4> HIDE DEF B, base, next, go, V
      <4> QED  BY <4>1, <1>5 DEF Solves
    <3>2. next[k] = k \div Group /\ k \div Group \in Nat
      BY ShortStep
    <3>3. f[k \div Group] \in V
      <4> HIDE DEF V
      <4> QED  BY <3>2
    <3>4. f[k] = <<Group + (k % Group)>> \o f[k \div Group]
      <4> HIDE DEF V, next
      <4> QED  BY <3>1, <3>2, <3>3
    <3> QED  BY <2>2, <3>4
  <2> QED
    BY <2>1, <2>2
<1>7. f = body(f)
  <2> HIDE DEF V
  <2> QED  BY <1>6
<1>8. ShortVec = CHOOSE g : g = body(g)
  BY DEF ShortVec
<1>9. ShortVec = body(ShortVec)
  <2> HIDE DEF body
  <2> QED  BY <1>7, <1>8
<1>10. ShortVec[n] = body(ShortVec)[n]
  <2> HIDE DEF body
  <2> QED  BY <1>9
<1> QED
  BY <1>10

(* The low parts of the bytes of a count. *)
LowParts(s) == [i \in 1..Len(s) |-> s[i] % Group]

(* The parts of the bytes that count.                                      *)
LEMMA LowPartsOf ==
    ASSUME NEW s \in Seq(Nat)
    PROVE  LowParts(s) \in Seq(Nat) /\ Len(LowParts(s)) = Len(s)
             /\ \A i \in 1..Len(s) : LowParts(s)[i] = s[i] % Group
<1>1. ASSUME NEW i \in 1..Len(s)  PROVE s[i] % Group \in Nat
  <2>1. s[i] \in Nat
    OBVIOUS
  <2> QED  BY <2>1, ShortStep
<1>2. LowParts(s) \in [1..Len(s) -> Nat]
  BY <1>1 DEF LowParts
<1>3. \A i \in 1..Len(s) : LowParts(s)[i] = s[i] % Group
  BY DEF LowParts
<1> QED
  BY <1>2, <1>3

Counted(s, n) ==
    /\ s \in Seq(Nat) /\ Len(s) \in Nat \ {0}
    /\ s[Len(s)] < Group
    /\ \A i \in 1..Len(s) - 1 : ~ (s[i] < Group)
    /\ Number(Reverse(LowParts(s)), Group) = n

(* The high bit of a byte of a count does not change the part that counts. *)
LEMMA Remains ==
    ASSUME NEW x \in 0..Group - 1
    PROVE  x % Group = x /\ (Group + x) % Group = x
<1>1. ASSUME NEW m \in Nat, NEW k \in Nat, m = k * Group + x  PROVE m % Group = x
  <2> DEFINE q == m \div Group
             y == m % Group
  <2>1. q \in Nat /\ y \in 0..Group - 1 /\ m = q * Group + y
    BY ShortStep
  <2> HIDE DEF q, y
  <2>2. q * Group + y = k * Group + x
    BY <1>1, <2>1
  <2>3. y = x
    BY <2>1, <2>2, GroupIsNumber, DivMod
  <2> QED  BY <2>3 DEF y
<1>2. x \in Nat /\ Group + x \in Nat /\ x = 0 * Group + x /\ Group + x = 1 * Group + x
  BY GroupIsNumber
<1> QED
  BY <1>1, <1>2

(* ShortVec writes any count: all of its bytes but the last say that more  *)
(* follow.                                                                 *)
LEMMA ShortVecOf ==
    ASSUME NEW n \in Nat
    PROVE  Counted(ShortVec[n], n)
<1> DEFINE T == {k \in Nat : Counted(ShortVec[k], k)}
<1>1. ASSUME NEW k \in Nat, \A m \in 0..k - 1 : m \in T  PROVE k \in T
  <2>1. CASE k < Group
    <3> DEFINE s == <<k>>
               l == LowParts(s)
    <3>1. ShortVec[k] = s
      BY <2>1, ShortVecEquation
    <3>2. s \in Seq(Nat) /\ Len(s) = 1 /\ s[1] = k
      OBVIOUS
    <3> HIDE DEF s
    <3>3. k \in 0..Group - 1
      BY <2>1, GroupIsNumber
    <3>4. k % Group = k
      BY <3>3, Remains
    <3>5. l \in Seq(Nat) /\ Len(l) = 1 /\ l[1] = k
      BY <3>2, <3>4, LowPartsOf
    <3> HIDE DEF l
    <3>6. l = <<k>>
      BY <3>5
    <3>7. Reverse(l) = <<k>>
      BY <3>6, SingleOf
    <3>8. Number(Reverse(l), Group) = k
      BY <3>7, NumberSingle, GroupIsNumber
    <3>9. Counted(s, k)
      BY <2>1, <3>2, <3>8 DEF Counted, l
    <3> QED  BY <3>1, <3>9
  <2>2. CASE ~ (k < Group)
    <3> DEFINE q == k \div Group
               x == k % Group
               y == Group + x
               t == ShortVec[q]
               e == <<y>>
               s == e \o t
    <3>1. ShortVec[k] = s
      BY <2>2, ShortVecEquation
    <3>2. q \in Nat /\ x \in 0..Group - 1 /\ x \in Nat /\ k = q * Group + x /\ q < k
      BY <2>2, ShortStep
    <3> HIDE DEF q, x
    <3>3. Counted(t, q)
      BY <1>1, <3>2
    <3> HIDE DEF t
    <3>4. y \in Nat /\ y % Group = x /\ ~ (y < Group)
      BY <3>2, Remains, GroupIsNumber
    <3> HIDE DEF y
    <3>5. e \in Seq(Nat) /\ Len(e) = 1 /\ e[1] = y
      BY <3>4
    <3>5a. t \in Seq(Nat) /\ Len(t) \in Nat \ {0} /\ t[Len(t)] < Group
           /\ (\A i \in 1..Len(t) - 1 : ~ (t[i] < Group))
                /\ Number(Reverse(LowParts(t)), Group) = q
      BY <3>3 DEF Counted
    <3> HIDE DEF e
    <3>6. Joined(s, e, t, Nat)
      BY <3>5, <3>5a, ConcatAt
    <3> HIDE DEF s
    <3>7. s \in Seq(Nat) /\ Len(s) = Len(t) + 1 /\ s[1] = y
            /\ \A i \in 1..Len(t) : s[1 + i] = t[i]
      BY <3>5, <3>6 DEF Joined
    <3>8. s[Len(s)] < Group
      BY <3>5a, <3>7
    <3>9. ASSUME NEW i \in 1..Len(s) - 1  PROVE ~ (s[i] < Group)
      <4>1. CASE i = 1
        BY <3>4, <3>7, <4>1
      <4>2. CASE i # 1
        <5>1. i - 1 \in 1..Len(t) - 1 /\ 1 + (i - 1) = i /\ i - 1 \in 1..Len(t)
          BY <3>7, <3>5a, <4>2
        <5>2. s[1 + (i - 1)] = t[i - 1]
          BY <3>7, <5>1
        <5> QED  BY <3>5a, <5>1, <5>2
      <4> QED  BY <4>1, <4>2
    <3> DEFINE a == LowParts(s)
               b == LowParts(t)
               c == <<x>> \o b
    <3>10. b \in Seq(Nat) /\ Len(b) = Len(t) /\ \A i \in 1..Len(t) : b[i] = t[i] % Group
      BY <3>5a, LowPartsOf
    <3>11. a \in Seq(Nat) /\ Len(a) = Len(s) /\ \A i \in 1..Len(s) : a[i] = s[i] % Group
      BY <3>7, LowPartsOf
    <3>12. Reverse(b) \in Seq(Nat) /\ Number(Reverse(b), Group) = q
      BY <3>5a, <3>10, ReverseOf
    <3> HIDE DEF a, b
    <3> DEFINE d == <<x>>
    <3>13. d \in Seq(Nat) /\ Len(d) = 1 /\ d[1] = x /\ Reverse(d) = d
      BY <3>2, SingleOf
    <3>14. Append(Reverse(b), x) = Reverse(b) \o d
      BY <3>2, <3>12
    <3> HIDE DEF d
    <3>15. Joined(d \o b, d, b, Nat)
      BY <3>10, <3>13, ConcatAt
    <3> DEFINE u == d \o b
    <3>15a. Reverse(u) = Reverse(b) \o d
      BY <3>10, <3>13, ReverseConcat
    <3> HIDE DEF u
    <3>16. u \in Seq(Nat) /\ Len(u) = Len(t) + 1 /\ u[1] = x
             /\ \A i \in 1..Len(t) : u[1 + i] = b[i]
      BY <3>10, <3>13, <3>15 DEF Joined, u
    <3>17. ASSUME NEW i \in 1..Len(a)  PROVE a[i] = u[i]
      <4>1. CASE i = 1
        BY <3>4, <3>7, <3>11, <3>16, <4>1
      <4>2. CASE i # 1
        <5> DEFINE j == i - 1
        <5>1. j \in 1..Len(t) /\ 1 + j = i /\ i \in 1..Len(s)
          BY <3>7, <3>5a, <3>11, <4>2
        <5> HIDE DEF j
        <5>2. s[i] = t[j] /\ u[i] = b[j]
          BY <3>7, <3>16, <5>1
        <5>3. b[j] = t[j] % Group /\ a[i] = s[i] % Group
          BY <3>10, <3>11, <5>1
        <5> QED  BY <5>2, <5>3
      <4> QED  BY <4>1, <4>2
    <3>18. a = u
      BY <3>7, <3>11, <3>16, <3>17, SeqEqual
    <3>19. Number(Append(Reverse(b), x), Group) = Number(Reverse(b), Group) * Group + x
      BY <3>2, <3>12, NumberOf, GroupIsNumber
    <3>20. Number(Reverse(a), Group) = k
      BY <3>2, <3>12, <3>14, <3>15a, <3>18, <3>19
    <3>21. Len(s) \in Nat \ {0}
      BY <3>7, <3>5a
    <3>22. Counted(s, k)
      BY <3>7, <3>8, <3>9, <3>20, <3>21 DEF Counted, a
    <3> QED  BY <3>1, <3>22
  <2> QED
    BY <2>1, <2>2
<1>2. Nat \subseteq T
  <2> HIDE DEF T
  <2> QED  BY <1>1, AllSmaller
<1> QED
  BY <1>2

(* A node finds the end of the count, and the count.                       *)
CountIs(wire, m, n) ==
    LET size == SelectInSeq(wire, LAMBDA b : b < Group)
    IN  size = m /\ Number(Reverse([i \in 1..size |-> wire[i] % Group]), Group) = n

(* Whatever follows a count, a node reads that count and no byte more.     *)
LEMMA CountRead ==
    ASSUME NEW n \in Nat, NEW s, Counted(s, n), NEW t \in Seq(Nat)
    PROVE  CountIs(s \o t, Len(s), n)
<1> DEFINE wire == s \o t
           I == {i \in 1..Len(wire) : wire[i] < Group}
           size == SelectInSeq(wire, LAMBDA b : b < Group)
           m == Len(s)
<1>1. size = IF I # {} THEN Min(I) ELSE 0
  BY DEF SelectInSeq
<1> HIDE DEF size
<1>2. s \in Seq(Nat) /\ m \in Nat \ {0} /\ s[m] < Group
        /\ (\A i \in 1..m - 1 : ~ (s[i] < Group))
      /\ Number(Reverse(LowParts(s)), Group) = n
  BY DEF Counted
<1>3. Joined(wire, s, t, Nat)
  BY <1>2, ConcatAt
<1>4. wire \in Seq(Nat) /\ Len(wire) = m + Len(t) /\ Len(t) \in Nat
        /\ \A i \in 1..m : wire[i] = s[i]
  BY <1>3 DEF Joined
<1> HIDE DEF wire, m
<1>5. m \in I
  <2>1. m \in 1..Len(wire) /\ m \in 1..m
    BY <1>2, <1>4
  <2> QED  BY <1>2, <1>4, <2>1
<1>6. ASSUME NEW i \in I  PROVE m <= i
  <2> SUFFICES ASSUME ~ (m <= i)  PROVE FALSE
    OBVIOUS
  <2>1. i \in 1..m - 1 /\ i \in 1..m
    BY <1>2, <1>4
  <2> QED  BY <1>2, <1>4, <2>1
<1>7. I \in SUBSET Nat /\ I # {}
  <2>1. I \in SUBSET Nat
    BY <1>4
  <2> HIDE DEF I
  <2> QED  BY <1>5, <2>1
<1> HIDE DEF I
<1>8. Min(I) \in I /\ \A x \in I : Min(I) <= x
  BY <1>7, MinOf
<1>9. size = m
  <2>1. Min(I) \in Nat
    BY <1>7, <1>8
  <2> QED  BY <1>1, <1>2, <1>5, <1>6, <1>7, <1>8, <2>1
<1>10. [i \in 1..size |-> wire[i] % Group] = LowParts(s)
  <2>1. \A i \in 1..m : wire[i] % Group = s[i] % Group
    BY <1>4
  <2> QED  BY <1>9, <2>1 DEF LowParts, m
<1>11. size = m /\ Number(Reverse([i \in 1..size |-> wire[i] % Group]), Group) = n
  BY <1>2, <1>9, <1>10
<1> QED
  BY <1>11 DEF size, wire, m, CountIs

Taken(v, s, n, w, S) ==
    v \in Seq(S) /\ Len(v) = w /\ \A i \in 1..w : v[i] = s[n + i]

(* What stands in a sequence after n members.                              *)
LEMMA SubSeqAt ==
    ASSUME NEW S, NEW s \in Seq(S), NEW n \in Nat, NEW w \in Nat, NEW m, m = n + w, m <= Len(s)
    PROVE  Taken(SubSeq(s, n + 1, m), s, n, w, S)
<1> DEFINE v == SubSeq(s, n + 1, m)
<1>1. n + 1 \in Nat \ {0} /\ m \in 0..Len(s) /\ n + 1 <= m + 1 /\ m - (n + 1) + 1 = w
  OBVIOUS
<1>2. v \in Seq(S) /\ Len(v) = m - (n + 1) + 1
        /\ \A i \in 1..m - (n + 1) + 1 : v[i] = s[n + 1 + i - 1]
  BY <1>1, SubSeqOf
<1> HIDE DEF v
<1>3. \A i \in 1..w : n + 1 + i - 1 = n + i
  OBVIOUS
<1>4. Len(v) = w /\ \A i \in 1..w : v[i] = s[n + 1 + i - 1]
  <2> DEFINE z == m - (n + 1) + 1
  <2>1. z = w /\ Len(v) = z /\ \A i \in 1..z : v[i] = s[n + 1 + i - 1]
    BY <1>1, <1>2
  <2> HIDE DEF z
  <2> QED  BY <2>1
<1>5. \A i \in 1..w : v[i] = s[n + i]
  BY <1>3, <1>4
<1>6. Taken(v, s, n, w, S)
  BY <1>2, <1>4, <1>5 DEF Taken
<1> QED
  BY <1>6 DEF v

Wired(wire, c, f, message) ==
    /\ wire \in Seq(Nat) /\ Len(wire) = Len(c) + Len(f) + Len(message)
    /\ \A k \in 1..Len(f) : wire[Len(c) + k] = f[k]
    /\ Skip(wire, Len(c) + Len(f)) = message

(* Where a signature and the message stand behind the count.               *)
LEMMA WireAt ==
    ASSUME NEW c \in Seq(Nat), NEW f \in Seq(Nat), NEW message \in Seq(Nat), NEW wire,
           wire = (c \o f) \o message
    PROVE  Wired(wire, c, f, message)
<1> DEFINE h == c \o f
           w == h \o message
<1>1. Joined(h, c, f, Nat)
  BY ConcatAt
<1> HIDE DEF h
<1>2. h \in Seq(Nat) /\ Len(h) = Len(c) + Len(f) /\ \A k \in 1..Len(f) : h[Len(c) + k] = f[k]
  BY <1>1 DEF Joined
<1>3. Joined(w, h, message, Nat)
  BY <1>2, ConcatAt
<1>4. wire = w
  BY DEF h
<1> HIDE DEF w
<1>5. w \in Seq(Nat) /\ Len(w) = Len(h) + Len(message)
      /\ (\A i \in 1..Len(h) : w[i] = h[i])
           /\ \A i \in 1..Len(message) : w[Len(h) + i] = message[i]
  BY <1>3 DEF Joined
<1>6. Len(c) \in Nat /\ Len(f) \in Nat /\ Len(message) \in Nat
  OBVIOUS
<1>7. Len(w) = Len(c) + Len(f) + Len(message)
  BY <1>2, <1>5, <1>6
<1>8. ASSUME NEW k \in 1..Len(f)  PROVE w[Len(c) + k] = f[k]
  <2>1. Len(c) + k \in 1..Len(h)
    BY <1>2, <1>6
  <2> QED  BY <1>2, <1>5, <2>1
<1>9. Skip(w, Len(h)) = message
  <2> DEFINE v == SubSeq(w, Len(h) + 1, Len(w))
  <2>1. Len(h) \in Nat /\ Len(message) \in Nat /\ Len(w) = Len(h) + Len(message)
          /\ Len(w) <= Len(w) /\ w \in Seq(Nat)
    BY <1>2, <1>5, <1>6
  <2> DEFINE n == Len(h)
             l == Len(message)
             z == Len(w)
  <2>2. n \in Nat /\ l \in Nat /\ z = n + l /\ z <= Len(w)
    BY <2>1
  <2>3. Taken(v, w, n, l, Nat)
    <3> HIDE DEF n, l
    <3> QED  BY <1>5, <2>2, SubSeqAt DEF n, z
  <2>4. \A i \in 1..Len(v) : v[i] = message[i]
    BY <1>5, <2>1, <2>3 DEF Taken
  <2>5. v = message
    BY <2>3, <2>4, SeqEqual DEF Taken
  <2> QED  BY <2>5 DEF v, Skip
<1>10. Skip(w, Len(c) + Len(f)) = message
  BY <1>2, <1>9
<1> QED
  BY <1>4, <1>5, <1>7, <1>8, <1>10 DEF Wired

(* A node reads the signatures and the message that were assembled, however *)
(* many bytes their count takes (wire.dart).                                *)
THEOREM TransactionReadsBack ==
    ASSUME NEW signatures \in Seq(Chunk(Nat, SignatureBytes)), NEW message \in Seq(Nat)
    PROVE  ReadTransaction(Assemble(signatures, message)) = [signatures |-> signatures, message |-> message]
<1> DEFINE N == Len(signatures)
           w == SignatureBytes
           c == ShortVec[N]
           f == FlattenSeq(signatures)
           wire == Assemble(signatures, message)
           size == SelectInSeq(wire, LAMBDA b : b < Group)
           n == Number(Reverse([i \in 1..size |-> wire[i] % Group]), Group)
           at(i) == size + (i - 1) * w
<1>0. ReadTransaction(wire) = [signatures |-> [i \in 1..n |-> SubSeq(wire, at(i) + 1, at(i + 1))],
                               message |-> Skip(wire, at(n + 1))]
  BY DEF ReadTransaction
<1>1. N \in Nat /\ w \in Nat \ {0} /\ w \in Nat
  BY WidthsOf
<1>2. Counted(c, N)
  BY <1>1, ShortVecOf
<1>3. c \in Seq(Nat) /\ Len(c) \in Nat
  BY <1>2 DEF Counted
<1>4. Laid(f, signatures, w, Nat)
  BY <1>1, FlattenChunks
<1>5. f \in Seq(Nat) /\ Len(f) = N * w /\ N * w \in Nat
      /\ \A i \in 1..N, j \in 1..w : f[(i - 1) * w + j] = signatures[i][j]
  BY <1>1, <1>4 DEF Laid
<1>6. wire = (c \o f) \o message /\ wire = c \o (f \o message) /\ f \o message \in Seq(Nat)
  <2>1. wire = (c \o f) \o message
    BY DEF Assemble
  <2> HIDE DEF wire, c, f
  <2>2. (c \o f) \o message = c \o (f \o message)
    BY <1>3, <1>5
  <2> QED  BY <1>5, <2>1, <2>2
<1> HIDE DEF wire, c, f, N
<1>7. size = Len(c) /\ n = N
  <2>1. CountIs(c \o (f \o message), Len(c), N)
    BY <1>1, <1>2, <1>6, CountRead
  <2>2. CountIs(wire, Len(c), N)
    BY <1>6, <2>1
  <2> QED  BY <2>2 DEF CountIs
<1> HIDE DEF size, n
<1>8. /\ wire \in Seq(Nat) /\ Len(wire) = Len(c) + Len(f) + Len(message)
      /\ \A k \in 1..Len(f) : wire[Len(c) + k] = f[k]
      /\ Skip(wire, Len(c) + Len(f)) = message
  <2>1. Wired(wire, c, f, message)
    BY <1>3, <1>5, <1>6, WireAt
  <2> QED  BY <2>1 DEF Wired
<1>9. Skip(wire, at(n + 1)) = message
  <2>1. at(n + 1) = Len(c) + Len(f)
    <3>1. (N + 1) - 1 = N
      BY <1>1
    <3> QED  BY <1>5, <1>7, <3>1
  <2> QED  BY <1>8, <2>1
<1>10. ASSUME NEW i \in 1..N  PROVE SubSeq(wire, at(i) + 1, at(i + 1)) = signatures[i]
  <2> DEFINE a == (i - 1) * w
             m == Len(c) + a
             v == SubSeq(wire, m + 1, m + w)
             s == signatures[i]
  <2>1. a \in Nat /\ a + w = i * w /\ i * w <= N * w
    <3>1. 1 \in 1..w
      BY <1>1
    <3> QED  BY <1>1, <3>1, Slot
  <2>2. s \in Seq(Nat) /\ Len(s) = w
    <3>1. s \in Chunk(Nat, w)
      BY DEF N
    <3> QED  BY <3>1 DEF Chunk
  <2>3. at(i) = m /\ at(i + 1) = m + w
    <3>1. (i + 1) - 1 = i /\ i \in Nat
      OBVIOUS
    <3>2. at(i) = m
      BY <1>7
    <3>3. at(i + 1) = Len(c) + i * w
      BY <1>7, <3>1
    <3>4. Len(c) + i * w = m + w
      <4> HIDE DEF a
      <4> DEFINE b == i * w
      <4>1. b = a + w /\ a \in Nat /\ w \in Nat /\ Len(c) \in Nat
        BY <1>1, <1>3, <2>1
      <4> HIDE DEF b, w
      <4>2. Len(c) + b = Len(c) + a + w
        BY <4>1
      <4> QED  BY <4>2 DEF b
    <3> QED  BY <3>2, <3>3, <3>4
  <2>4. \A j \in 1..w : f[a + j] = s[j] /\ a + j \in 1..Len(f)
    <3>1. ASSUME NEW j \in 1..w  PROVE f[a + j] = s[j] /\ a + j \in 1..Len(f)
      <4>1. (i - 1) * w + j \in 1..N * w
        BY <1>1, Slot
      <4> QED  BY <1>5, <4>1
    <3> QED  BY <3>1
  <2> HIDE DEF a, s
  <2>5. m \in Nat /\ m + w <= Len(wire)
    <3>1. a + w <= N * w
      BY <2>1
    <3> DEFINE l == N * w
    <3>2. l \in Nat /\ a + w <= l /\ Len(wire) = Len(c) + l + Len(message)
            /\ Len(message) \in Nat
      BY <1>5, <1>8, <3>1
    <3> HIDE DEF l
    <3> QED  BY <1>1, <1>3, <2>1, <3>2
  <2>6. v \in Seq(Nat) /\ Len(v) = w /\ \A j \in 1..w : v[j] = wire[m + j]
    <3> DEFINE z == m + w
    <3> HIDE DEF m
    <3>1. Taken(SubSeq(wire, m + 1, z), wire, m, w, Nat)
      BY <1>1, <1>8, <2>5, SubSeqAt
    <3> QED  BY <3>1 DEF Taken
  <2> HIDE DEF v
  <2>7. ASSUME NEW j \in 1..Len(v)  PROVE v[j] = s[j]
    <3>1. j \in 1..w
      BY <2>6
    <3>2. m + j = Len(c) + (a + j)
      BY <1>1, <1>3, <2>1, <3>1
    <3>3. wire[Len(c) + (a + j)] = f[a + j] /\ f[a + j] = s[j]
      BY <1>8, <2>4, <3>1
    <3> HIDE DEF m
    <3> QED  BY <2>6, <3>1, <3>2, <3>3
  <2>8. v = s
    BY <2>2, <2>6, <2>7, SeqEqual
  <2> QED
    BY <2>3, <2>8 DEF v, s
<1> HIDE DEF at
<1>11. [i \in 1..n |-> SubSeq(wire, at(i) + 1, at(i + 1))] = signatures
  <2> DEFINE g == [i \in 1..N |-> SubSeq(wire, at(i) + 1, at(i + 1))]
  <2>1. DOMAIN signatures = 1..N
    BY DEF N
  <2>2. signatures = [i \in 1..N |-> signatures[i]]
    BY <2>1
  <2>3. g = signatures
    BY <1>10, <2>2
  <2> QED  BY <1>7, <2>3
<1> QED
  BY <1>0, <1>9, <1>11 DEF wire

-------------------------------------------------------------------------------
(* Part 5.  The properties of a conversion.                                *)

Given == input \in Inputs \cup {Nothing}

(* What is converted is one of the inputs.                                 *)
LEMMA InputIsGiven == ConvertSpec => []Given
<1>1. ConvertInit => Given
  BY DEF ConvertInit, Given
<1>2. Given /\ [Convert]_input => Given'
  BY DEF Convert, Given
<1> QED
  BY <1>1, <1>2, PTL DEF ConvertSpec

(* What is written reads back, whatever it is: Base58.swift, Mnemonic.swift *)
(* and wire.dart, over every input those functions are given.               *)
THEOREM WrittenReadsBack == ConvertSpec => []EncodingsRoundTrip
<1>1. Given => EncodingsRoundTrip
  <2> SUFFICES ASSUME input \in Inputs, WellFormed(input)  PROVE EncodingsRoundTrip
    BY InputsWellFormed DEF Given, EncodingsRoundTrip, Is
  <2>1. Is("bytes") => Decode(Encode(input.of)) = input.of
    <3> SUFFICES ASSUME input.kind = "bytes"  PROVE Decode(Encode(input.of)) = input.of
      BY DEF Is
    <3>1. input.of \in Digits(Radix)
      BY DEF WellFormed, Digits
    <3> QED  BY <3>1, AddressReadsBack
  <2>2. Is("digits") => Encode(Decode(input.of)) = input.of
    <3> SUFFICES ASSUME input.kind = "digits"  PROVE Encode(Decode(input.of)) = input.of
      BY DEF Is
    <3>1. input.of \in Digits(Base)
      BY DEF WellFormed, Digits
    <3> QED  BY <3>1, AddressIsUnique
  <2>3. Is("entropy") => Entropy(Phrase(input.of)) = input.of
    <3> SUFFICES ASSUME input.kind = "entropy"  PROVE Entropy(Phrase(input.of)) = input.of
      BY DEF Is
    <3>1. Fits(input.of)
      BY DEF WellFormed
    <3> QED  BY <3>1, PhraseReadsBack
  <2>4. Is("words") /\ Entropy(input.of) # NoEntropy => Phrase(Entropy(input.of)) = input.of
    <3> SUFFICES ASSUME input.kind = "words", Entropy(input.of) # NoEntropy
                 PROVE  Phrase(Entropy(input.of)) = input.of
      BY DEF Is
    <3>1. input.of \in Seq(Dictionary)
      BY DEF WellFormed
    <3> QED  BY <3>1, PhraseIsUnique
  <2>5. Is("transaction") =>
          ReadTransaction(Assemble(input.of, input.message))
            = [signatures |-> input.of, message |-> input.message]
    <3> SUFFICES ASSUME input.kind = "transaction"
                 PROVE  ReadTransaction(Assemble(input.of, input.message))
                          = [signatures |-> input.of, message |-> input.message]
      BY DEF Is
    <3>1. input.of \in Seq(Chunk(Nat, SignatureBytes)) /\ input.message \in Seq(Nat)
      BY DEF WellFormed
    <3> QED  BY <3>1, TransactionReadsBack
  <2> QED  BY <2>1, <2>2, <2>3, <2>4, <2>5 DEF EncodingsRoundTrip
<1> QED
  BY <1>1, InputIsGiven, PTL

(* Amounts come back from what is shown of them, and a text is worth the    *)
(* number it names (example/lib/main.dart, _formatUnits and _parseUnits).   *)
THEOREM AmountsStayExact == ConvertSpec => []AmountsAreExact
<1>1. Given => AmountsAreExact
  <2> SUFFICES ASSUME input \in Inputs, WellFormed(input)  PROVE AmountsAreExact
    BY InputsWellFormed DEF Given, AmountsAreExact, Is
  <2>1. Is("amount") =>
          ParseUnits(FormatUnits(input.of, input.decimals), input.decimals) = input.of
    <3> SUFFICES ASSUME input.kind = "amount"
                 PROVE  ParseUnits(FormatUnits(input.of, input.decimals), input.decimals) = input.of
      BY DEF Is
    <3>1. input.of \in Nat /\ input.decimals \in Nat
      BY DEF WellFormed
    <3> QED  BY <3>1, AmountReadsBack
  <2>2. ASSUME Is("text"), ParseUnits(input.of, input.decimals) # Malformed
        PROVE  ParseUnits(input.of, input.decimals) * Power(Ten, Len(Skip(input.of, DotAt(input.of))))
                 = Number(RemoveAt(input.of, DotAt(input.of)), Ten) * Power(Ten, input.decimals)
    <3>1. input.of \in Seq(0..Dot) /\ input.decimals \in Nat
      BY <2>2 DEF WellFormed, Is
    <3>2. input.of \in Seq(Nat)
      BY <3>1, TenOf DEF Dot
    <3> QED  BY <2>2, <3>1, <3>2, TextIsExact
  <2> QED  BY <2>1, <2>2 DEF AmountsAreExact
<1> QED
  BY <1>1, InputIsGiven, PTL
===============================================================================
