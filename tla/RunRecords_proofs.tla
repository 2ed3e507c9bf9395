-------------------------- MODULE RunRecords_proofs --------------------------
(***************************************************************************)
(* What a run leaves on disk, for any number of processes, analyses, days  *)
(* and faults, any cap of the log and any older log.                       *)
(***************************************************************************)
EXTENDS RunRecords, Subsequences_proofs

Entries == [key : LogKeys, run : Nat, days : 0..HoldDays]
Updates == UNION {[S -> 1..HoldDays] : S \in SUBSET LogKeys}

-----------------------------------------------------------------------------
(* The rewrite of the log.                                                 *)

LEMMA UpdateFacts ==
    ASSUME NEW u \in Updates
    PROVE  DOMAIN u \subseteq LogKeys /\ \A k \in DOMAIN u : u[k] \in 1..HoldDays
BY DEF Updates

\* An update resolves a pending entry it matches and leaves the others alone.
LEMMA OutcomesProperties ==
    ASSUME NEW text \in Seq(Entries), NEW u \in Updates
    PROVE  /\ Outcomes(text, u) \in Seq(Entries)
           /\ DOMAIN Outcomes(text, u) = DOMAIN text
           /\ \A i \in DOMAIN text :
                 /\ Outcomes(text, u)[i].key = text[i].key
                 /\ Outcomes(text, u)[i].run = text[i].run
                 /\ IsPending(Outcomes(text, u)[i]) => Outcomes(text, u)[i] = text[i]
                 /\ text[i].key \notin DOMAIN u => Outcomes(text, u)[i] = text[i]
<1> DEFINE O == Outcomes(text, u)
<1>1. DOMAIN text = 1..Len(text) /\ Len(text) \in Nat
  BY LenProperties
<1>2. DOMAIN O = DOMAIN text /\ O = [i \in DOMAIN text |-> O[i]]
  BY DEF Outcomes
<1>3. ASSUME NEW i \in DOMAIN text
      PROVE  /\ O[i] \in Entries
             /\ O[i].key = text[i].key /\ O[i].run = text[i].run
             /\ IsPending(O[i]) => O[i] = text[i]
             /\ text[i].key \notin DOMAIN u => O[i] = text[i]
  <2>1. text[i] \in Entries
    BY <1>1, <1>3, ElementOfSeq
  <2>2. \/ O[i] = text[i]
        \/ O[i] = [text[i] EXCEPT !.days = u[text[i].key]] /\ text[i].key \in DOMAIN u
    BY <1>3 DEF Outcomes
  <2>3. HoldDays \in Nat \ {0}
    BY RecordsAssumption
  <2>4. ASSUME text[i].key \in DOMAIN u, O[i] = [text[i] EXCEPT !.days = u[text[i].key]]
        PROVE  /\ O[i] \in Entries
               /\ O[i].key = text[i].key /\ O[i].run = text[i].run
               /\ ~IsPending(O[i])
    <3>1. u[text[i].key] \in 1..HoldDays
      BY <2>4, UpdateFacts
    <3>2. PICK e \in Entries, d \in 1..HoldDays : e = text[i] /\ d = u[text[i].key]
      BY <2>1, <3>1
    <3>3. [e EXCEPT !.days = d] \in Entries /\ [e EXCEPT !.days = d].days = d
          /\ [e EXCEPT !.days = d].key = e.key /\ [e EXCEPT !.days = d].run = e.run
      BY <2>3 DEF Entries
    <3>4. O[i] = [e EXCEPT !.days = d] /\ d # 0
      BY <2>3, <2>4, <3>2
    <3> HIDE DEF O
    <3> QED
      BY <3>2, <3>3, <3>4 DEF IsPending
  <2> QED
    BY <2>1, <2>2, <2>4
<1>4. O \in Seq(Entries)
  <2> HIDE DEF O
  <2>1. O \in [1..Len(text) -> Entries]
    BY <1>1, <1>2, <1>3
  <2> QED
    BY <1>1, <2>1, SeqDef
<1> QED
  BY <1>2, <1>3, <1>4

\* Rotation keeps every pending entry, in its place among those kept, and no
\* more resolved entries than the cap.
LEMMA RotatedProperties ==
    ASSUME NEW text \in Seq(Entries)
    PROVE  /\ Rotated(text) \in Seq(Entries)
           /\ \E pos \in [DOMAIN Rotated(text) -> DOMAIN text] :
                 /\ \A n \in DOMAIN Rotated(text) : Rotated(text)[n] = text[pos[n]]
                 /\ \A m, n \in DOMAIN Rotated(text) : pos[m] = pos[n] => m = n
                 /\ \A i \in DOMAIN text : IsPending(text[i]) =>
                        \E n \in DOMAIN Rotated(text) : pos[n] = i
           /\ MaxEntries > 0 => Cardinality(Resolved(Rotated(text))) <= MaxEntries
<1> DEFINE R == Rotated(text)
           D == DOMAIN text
           done == Resolved(text)
           surplus == Cardinality(done) - MaxEntries
           oldest == {i \in done : CountBelow(done, i) < surplus}
           kept == D \ oldest
<1>1. D = 1..Len(text) /\ Len(text) \in Nat /\ MaxEntries \in Nat
  BY LenProperties, LogAssumption
<1>2. IsFiniteSet(D) /\ D \in SUBSET Nat
  <2>1. IsFiniteSet(1..Len(text))
    BY <1>1, FS_Interval
  <2> QED
    BY <1>1, <2>1
<1>3. done \in SUBSET D /\ IsFiniteSet(done) /\ Cardinality(done) \in Nat
  <2>1. done \in SUBSET D
    BY DEF Resolved
  <2> QED
    BY <1>2, <2>1, FS_Subset, FS_CardinalityType
<1>4. CASE MaxEntries = 0
  <2>1. R = text
    BY <1>4 DEF Rotated
  <2>2. PICK pos \in [D -> D] : pos = [i \in D |-> i]
    OBVIOUS
  <2> QED
    BY <1>4, <2>1, <2>2
<1>5. CASE MaxEntries # 0
  <2>1. R = ElementsAt(text, kept)
    BY <1>5 DEF Rotated, CountBelow
  <2>2. kept \in SUBSET DOMAIN text
    OBVIOUS
  <2> DEFINE C == Cardinality(kept)
             pos == [n \in 1..C |-> Nth(kept, n)]
  <2> HIDE DEF kept, R
  <2>3. /\ C \in Nat /\ R \in Seq(Entries) /\ DOMAIN R = 1..C
        /\ \A n \in 1..C : Nth(kept, n) \in kept /\ R[n] = text[Nth(kept, n)]
        /\ \A i \in kept : \E n \in 1..C : Nth(kept, n) = i
        /\ \A m, n \in 1..C : m < n => Nth(kept, m) < Nth(kept, n)
    BY <2>1, <2>2, ElementsAtProperties
  <2>4. ASSUME NEW m \in 1..C, NEW n \in 1..C, Nth(kept, m) = Nth(kept, n)
        PROVE  m = n
    <3>1. Nth(kept, m) \in Nat
      BY <1>2, <2>2, <2>3
    <3>2. ~(m < n) /\ ~(n < m)
      BY <2>3, <2>4, <3>1
    <3> QED
      BY <2>3, <3>2
  <2>5. \A i \in D : IsPending(text[i]) => i \in kept
    BY DEF kept, Resolved
  <2>6. pos \in [DOMAIN R -> DOMAIN text]
    BY <2>2, <2>3
  <2>7. Cardinality(Resolved(R)) <= MaxEntries
    <3> DEFINE left == {i \in done : ~(CountBelow(done, i) < surplus)}
               place == [n \in Resolved(R) |-> Nth(kept, n)]
    <3>1. Cardinality(left) <= MaxEntries
      <4>1. Cardinality(done) - surplus <= MaxEntries /\ surplus \in Int
        BY <1>1, <1>3
      <4>2. done \in SUBSET Nat
        BY <1>2, <1>3
      <4> HIDE DEF surplus, done
      <4> QED
        BY <1>1, <1>3, <4>1, <4>2, AllButFirst
    <3>2. left \subseteq done /\ IsFiniteSet(left)
      <4>1. left \subseteq done
        OBVIOUS
      <4> QED
        BY <1>3, <4>1, FS_Subset
    <3>3. ASSUME NEW n \in Resolved(R)
          PROVE  n \in 1..C /\ Nth(kept, n) \in left
      <4>1. n \in 1..C /\ ~IsPending(R[n])
        BY <2>3 DEF Resolved
      <4>2. Nth(kept, n) \in kept /\ ~IsPending(text[Nth(kept, n)])
        BY <2>3, <4>1
      <4> QED
        BY <2>2, <4>1, <4>2 DEF kept, Resolved
    <3>4. place \in Injection(Resolved(R), left)
      <4>1. place \in [Resolved(R) -> left]
        BY <3>3
      <4>2. \A m, n \in Resolved(R) : place[m] = place[n] => m = n
        BY <2>4, <3>3
      <4> HIDE DEF place, left
      <4> QED
        BY <4>1, <4>2 DEF Injection, IsInjective
    <3>5. Cardinality(Resolved(R)) <= Cardinality(left)
      <4> HIDE DEF place, left
      <4> QED
        BY <3>2, <3>4, FS_Injection
    <3>6. IsFiniteSet(Resolved(R)) /\ Cardinality(Resolved(R)) \in Nat
          /\ Cardinality(left) \in Nat
      <4>1. Resolved(R) \subseteq 1..C /\ IsFiniteSet(1..C)
        BY <2>3, FS_Interval DEF Resolved
      <4> QED
        BY <3>2, <4>1, FS_Subset, FS_CardinalityType
    <3> QED
      BY <1>1, <3>1, <3>5, <3>6
  <2>8. /\ \A n \in DOMAIN R : R[n] = text[pos[n]]
        /\ \A m, n \in DOMAIN R : pos[m] = pos[n] => m = n
        /\ \A i \in D : IsPending(text[i]) => \E n \in DOMAIN R : pos[n] = i
    BY <2>3, <2>4, <2>5
  <2> HIDE DEF pos
  <2> QED
    BY <2>3, <2>6, <2>7, <2>8 DEF R
<1> QED
  BY <1>4, <1>5

\* A rewrite keeps the pending entries it has no outcome for, adds none, and
\* respects the cap.
LEMMA RewrittenProperties ==
    ASSUME NEW text \in Seq(Entries), NEW u \in Updates
    PROVE  /\ Rewritten(text, u) \in Seq(Entries)
           /\ \E pos \in [DOMAIN Rewritten(text, u) -> DOMAIN text] :
                 /\ \A m, n \in DOMAIN Rewritten(text, u) : pos[m] = pos[n] => m = n
                 /\ \A n \in DOMAIN Rewritten(text, u) :
                       /\ Rewritten(text, u)[n].key = text[pos[n]].key
                       /\ Rewritten(text, u)[n].run = text[pos[n]].run
                       /\ IsPending(Rewritten(text, u)[n]) =>
                             Rewritten(text, u)[n] = text[pos[n]]
           /\ \A i \in DOMAIN text : IsPending(text[i]) /\ text[i].key \notin DOMAIN u =>
                 \E n \in DOMAIN Rewritten(text, u) : Rewritten(text, u)[n] = text[i]
           /\ MaxEntries > 0 => Cardinality(Resolved(Rewritten(text, u))) <= MaxEntries
<1> DEFINE O == Outcomes(text, u)
           R == Rewritten(text, u)
<1>1. /\ O \in Seq(Entries) /\ DOMAIN O = DOMAIN text
      /\ \A i \in DOMAIN text :
            /\ O[i].key = text[i].key /\ O[i].run = text[i].run
            /\ IsPending(O[i]) => O[i] = text[i]
            /\ text[i].key \notin DOMAIN u => O[i] = text[i]
  BY OutcomesProperties
<1>2. R = Rotated(O)
  BY DEF Rewritten
<1> HIDE DEF O, R
<1>3. R \in Seq(Entries) /\ (MaxEntries > 0 => Cardinality(Resolved(R)) <= MaxEntries)
  BY <1>1, <1>2, RotatedProperties
<1>4. PICK pos \in [DOMAIN R -> DOMAIN O] :
         /\ \A n \in DOMAIN R : R[n] = O[pos[n]]
         /\ \A m, n \in DOMAIN R : pos[m] = pos[n] => m = n
         /\ \A i \in DOMAIN O : IsPending(O[i]) => \E n \in DOMAIN R : pos[n] = i
  BY <1>1, <1>2, RotatedProperties
<1>5. \A n \in DOMAIN R : /\ R[n].key = text[pos[n]].key
                          /\ R[n].run = text[pos[n]].run
                          /\ IsPending(R[n]) => R[n] = text[pos[n]]
  BY <1>1, <1>4
<1>6. ASSUME NEW i \in DOMAIN text, IsPending(text[i]), text[i].key \notin DOMAIN u
      PROVE  \E n \in DOMAIN R : R[n] = text[i]
  <2>1. i \in DOMAIN O /\ O[i] = text[i] /\ IsPending(O[i])
    BY <1>1, <1>6
  <2> QED
    BY <1>4, <2>1
<1> QED
  BY <1>1, <1>3, <1>4, <1>5, <1>6 DEF R

-----------------------------------------------------------------------------
(* Outcomes, rows and prices.                                              *)

Rows == [id : Nat, run : Nat, entry : Price, bentry : Price]
Works == [key : Keys, entry : Price, bentry : Price, horizons : SUBSET Horizons]
Markets == [day : Nat, bench : BOOLEAN]
Points == [from : Price, to : Price, bfrom : Price, bto : Price]

LEMMA DayFacts ==
    /\ Keys \subseteq LogKeys
    /\ \A k \in LogKeys : k[2] \in Nat
    /\ \A k \in LogKeys : StockDays[k[1]] \subseteq Nat /\ BenchDays[k[1]] \subseteq Nat
BY KeysAssumption DEF LogKeys

LEMMA SessionsFinite ==
    ASSUME NEW bars \in SUBSET Nat, NEW d \in Nat, NEW n \in Nat
    PROVE  LET S == {s \in bars : d <= s /\ s <= n}
           IN  IsFiniteSet(S) /\ Cardinality(S) \in Nat
<1> DEFINE S == {s \in bars : d <= s /\ s <= n}
<1>1. S \subseteq 0..n
  <2>1. \A s \in Nat : s <= n => s \in 0..n
    OBVIOUS
  <2> QED
    BY <2>1
<1>2. IsFiniteSet(0..n)
  BY FS_Interval
<1>3. IsFiniteSet(S)
  BY <1>1, <1>2, FS_Subset
<1> QED
  BY <1>3, FS_CardinalityType

\* An outcome holds for at least one session.
LEMMA HoldingType ==
    ASSUME NEW k \in LogKeys, today \in Nat, Resolvable(k)
    PROVE  Holding(k) \in 1..HoldDays
<1> DEFINE S == {s \in StockDays[k[1]] : k[2] <= s /\ s <= today}
           B == {s \in BenchDays[k[1]] : k[2] <= s /\ s <= today}
<1>1. Cardinality(S) \in Nat /\ Cardinality(B) \in Nat
  BY DayFacts, SessionsFinite
<1>2. Cardinality(S) >= 2 /\ Cardinality(B) >= 2
  BY DEF Resolvable
<1>3. HoldDays \in Nat \ {0}
  BY RecordsAssumption
<1> DEFINE least(a, b) == IF a < b THEN a ELSE b
<1>4. Holding(k) = least(HoldDays, least(Cardinality(S) - 1, Cardinality(B) - 1))
  BY DEF Holding
<1> HIDE DEF S, B
<1> QED
  BY <1>1, <1>2, <1>3, <1>4

\* Who can be resolved stays so.
LEMMA ResolvableLater ==
    ASSUME NEW k \in LogKeys, today \in Nat, today' \in Nat, today <= today', Resolvable(k)
    PROVE  Resolvable(k)'
<1>1. ASSUME NEW bars \in SUBSET Nat,
             Cardinality({s \in bars : k[2] <= s /\ s <= today}) >= 2
      PROVE  Cardinality({s \in bars : k[2] <= s /\ s <= today'}) >= 2
  <2> DEFINE S == {s \in bars : k[2] <= s /\ s <= today}
             T == {s \in bars : k[2] <= s /\ s <= today'}
  <2>1. S \subseteq T
    <3>1. \A s \in Nat : s <= today => s <= today'
      OBVIOUS
    <3> QED
      BY <3>1
  <2>2. IsFiniteSet(T) /\ Cardinality(T) \in Nat /\ Cardinality(S) \in Nat
    BY DayFacts, SessionsFinite
  <2>3. Cardinality(S) <= Cardinality(T)
    BY <2>1, <2>2, FS_Subset
  <2> QED
    BY <1>1, <2>2, <2>3
<1> QED
  BY <1>1, DayFacts DEF Resolvable

LEMMA StockFacts ==
    ASSUME NEW k \in Keys, NEW m \in Markets
    PROVE  Stock(k[1], m) \subseteq Nat /\ Bench(k[1], m) \subseteq Nat
BY DayFacts DEF Stock, Bench

\* A snapshot is the stored price or the close of the baseline session.
LEMMA SnapshotOf ==
    ASSUME NEW bars \in SUBSET Nat, NEW d, NEW m \in Markets, NEW stored
    PROVE  \/ Snapshot(bars, d, m, stored) = stored
           \/ Snapshot(bars, d, m, stored) = NoPrice
           \/ /\ stored = NoPrice /\ Baseline(bars, d) # {}
              /\ Snapshot(bars, d, m, stored) = Close(CHOOSE s \in Baseline(bars, d) : TRUE, m)
              /\ Snapshot(bars, d, m, stored) \in Price
<1>1. Baseline(bars, d) # {} =>
          (CHOOSE s \in Baseline(bars, d) : TRUE) \in Baseline(bars, d)
  OBVIOUS
<1>2. \A s \in Nat : Close(s, m) \in Price
  BY DEF Close, Price, Markets
<1>3. Baseline(bars, d) \subseteq Nat
  BY DEF Baseline
<1> QED
  BY <1>1, <1>2, <1>3 DEF Snapshot

LEMMA EntryTypes ==
    ASSUME NEW w \in Works, NEW m \in Markets
    PROVE  EntryOf(w, m) \in Price /\ BenchEntryOf(w, m) \in Price
<1>1. NoPrice \in Price
  BY DEF NoPrice, Price
<1>2. w.key \in Keys /\ w.entry \in Price /\ w.bentry \in Price
  BY DEF Works
<1>3. Stock(w.key[1], m) \in SUBSET Nat /\ Bench(w.key[1], m) \in SUBSET Nat
  BY <1>2, StockFacts
<1>4. Snapshot(Stock(w.key[1], m), w.key[2], m, w.entry) \in Price
  BY <1>1, <1>2, <1>3, SnapshotOf
<1>5. Snapshot(Bench(w.key[1], m), w.key[2], m, w.bentry) \in Price
  BY <1>1, <1>2, <1>3, SnapshotOf
<1> QED
  BY <1>1, <1>4, <1>5 DEF EntryOf, BenchEntryOf

\* A horizon that is reached is measured at a session of the exchange.
LEMMA TargetFacts ==
    ASSUME NEW w \in Works, NEW m \in Markets, NEW h \in Reached(w, m)
    PROVE  LET target == CHOOSE s \in Target(w.key[1], w.key[2], h, m) : TRUE
           IN  /\ target \in Target(w.key[1], w.key[2], h, m)
               /\ target \in Nat /\ target <= m.day
               /\ Close(target, m) \in Price
               /\ EntryOf(w, m) # NoPrice
<1>1. EntryOf(w, m) # NoPrice /\ Target(w.key[1], w.key[2], h, m) # {}
  BY DEF Reached
<1>2. Target(w.key[1], w.key[2], h, m) \subseteq Stock(w.key[1], m)
  BY DEF Target
<1>3. Stock(w.key[1], m) \subseteq Nat /\ \A s \in Stock(w.key[1], m) : s <= m.day
  BY StockFacts DEF Works, Stock
<1>4. \A s \in Nat : Close(s, m) \in Price
  BY DEF Close, Price, Markets
<1> QED
  BY <1>1, <1>2, <1>3, <1>4

LEMMA PointTypes ==
    ASSUME NEW w \in Works, NEW m \in Markets, NEW points \in [Horizons -> Points]
    PROVE  Measured(points, w, m) \in [Horizons -> Points]
<1>1. ASSUME NEW h \in Reached(w, m)
      PROVE  PointOf(w, h, m) \in Points
  <2> DEFINE target == CHOOSE s \in Target(w.key[1], w.key[2], h, m) : TRUE
             alpha == BenchEntryOf(w, m) # NoPrice /\ target \in Bench(w.key[1], m)
  <2>1. Close(target, m) \in Price
    BY <1>1, TargetFacts
  <2>2. EntryOf(w, m) \in Price /\ BenchEntryOf(w, m) \in Price /\ NoPrice \in Price
    BY EntryTypes DEF NoPrice, Price
  <2>3. PointOf(w, h, m) =
            [from |-> EntryOf(w, m), to |-> Close(target, m),
             bfrom |-> IF alpha THEN BenchEntryOf(w, m) ELSE NoPrice,
             bto |-> IF alpha THEN Close(target, m) ELSE NoPrice]
    BY DEF PointOf
  <2> HIDE DEF target, alpha
  <2> QED
    BY <2>1, <2>2, <2>3 DEF Points
<1> QED
  BY <1>1 DEF Measured

\* The rows of a table are ordered by trade date and id.
IdsDiffer ==
    \A j, k \in Keys : rows[j].id = rows[k].id /\ rows[j].id # 0 => j = k

LEMMA PendingRowsType ==
    ASSUME rows \in [Keys -> Rows], IdsDiffer, NEW tickers, NEW limit \in Nat
    PROVE  PendingRows(rows, perf, tickers, limit) \in Seq(Keys)
<1> DEFINE due == {k \in Keys : rows[k].id # 0 /\ k[1] \in tickers /\ Missing(perf[k]) # {}}
           R == {e \in due \X due : \/ e[1][2] < e[2][2]
                                    \/ e[1][2] = e[2][2] /\ rows[e[1]].id < rows[e[2]].id}
           all == Sorted(due, R)
<1>1. IsFiniteSet(due) /\ due \subseteq Keys
  BY KeysAssumption, FS_Subset
<1>2. \A k \in due : k[2] \in Nat /\ rows[k].id \in Nat /\ rows[k].id # 0
  BY DayFacts DEF Rows
<1>3. \A j, k \in due : <<j, k>> \in R <=> \/ j[2] < k[2]
                                           \/ j[2] = k[2] /\ rows[j].id < rows[k].id
  OBVIOUS
<1>4. \A j, k \in due : rows[j].id = rows[k].id => j = k
  BY DEF IdsDiffer
<1> HIDE DEF due, R
<1>5. \A x \in due : <<x, x>> \notin R
  BY <1>2, <1>3
<1>6. \A x, y, z \in due : <<x, y>> \in R /\ <<y, z>> \in R => <<x, z>> \in R
  BY <1>2, <1>3
<1>7. \A x, y \in due : x = y \/ <<x, y>> \in R \/ <<y, x>> \in R
  <2>1. ASSUME NEW x \in due, NEW y \in due, x # y
        PROVE  <<x, y>> \in R \/ <<y, x>> \in R
    <3>1. /\ x[2] \in Nat /\ y[2] \in Nat /\ rows[x].id \in Nat /\ rows[y].id \in Nat
          /\ rows[x].id # rows[y].id
      BY <1>2, <1>4, <2>1
    <3>2. \/ x[2] < y[2] \/ y[2] < x[2]
          \/ x[2] = y[2] /\ (rows[x].id < rows[y].id \/ rows[y].id < rows[x].id)
      BY <3>1
    <3> QED
      BY <1>3, <3>2
  <2> QED
    BY <2>1
<1>8. all \in Seq(due)
  BY <1>1, <1>5, <1>6, <1>7, SortedProperties
<1>9. all \in Seq(Keys) /\ Len(all) \in Nat
  <2> HIDE DEF all
  <2> QED
    BY <1>1, <1>8, SeqMonotonic, LenProperties
<1>10. PendingRows(rows, perf, tickers, limit) =
           SubSeq(all, 1, IF Len(all) < limit THEN Len(all) ELSE limit)
  BY DEF PendingRows, due, R
<1> HIDE DEF all
<1> QED
  BY <1>9, <1>10, ElementOfSeq, SubSeqProperties

LEMMA UpToType ==
    ASSUME NEW T, NEW s \in Seq(T), NEW n \in Nat
    PROVE  UpTo(n, s) \in Seq(T)
<1>1. Len(s) \in Nat /\ \A i \in 1..Len(s) : s[i] \in T
  BY LenProperties, ElementOfSeq
<1> QED
  BY <1>1, SubSeqProperties DEF UpTo

\* Working off the rows ticker by ticker permutes them.
LEMMA GroupedType ==
    ASSUME NEW ks \in Seq(Keys)
    PROVE  Grouped(ks) \in Seq(Keys) /\ DOMAIN Grouped(ks) = DOMAIN ks
<1> DEFINE D == DOMAIN ks
           IsFirst(i, t) == ks[i][1] = t /\ \A j \in 1..(i - 1) : ks[j][1] # t
           First(t) == CHOOSE i \in D : IsFirst(i, t)
           Before(i, j) == \/ First(ks[i][1]) < First(ks[j][1])
                           \/ ks[i][1] = ks[j][1] /\ i < j
           R == {e \in D \X D : Before(e[1], e[2])}
           order == Sorted(D, R)
<1>1. D = 1..Len(ks) /\ Len(ks) \in Nat /\ IsFiniteSet(D) /\ D \subseteq Nat
  <2>1. D = 1..Len(ks) /\ Len(ks) \in Nat
    BY LenProperties
  <2> QED
    BY <2>1, FS_Interval
<1>2. ASSUME NEW i \in D
      PROVE  First(ks[i][1]) \in D /\ ks[First(ks[i][1])][1] = ks[i][1]
  <2> DEFINE S == {j \in D : ks[j][1] = ks[i][1]}
  <2>1. PICK j \in S : \A k \in S : j <= k
    <3>1. S \in SUBSET Nat /\ S # {}
      BY <1>1, <1>2
    <3> HIDE DEF S
    <3> QED
      BY <3>1, LeastOf
  <2>2. \A k \in 1..(j - 1) : k \in D /\ ~(j <= k)
    BY <1>1, <2>1
  <2>3. IsFirst(j, ks[i][1]) /\ j \in D
    BY <2>1, <2>2
  <2> QED
    BY <2>3
<1> HIDE DEF First, IsFirst
<1>3. \A i, j \in D : <<i, j>> \in R <=> Before(i, j)
  OBVIOUS
<1> HIDE DEF R, D
<1>4. \A x \in D : <<x, x>> \notin R
  BY <1>1, <1>2, <1>3
<1>5. ASSUME NEW x \in D, NEW y \in D, NEW z \in D, <<x, y>> \in R, <<y, z>> \in R
      PROVE  <<x, z>> \in R
  <2>1. /\ First(ks[x][1]) \in Nat /\ First(ks[y][1]) \in Nat /\ First(ks[z][1]) \in Nat
        /\ x \in Nat /\ y \in Nat /\ z \in Nat
    BY <1>1, <1>2
  <2>2. Before(x, y) /\ Before(y, z)
    BY <1>3, <1>5
  <2>3. Before(x, z)
    BY <2>1, <2>2
  <2> QED
    BY <1>3, <2>3
<1>6. ASSUME NEW x \in D, NEW y \in D, x # y
      PROVE  <<x, y>> \in R \/ <<y, x>> \in R
  <2>1. /\ First(ks[x][1]) \in Nat /\ First(ks[y][1]) \in Nat
        /\ x \in Nat /\ y \in Nat
    BY <1>1, <1>2
  <2>2. First(ks[x][1]) = First(ks[y][1]) => ks[x][1] = ks[y][1]
    BY <1>2
  <2>3. Before(x, y) \/ Before(y, x)
    BY <1>6, <2>1, <2>2
  <2> QED
    BY <1>3, <2>3
<1>7. /\ Cardinality(D) = Len(ks)
      /\ \A n \in 1..Cardinality(D) : order[n] \in D
  <2>1. Cardinality(D) = Len(ks)
    BY <1>1, FS_Interval
  <2>2. \A n \in 1..Cardinality(D) : order[n] \in D
    BY <1>1, <1>4, <1>5, <1>6, SortedProperties
  <2> QED
    BY <2>1, <2>2
<1>8. Grouped(ks) = [n \in D |-> ks[order[n]]]
  BY DEF Grouped, First, IsFirst, R, D
<1>9. Grouped(ks) \in [1..Len(ks) -> Keys]
  <2>1. \A n \in D : ks[order[n]] \in Keys
    BY <1>1, <1>7, ElementOfSeq
  <2> HIDE DEF order
  <2> QED
    BY <1>1, <1>8, <2>1
<1> QED
  BY <1>1, <1>8, <1>9, SeqDef DEF D

-----------------------------------------------------------------------------
(* Types, and what holds of a process at each of its steps.                *)

Pcs == {"idle", "rewrite", "write", "replace", "graph", "read", "load", "fill",
        "measure", "pending", "log", "scan", "append", "clear"}

\* The steps at which a process holds rows, and those after its graph.
Working == {"load", "fill", "measure"}
AfterGraph == {"read", "load", "fill", "measure", "pending", "log", "scan", "append", "clear"}

Locals == [pc : Pcs, key : Keys \cup {Command}, id : Nat, updates : Updates,
           text : Seq(Entries), work : Seq(Works), market : {<<>>} \cup Markets,
           own : BOOLEAN]

\* Runs are numbered as they begin.
SoFar(text, n) == \A i \in DOMAIN text : text[i].run <= n

LocalOK(r, n) ==
    /\ r \in Locals
    /\ r.id <= n
    /\ SoFar(r.text, n)
    /\ r.key = Command => r.pc \in {"idle", "pending"} \cup Working
    /\ r.key # Command => r.id > 0
    /\ r.pc \in Working <=> r.work # <<>>
    /\ r.work = <<>> => r.market = <<>>
    /\ r.pc \in {"fill", "measure"} => r.market \in Markets
    /\ r.own => r.key # Command

Files ==
    /\ today \in FirstDay..LastDay /\ runs \in 0..MaxRuns /\ faults \in 0..MaxFaults
    /\ log \in Seq(Entries) /\ SoFar(log, runs)
    /\ tmp # <<>> => tmp = <<tmp[1]>> /\ tmp[1] \in Seq(Entries) /\ SoFar(tmp[1], runs)
    /\ states \in [Keys -> 0..runs] /\ threads \subseteq Keys
    /\ rows \in [Keys -> Rows] /\ perf \in [Keys -> [Horizons -> Points]]
    /\ \A k \in Keys : rows[k].run <= runs

Types ==
    /\ Files
    /\ DOMAIN run = Procs
    /\ \A p \in Procs : LocalOK(run[p], runs)

\* The ids of the rows are 1, 2, ... in the order of their insertion.
Recordings(table) == Cardinality({j \in Keys : table[j].id # 0})
Ids ==
    /\ IdsDiffer
    /\ \A k \in Keys : rows[k].id <= Recordings(rows)

LEMMA IdleOK ==
    ASSUME NEW n \in Nat
    PROVE  LocalOK(Idle, n) /\ LocalOK([Idle EXCEPT !.pc = "pending"], n)
<1>1. <<>> \in Updates
  <2>1. <<>> \in [{} -> 1..HoldDays]
    OBVIOUS
  <2> QED
    BY <2>1 DEF Updates
<1>2. <<>> \in Seq(Entries) /\ <<>> \in Seq(Works) /\ SoFar(<<>>, n)
  BY EmptySeq DEF SoFar
<1>3. Idle.pc = "idle" /\ Idle.key = Command /\ Idle.id = 0 /\ Idle.text = <<>>
      /\ Idle.work = <<>> /\ Idle.market = <<>> /\ Idle.own = FALSE
  BY DEF Idle, Command
<1>4. Idle \in Locals
  BY <1>1, <1>2 DEF Idle, Locals, Pcs, Command
<1>5. [Idle EXCEPT !.pc = "pending"] \in Locals
  BY <1>4 DEF Locals, Pcs
<1> QED
  BY <1>2, <1>3, <1>4, <1>5 DEF LocalOK, Working, Idle

LEMMA EntriesOf ==
    ASSUME NEW text \in Seq(Entries), NEW i \in DOMAIN text
    PROVE  /\ text[i] \in Entries /\ text[i].key \in LogKeys
           /\ text[i].run \in Nat /\ text[i].days \in 0..HoldDays
<1>1. text[i] \in Entries
  BY ElementOfSeq, LenProperties
<1> QED
  BY <1>1 DEF Entries

LEMMA StillSoFar ==
    ASSUME NEW text \in Seq(Entries), NEW m \in Nat, NEW n \in Nat, m <= n, SoFar(text, m)
    PROVE  SoFar(text, n)
<1>1. \A i \in DOMAIN text : text[i].run \in Nat
  BY EntriesOf
<1> QED
  BY <1>1 DEF SoFar

LEMMA StillOK ==
    ASSUME NEW l, NEW m \in Nat, NEW n \in Nat, m <= n, LocalOK(l, m)
    PROVE  LocalOK(l, n)
<1>1. l \in Locals /\ l.id <= m /\ l.id \in Nat /\ SoFar(l.text, m) /\ l.text \in Seq(Entries)
  BY DEF LocalOK, Locals
<1>2. l.id <= n /\ SoFar(l.text, n)
  BY <1>1, StillSoFar
<1> QED
  BY <1>2 DEF LocalOK

\* A step of one process leaves what holds of the others.
LEMMA LocalStep ==
    ASSUME Types, runs' \in Nat, runs <= runs', NEW p \in Procs, NEW r,
           run' = [run EXCEPT ![p] = r], LocalOK(r, runs')
    PROVE  DOMAIN run' = Procs /\ \A q \in Procs : LocalOK(run'[q], runs')
<1>1. runs \in Nat /\ DOMAIN run = Procs
  BY RecordsAssumption DEF Types, Files
<1>2. \A q \in Procs : run'[q] = IF q = p THEN r ELSE run[q]
  BY <1>1
<1>3. \A q \in Procs : LocalOK(run[q], runs)
  BY DEF Types
<1>4. \A q \in Procs : LocalOK(run[q], runs')
  BY <1>1, <1>3, StillOK
<1> QED
  BY <1>1, <1>2, <1>4

\* Every step but Tick moves one process.
LEMMA StepTypes ==
    ASSUME Types, Files', NEW p \in Procs, NEW r,
           run' = [run EXCEPT ![p] = r], runs' = runs, LocalOK(r, runs)
    PROVE  Types'
<1>1. runs' \in Nat /\ runs <= runs'
  BY RecordsAssumption DEF Files
<1> QED
  BY <1>1, LocalStep DEF Types

LEMMA FilesKept ==
    ASSUME Files, faults' \in 0..MaxFaults,
           UNCHANGED <<today, log, tmp, states, threads, history, runs>>
    PROVE  Files'
BY DEF Files, history, SoFar

\* What is known of the process that takes a step.
LEMMA Actor ==
    ASSUME Types, NEW p \in Procs
    PROVE  LocalOK(run[p], runs) /\ run[p] \in Locals /\ runs \in Nat /\ runs <= MaxRuns
           /\ faults \in 0..MaxFaults /\ Files
BY RecordsAssumption DEF Types, Files, LocalOK

LEMMA RecordingsType ==
    ASSUME NEW table
    PROVE  Recordings(table) \in Nat
<1>1. IsFiniteSet({j \in Keys : table[j].id # 0})
  BY KeysAssumption, FS_Subset
<1> QED
  BY <1>1, FS_CardinalityType DEF Recordings

LEMMA InitTypes == Init => Types /\ Ids
<1> SUFFICES ASSUME Init
             PROVE  Types /\ Ids
  OBVIOUS
<1>1. /\ FirstDay \in FirstDay..LastDay /\ runs = 0 /\ 0 \in 0..MaxRuns /\ 0 \in 0..MaxFaults
  BY RecordsAssumption DEF Init
<1>2. log \in Seq(Entries) /\ SoFar(log, 0)
  <2> DEFINE T == [key : LogKeys, run : {0}, days : 0..HoldDays]
  <2>1. log \in Seq(T) /\ T \subseteq Entries
    BY PriorLogAssumption DEF Init, Entries
  <2>2. \A i \in DOMAIN log : log[i] \in T
    BY <2>1, ElementOfSeq, LenProperties
  <2>3. \A i \in DOMAIN log : log[i].run <= 0
    BY <2>2
  <2> HIDE DEF T
  <2>4. log \in Seq(Entries)
    BY <2>1, SeqMonotonic
  <2> QED
    BY <1>1, <2>3, <2>4 DEF SoFar
<1>3. rows \in [Keys -> Rows] /\ perf \in [Keys -> [Horizons -> Points]]
  BY DEF Init, NoRow, Rows, NoPoint, Points, NoPrice, Price
<1>4. \A k \in Keys : rows[k].run = 0 /\ rows[k].id = 0
  BY DEF Init, NoRow
<1>5. Files
  BY <1>1, <1>2, <1>3, <1>4 DEF Files, Init
<1>6. LocalOK(Idle, 0)
  BY <1>1, IdleOK
<1>7. DOMAIN run = Procs /\ \A p \in Procs : LocalOK(run[p], runs)
  BY <1>6 DEF Init, LocalOK
<1>8. Ids
  BY <1>4, RecordingsType DEF Ids, IdsDiffer
<1> QED
  BY <1>5, <1>7, <1>8 DEF Types

LEMMA TickTypes ==
    ASSUME Types, Tick
    PROVE  Types'
<1>1. Files'
  BY RecordsAssumption DEF Types, Files, Tick, files, history, SoFar
<1>2. DOMAIN run' = Procs /\ \A p \in Procs : LocalOK(run[p], runs)'
  BY DEF Types, Tick, LocalOK, SoFar
<1> QED
  BY <1>1, <1>2 DEF Types

LEMMA BeginTypes ==
    ASSUME Types, NEW p \in Procs, NEW k \in Keys, Begin(p, k)
    PROVE  Types'
<1> DEFINE due == {x \in PendingOf(log, k[1]) : Resolvable(x)}
           updates == [j \in due |-> Holding(j)]
           pc == IF DOMAIN updates = {} THEN "graph" ELSE "rewrite"
           r == [Idle EXCEPT !.key = k, !.id = runs + 1, !.updates = updates, !.pc = pc]
<1>1. run' = [run EXCEPT ![p] = r] /\ runs' = runs + 1
  BY DEF Begin
<1>2. runs \in Nat /\ runs' \in Nat /\ runs <= runs' /\ runs' \in 0..MaxRuns
  BY <1>1, RecordsAssumption, Actor DEF Begin, Types, Files
<1>3. updates \in Updates
  <2>1. due \in SUBSET LogKeys
    <3>1. \A i \in DOMAIN log : log[i].key \in LogKeys
      <4>1. log \in Seq(Entries)
        BY DEF Types, Files
      <4> QED
        BY <4>1, EntriesOf
    <3> QED
      BY <3>1 DEF PendingOf
  <2>2. \A x \in due : Holding(x) \in 1..HoldDays
    <3>1. today \in Nat
      BY RecordsAssumption DEF Types, Files
    <3> QED
      BY <2>1, <3>1, HoldingType
  <2>3. updates \in [due -> 1..HoldDays]
    BY <2>2
  <2> QED
    BY <2>1, <2>3 DEF Updates
<1>4. LocalOK(Idle, runs')
  BY <1>2, IdleOK
<1>5. LocalOK(r, runs')
  <2>1. pc \in {"graph", "rewrite"}
    OBVIOUS
  <2>2. k # Command
    BY KeysAssumption
  <2>3. PICK l \in Locals, n \in Nat, u \in Updates, c \in Pcs :
               l = Idle /\ n = runs' /\ u = updates /\ c = pc
    BY <1>2, <1>3, <1>4, <2>1 DEF LocalOK, Pcs
  <2>4. r = [l EXCEPT !.key = k, !.id = n, !.updates = u, !.pc = c]
    BY <1>1, <2>3
  <2> HIDE DEF r, updates, pc
  <2>5. /\ r \in Locals
        /\ r.pc = c /\ r.key = k /\ r.id = n /\ r.text = l.text /\ r.work = l.work
        /\ r.market = l.market /\ r.own = l.own
    BY <2>4 DEF Locals
  <2>6. LocalOK(l, runs') /\ l.pc = "idle" /\ l.own = FALSE /\ n > 0 /\ n <= runs'
    BY <1>1, <1>2, <1>4, <2>3, Actor DEF Idle
  <2> QED
    BY <2>1, <2>2, <2>3, <2>5, <2>6 DEF LocalOK, Working
<1>6. Files'
  <2>1. log' \in Seq(Entries) /\ SoFar(log', runs')
    BY <1>2, StillSoFar DEF Types, Files, Begin, files
  <2>2. ASSUME tmp # <<>>
        PROVE  tmp = <<tmp[1]>> /\ tmp[1] \in Seq(Entries) /\ SoFar(tmp[1], runs')
    <3>1. tmp = <<tmp[1]>> /\ tmp[1] \in Seq(Entries) /\ SoFar(tmp[1], runs)
      BY <2>2 DEF Types, Files
    <3> QED
      BY <1>2, <3>1, StillSoFar
  <2>5. states \in [Keys -> 0..runs'] /\ \A k1 \in Keys : rows[k1].run <= runs'
    BY <1>2 DEF Types, Files, Rows
  <2> QED
    BY <1>2, <2>1, <2>2, <2>5 DEF Types, Files, Begin, files, history
<1> HIDE DEF r
<1> QED
  BY <1>1, <1>2, <1>5, <1>6, LocalStep DEF Types

\* A process that only moves on.
LEMMA GotoOK ==
    ASSUME NEW l, NEW n \in Nat, LocalOK(l, n), NEW c \in Pcs,
           c \in Working <=> l.pc \in Working,
           l.key = Command => c \in {"idle", "pending"} \cup Working,
           c \in {"fill", "measure"} => l.market \in Markets
    PROVE  LocalOK([l EXCEPT !.pc = c], n)
<1> DEFINE r == [l EXCEPT !.pc = c]
<1>1. l \in Locals
  BY DEF LocalOK
<1>2. /\ r \in Locals
      /\ r.pc = c /\ r.key = l.key /\ r.id = l.id /\ r.text = l.text /\ r.work = l.work
      /\ r.market = l.market /\ r.own = l.own
  BY <1>1 DEF Locals
<1> HIDE DEF r
<1>3. LocalOK(r, n)
  BY <1>2 DEF LocalOK
<1> QED
  BY <1>3 DEF r

LEMMA GotoTypes ==
    ASSUME Types, Files', runs' = runs, NEW p \in Procs, NEW c \in Pcs, Goto(p, c),
           c \in Working <=> run[p].pc \in Working,
           Key(p) = Command => c \in {"idle", "pending"} \cup Working,
           c \in {"fill", "measure"} => run[p].market \in Markets
    PROVE  Types'
<1>1. PICK l : l = run[p]
  OBVIOUS
<1>2. LocalOK(l, runs) /\ runs \in Nat
  BY <1>1, Actor
<1>3. PICK r : r = [l EXCEPT !.pc = c] /\ LocalOK(r, runs)
  BY <1>1, <1>2, GotoOK DEF Key
<1>4. run' = [run EXCEPT ![p] = r]
  BY <1>1, <1>3 DEF Goto
<1> QED
  BY <1>3, <1>4, StepTypes

\* A rewrite brings no later runs.
LEMMA RewrittenSoFar ==
    ASSUME NEW text \in Seq(Entries), NEW u \in Updates, NEW n, SoFar(text, n)
    PROVE  Rewritten(text, u) \in Seq(Entries) /\ SoFar(Rewritten(text, u), n)
<1>1. Rewritten(text, u) \in Seq(Entries)
  BY RewrittenProperties
<1>2. PICK pos \in [DOMAIN Rewritten(text, u) -> DOMAIN text] :
         /\ \A i, j \in DOMAIN Rewritten(text, u) : pos[i] = pos[j] => i = j
         /\ \A i \in DOMAIN Rewritten(text, u) :
               /\ Rewritten(text, u)[i].key = text[pos[i]].key
               /\ Rewritten(text, u)[i].run = text[pos[i]].run
               /\ IsPending(Rewritten(text, u)[i]) => Rewritten(text, u)[i] = text[pos[i]]
  BY RewrittenProperties
<1> QED
  BY <1>1, <1>2 DEF SoFar

LEMMA ReadLogTypes ==
    ASSUME Types, NEW p \in Procs, ReadLog(p)
    PROVE  Types'
<1>1. Files'
  BY Actor, FilesKept DEF ReadLog, files
<1>2. PICK l : l = run[p] /\ LocalOK(l, runs)
  BY Actor
<1>3. PICK x \in Seq(Entries) : x = Rewritten(log, l.updates) /\ SoFar(x, runs)
  <2>1. log \in Seq(Entries) /\ SoFar(log, runs)
    BY DEF Types, Files
  <2>2. l.updates \in Updates
    BY <1>2 DEF LocalOK, Locals
  <2> QED
    BY <2>1, <2>2, RewrittenSoFar
<1> DEFINE r == [l EXCEPT !.pc = "write", !.text = x]
<1>4. run' = [run EXCEPT ![p] = r] /\ runs' = runs /\ l.pc = "rewrite"
  BY <1>2, <1>3 DEF ReadLog, At
<1>5. /\ r \in Locals
      /\ r.pc = "write" /\ r.key = l.key /\ r.id = l.id /\ r.text = x /\ r.work = l.work
      /\ r.market = l.market /\ r.own = l.own
  BY <1>2 DEF Locals, LocalOK, Pcs
<1> HIDE DEF r
<1>6. LocalOK(r, runs)
  BY <1>2, <1>3, <1>4, <1>5 DEF LocalOK, Working
<1> QED
  BY <1>1, <1>4, <1>6, StepTypes, Actor

LEMMA WriteTmpTypes ==
    ASSUME Types, NEW p \in Procs, WriteTmp(p)
    PROVE  Types'
<1>1. PICK x \in Seq(Entries) : x = run[p].text /\ SoFar(x, runs)
  BY Actor DEF LocalOK, Locals
<1>2. tmp' = <<x>>
  BY <1>1 DEF WriteTmp
<1>3. Files'
  BY <1>1, <1>2 DEF Types, Files, WriteTmp, history
<1>4. "replace" \in Pcs /\ Key(p) # Command /\ run[p].pc = "write"
  BY Actor DEF WriteTmp, At, Pcs, LocalOK, Key, Working
<1> QED
  BY <1>3, <1>4, GotoTypes DEF WriteTmp, Working

LEMMA ReplaceTypes ==
    ASSUME Types, NEW p \in Procs, Replace(p)
    PROVE  Types'
<1>1. Files'
  BY DEF Types, Files, Replace, history
<1>2. PICK l : l = run[p] /\ LocalOK(l, runs)
  BY Actor
<1>3. PICK i : i = Idle /\ LocalOK(i, runs)
  BY Actor, IdleOK
<1>4. runs' = runs /\ l.pc = "replace" /\ runs \in Nat
  BY <1>2, Actor DEF Replace, At
<1> DEFINE r == [i EXCEPT !.pc = "graph", !.key = l.key, !.id = l.id]
<1>5. run' = [run EXCEPT ![p] = i] \/ run' = [run EXCEPT ![p] = r]
  BY <1>2, <1>3 DEF Replace, Key
<1>6. LocalOK(r, runs)
  <2>1. i \in Locals /\ l.key \in Keys /\ l.id \in Nat
    BY <1>2, <1>3, <1>4 DEF LocalOK, Locals, Working
  <2>2. /\ r \in Locals
        /\ r.pc = "graph" /\ r.key = l.key /\ r.id = l.id /\ r.text = i.text
        /\ r.work = i.work /\ r.market = i.market /\ r.own = i.own
    BY <2>1 DEF Locals, Pcs
  <2>3. i.pc = "idle" /\ i.own = FALSE
    BY <1>3 DEF Idle
  <2> HIDE DEF r
  <2> QED
    BY <1>2, <1>3, <1>4, <2>1, <2>2, <2>3 DEF LocalOK, Working
<1> QED
  BY <1>1, <1>3, <1>4, <1>5, <1>6, StepTypes

LEMMA DieTypes ==
    ASSUME Types, NEW p \in Procs, Die(p)
    PROVE  Types'
<1>1. At(p, "graph") => Key(p) \in Keys
  BY Actor DEF At, Key, LocalOK, Locals, Working
<1>2. Files'
  BY <1>1, RecordsAssumption DEF Types, Files, Die, Fault, history, Checkpointed
<1>3. LocalOK(Idle, runs) /\ runs' = runs
  BY Actor, IdleOK DEF Die
<1> QED
  BY <1>2, <1>3, StepTypes DEF Die

\* A run of the graph is one of an analysis, at every step after its begin.
LEMMA KeyOfRun ==
    ASSUME Types, NEW p \in Procs
    PROVE  /\ run[p].pc \notin {"idle", "pending"} \cup Working => Key(p) \in Keys
           /\ run[p].own => Key(p) \in Keys
           /\ Key(p) # Command => Key(p) \in Keys /\ run[p].id \in 1..runs
BY Actor DEF LocalOK, Locals, Key

\* What record_analysis leaves in the table.
LEMMA RecordedFacts ==
    ASSUME NEW table \in [Keys -> Rows], NEW k \in Keys, NEW r \in Nat
    PROVE  /\ Recorded(table, k, r) \in [Keys -> Rows]
           /\ \A j \in Keys : j # k => Recorded(table, k, r)[j] = table[j]
           /\ Recorded(table, k, r)[k].run = r
           /\ Recorded(table, k, r)[k].entry = table[k].entry
           /\ Recorded(table, k, r)[k].bentry = table[k].bentry
           /\ Recorded(table, k, r)[k].id =
                 IF table[k].id # 0 THEN table[k].id ELSE 1 + Recordings(table)
<1>1. PICK new : new = Recorded(table, k, r)
  OBVIOUS
<1>2. PICK c \in Nat : c = Recordings(table)
  BY RecordingsType
<1>3. new = [table EXCEPT ![k].run = r, ![k].id = IF @ # 0 THEN @ ELSE 1 + c]
  BY <1>1, <1>2 DEF Recorded, Recordings
<1>4. PICK old \in Rows : old = table[k]
  OBVIOUS
<1>5. PICK n \in Nat : n = IF old.id # 0 THEN old.id ELSE 1 + c
  BY <1>2, <1>4 DEF Rows
<1>6. new[k] = [old EXCEPT !.run = r, !.id = n]
  BY <1>3, <1>4, <1>5 DEF Rows
<1>7. new[k] \in Rows /\ new[k].run = r /\ new[k].id = n
      /\ new[k].entry = old.entry /\ new[k].bentry = old.bentry
  BY <1>4, <1>5, <1>6 DEF Rows
<1>8. \A j \in Keys : j # k => new[j] = table[j]
  BY <1>3
<1>9. new \in [Keys -> Rows]
  <2>1. DOMAIN new = Keys /\ new = [j \in Keys |-> new[j]]
    BY <1>3
  <2> QED
    BY <1>7, <1>8, <2>1
<1> QED
  BY <1>1, <1>2, <1>4, <1>5, <1>7, <1>8, <1>9

LEMMA RecordTypes ==
    ASSUME Types, NEW p \in Procs, Record(p)
    PROVE  Types'
<1>1. PICK l : l = run[p] /\ LocalOK(l, runs)
  BY Actor
<1>2. l.pc = "graph" /\ l.key \in Keys /\ l.id \in 1..runs /\ runs \in Nat
  BY <1>1, KeyOfRun, Actor DEF Record, At, Key, Working, LocalOK
<1> DEFINE r == [l EXCEPT !.pc = "read", !.own = TRUE]
<1>3. run' = [run EXCEPT ![p] = r] /\ runs' = runs
  BY <1>1 DEF Record
<1>4. /\ r \in Locals
      /\ r.pc = "read" /\ r.key = l.key /\ r.id = l.id /\ r.text = l.text
      /\ r.work = l.work /\ r.market = l.market /\ r.own = TRUE
  BY <1>1 DEF Locals, LocalOK, Pcs
<1>5. Files'
  <2>1. PICK k \in Keys, i \in Nat : k = l.key /\ i = l.id
    BY <1>2
  <2>2. rows' = Recorded(rows, k, i) /\ rows \in [Keys -> Rows]
    BY <1>1, <2>1 DEF Record, Key, Types, Files
  <2>3. /\ rows' \in [Keys -> Rows] /\ rows'[k].run = i
        /\ \A j \in Keys : j # k => rows'[j] = rows[j]
    BY <2>1, <2>2, RecordedFacts
  <2>6. rows' \in [Keys -> Rows] /\ \A j \in Keys : rows'[j].run <= runs
    BY <1>2, <2>1, <2>3 DEF Types, Files
  <2> QED
    BY <1>1, <1>2, <2>6 DEF Types, Files, Record, Checkpointed, Key
<1> HIDE DEF r
<1>6. LocalOK(r, runs)
  BY <1>1, <1>2, <1>4, KeysAssumption DEF LocalOK, Working
<1> QED
  BY <1>3, <1>5, <1>6, StepTypes

LEMMA RecordFailsTypes ==
    ASSUME Types, NEW p \in Procs, RecordFails(p)
    PROVE  Types'
<1>1. Key(p) \in Keys
  BY KeyOfRun DEF RecordFails, At, Working
<1>2. Files'
  BY <1>1, RecordsAssumption DEF Types, Files, RecordFails, Fault, history, Checkpointed
<1>3. "pending" \in Pcs
  BY DEF Pcs
<1> QED
  BY <1>1, <1>2, <1>3, KeysAssumption, GotoTypes DEF RecordFails, At, Working

\* The rows a process takes on.
LEMMA RowType ==
    ASSUME Types, NEW k \in Keys, NEW horizons \in SUBSET Horizons
    PROVE  Row(k, horizons) \in Works
BY DEF Types, Files, Rows, Row, Works

LEMMA ReadOwnTypes ==
    ASSUME Types, NEW p \in Procs, ReadOwn(p)
    PROVE  Types'
<1>1. PICK l : l = run[p] /\ LocalOK(l, runs)
  BY Actor
<1>2. l.pc = "read" /\ l.key \in Keys
  BY <1>1, KeyOfRun DEF ReadOwn, At, Key, Working
<1>3. PICK w \in Works : w = Row(l.key, Horizons)
  BY <1>2, RowType
<1> DEFINE r == [l EXCEPT !.pc = "load", !.work = <<w>>]
<1>4. run' = [run EXCEPT ![p] = r] /\ runs' = runs
  BY <1>1, <1>3 DEF ReadOwn, Key
<1>5. <<w>> \in Seq(Works) /\ <<w>> # <<>>
  BY <1>3
<1>6. /\ r \in Locals
      /\ r.pc = "load" /\ r.key = l.key /\ r.id = l.id /\ r.text = l.text
      /\ r.work = <<w>> /\ r.market = l.market /\ r.own = l.own
  BY <1>1, <1>5 DEF Locals, LocalOK, Pcs
<1>7. Files'
  BY Actor, FilesKept DEF ReadOwn, files
<1> HIDE DEF r
<1>8. LocalOK(r, runs)
  BY <1>1, <1>2, <1>5, <1>6, KeysAssumption DEF LocalOK, Working
<1> QED
  BY <1>4, <1>7, <1>8, StepTypes

\* The keys a run of resolve_pending works off.
LEMMA ChosenType ==
    ASSUME Types, Ids, NEW tickers, NEW own \in SUBSET Keys, IsFiniteSet(own)
    PROVE  LET due == PendingRows(rows, perf, tickers, ResolveLimit + Cardinality(own))
               others == ElementsAt(due, {i \in DOMAIN due : due[i] \notin own})
           IN  Grouped(UpTo(ResolveLimit, others)) \in Seq(Keys)
<1> DEFINE due == PendingRows(rows, perf, tickers, ResolveLimit + Cardinality(own))
           others == ElementsAt(due, {i \in DOMAIN due : due[i] \notin own})
<1>1. ResolveLimit \in Nat /\ ResolveLimit + Cardinality(own) \in Nat
  BY RecordsAssumption, FS_CardinalityType
<1>2. due \in Seq(Keys)
  BY <1>1, PendingRowsType DEF Types, Files, Ids
<1> HIDE DEF due
<1>3. others \in Seq(Keys)
  BY <1>2, ElementsAtProperties
<1> HIDE DEF others
<1>4. Grouped(UpTo(ResolveLimit, others)) \in Seq(Keys)
  BY <1>1, <1>3, UpToType, GroupedType
<1> QED
  BY <1>4 DEF others, due

LEMMA GraphOverTypes ==
    ASSUME Types, NEW p \in Procs, NEW r, run' = [run EXCEPT ![p] = r],
           r.pc = "log" => Key(p) # Command, GraphOver(p)
    PROVE  threads' \subseteq Keys
<1>1. r.pc = "log" => Key(p) \in Keys
  BY KeyOfRun
<1>2. run'[p] = r
  BY DEF Types
<1> QED
  BY <1>1, <1>2 DEF GraphOver, Checkpointed, Types, Files

LEMMA ReadPendingTypes ==
    ASSUME Types, Ids, NEW p \in Procs, ReadPending(p)
    PROVE  Types'
<1> DEFINE own == IF run[p].own THEN {Key(p)} ELSE {}
           tickers == IF Key(p) = Command THEN Tickers ELSE {Key(p)[1]}
           due == PendingRows(rows, perf, tickers, ResolveLimit + Cardinality(own))
           others == ElementsAt(due, {i \in DOMAIN due : due[i] \notin own})
           chosen == Grouped(UpTo(ResolveLimit, others))
           work == [i \in DOMAIN chosen |-> Row(chosen[i], Missing(perf[chosen[i]]))]
           pc == IF chosen # <<>> THEN "load" ELSE Done(p)
<1>1. PICK l : l = run[p] /\ LocalOK(l, runs) /\ l.pc = "pending"
  BY Actor DEF ReadPending, At
<1>2. own \in SUBSET Keys /\ IsFiniteSet(own)
  BY KeyOfRun, FS_EmptySet, FS_Singleton
<1> HIDE DEF own, tickers
<1>3. chosen \in Seq(Keys)
  BY <1>2, ChosenType
<1>4. run' = [run EXCEPT ![p].own = FALSE, ![p].work = work, ![p].pc = pc]
  BY DEF ReadPending, own, tickers
<1> HIDE DEF chosen
<1>5. work \in Seq(Works) /\ (work = <<>> <=> chosen = <<>>)
  <2>1. ASSUME NEW i \in DOMAIN chosen
        PROVE  Row(chosen[i], Missing(perf[chosen[i]])) \in Works
    <3>1. chosen[i] \in Keys
      BY <1>3, <2>1, ElementOfSeq, LenProperties
    <3>2. Missing(perf[chosen[i]]) \subseteq Horizons
      BY DEF Missing
    <3> QED
      BY <3>1, <3>2, RowType
  <2>2. Len(chosen) \in Nat /\ DOMAIN chosen = 1..Len(chosen)
    BY <1>3, LenProperties
  <2>3. work \in [1..Len(chosen) -> Works]
    BY <2>1, <2>2
  <2>4. work \in Seq(Works) /\ Len(work) = Len(chosen)
    BY <2>2, <2>3, SeqDef, LenProperties
  <2> HIDE DEF work
  <2> QED
    BY <1>3, <2>4, EmptySeq
<1>6. pc = (IF work # <<>> THEN "load" ELSE Done(p))
  BY <1>5
<1>7. PICK v \in Seq(Works), c \in Pcs : v = work /\ c = pc
  BY <1>5 DEF Pcs, Done
<1> HIDE DEF work, pc
<1> DEFINE r == [l EXCEPT !.own = FALSE, !.work = v, !.pc = c]
<1>8. run' = [run EXCEPT ![p] = r] /\ runs' = runs
  BY <1>1, <1>4, <1>7 DEF ReadPending
<1>9. /\ r \in Locals
      /\ r.pc = c /\ r.key = l.key /\ r.id = l.id /\ r.text = l.text
      /\ r.work = v /\ r.market = l.market /\ r.own = FALSE
  BY <1>1 DEF Locals, LocalOK
<1>10. c = (IF v # <<>> THEN "load" ELSE IF l.key = Command THEN "idle" ELSE "log")
  BY <1>1, <1>6, <1>7 DEF Done, Key
<1> HIDE DEF r
<1>11. LocalOK(r, runs)
  BY <1>1, <1>9, <1>10 DEF LocalOK, Working
<1>12. threads' \subseteq Keys
  BY <1>1, <1>8, <1>9, <1>10, GraphOverTypes DEF ReadPending, Key
<1>13. Files'
  BY <1>12 DEF Types, Files, ReadPending, history
<1> QED
  BY <1>8, <1>11, <1>13, StepTypes

LEMMA LoadTypes ==
    ASSUME Types, NEW p \in Procs, NEW bench \in BOOLEAN, Load(p, bench)
    PROVE  Types'
<1>1. PICK l : l = run[p] /\ LocalOK(l, runs) /\ l.pc = "load"
  BY Actor DEF Load, At
<1>2. PICK m \in Markets : m = [day |-> today, bench |-> bench]
  <2>1. today \in Nat
    BY RecordsAssumption DEF Types, Files
  <2>2. [day |-> today, bench |-> bench] \in Markets
    BY <2>1 DEF Markets
  <2> QED
    BY <2>2
<1> DEFINE r == [l EXCEPT !.pc = "fill", !.market = m]
<1>3. run' = [run EXCEPT ![p] = r] /\ runs' = runs
  BY <1>1, <1>2 DEF Load
<1>4. /\ r \in Locals
      /\ r.pc = "fill" /\ r.key = l.key /\ r.id = l.id /\ r.text = l.text
      /\ r.work = l.work /\ r.market = m /\ r.own = l.own
  BY <1>1, <1>2 DEF Locals, LocalOK, Pcs
<1>5. faults' \in 0..MaxFaults
  BY RecordsAssumption, Actor DEF Load, Fault
<1>6. Files'
  BY <1>5, Actor, FilesKept DEF Load, files
<1> HIDE DEF r
<1>7. LocalOK(r, runs)
  BY <1>1, <1>2, <1>4 DEF LocalOK, Working
<1> QED
  BY <1>3, <1>6, <1>7, StepTypes

\* A process that goes on with the rows it has left.
LEMMA ContinueOK ==
    ASSUME Types, NEW p \in Procs, run[p].pc \in Working,
           NEW work \in Seq(Works), Continue(p, work), runs' = runs,
           work # <<>> /\ work[1].key[1] = run[p].work[1].key[1] => run[p].market \in Markets
    PROVE  \E r : /\ run' = [run EXCEPT ![p] = r] /\ LocalOK(r, runs)
                  /\ r.pc \in {"fill", "load", "pending", "idle", "log"}
                  /\ r.pc = "log" => Key(p) # Command
                  /\ r.key = run[p].key /\ r.id = run[p].id /\ r.own = run[p].own
                  /\ r.updates = run[p].updates /\ r.text = run[p].text
                  /\ r.work = work /\ r.market = IF work = <<>> THEN <<>> ELSE run[p].market
                  /\ r.pc \in Working <=> work # <<>>
                  /\ r.pc = "fill" => work[1].key[1] = run[p].work[1].key[1]
<1>1. PICK l : l = run[p] /\ LocalOK(l, runs) /\ l \in Locals
  BY Actor
<1>2. PICK c \in Pcs : c = IF work = <<>> THEN IF run[p].own THEN "pending" ELSE Done(p)
                     ELSE IF work[1].key[1] = run[p].work[1].key[1] THEN "fill" ELSE "load"
  BY DEF Pcs, Done
<1>3. PICK m \in {<<>>} \cup Markets : m = IF work = <<>> THEN <<>> ELSE l.market
  BY <1>1 DEF Locals
<1>4. PICK r : r = [l EXCEPT !.work = work, !.market = m, !.pc = c]
  OBVIOUS
<1>5. run' = [run EXCEPT ![p].work = work, ![p].market = IF work = <<>> THEN <<>> ELSE @,
                         ![p].pc = c]
  BY <1>2 DEF Continue
<1>6. run' = [run EXCEPT ![p] = r]
  BY <1>1, <1>3, <1>4, <1>5 DEF Locals
<1>7. /\ r \in Locals
      /\ r.pc = c /\ r.key = l.key /\ r.id = l.id /\ r.text = l.text /\ r.updates = l.updates
      /\ r.work = work /\ r.market = m /\ r.own = l.own
  BY <1>1, <1>2, <1>3, <1>4 DEF Locals
<1>8. /\ work = <<>> => c = (IF l.own THEN "pending" ELSE IF l.key = Command THEN "idle" ELSE "log")
      /\ work # <<>> => c \in {"fill", "load"}
      /\ c = "fill" => work # <<>> /\ work[1].key[1] = run[p].work[1].key[1]
  BY <1>1, <1>2 DEF Done, Key
<1>9. LocalOK(r, runs)
  BY <1>1, <1>3, <1>7, <1>8 DEF LocalOK, Working
<1> QED
  BY <1>1, <1>3, <1>6, <1>7, <1>8, <1>9 DEF Working, Key

LEMMA LoadFailsTypes ==
    ASSUME Types, NEW p \in Procs, LoadFails(p)
    PROVE  Types'
<1> DEFINE old == run[p].work
           others == {i \in DOMAIN old : old[i].key[1] # old[1].key[1]}
<1>1. PICK work : work = ElementsAt(old, others)
  OBVIOUS
<1>2. Continue(p, work) /\ runs' = runs /\ run[p].pc = "load" /\ GraphOver(p)
  BY <1>1 DEF LoadFails, At
<1>3. old \in Seq(Works)
  BY Actor DEF Locals
<1>4. work \in Seq(Works) /\ (work # <<>> => work[1].key[1] # old[1].key[1])
  <2>1. others \in SUBSET DOMAIN old
    OBVIOUS
  <2>2. PICK S \in SUBSET DOMAIN old : S = others
    BY <2>1
  <2> HIDE DEF others
  <2>3. /\ work \in Seq(Works) /\ Len(work) = Cardinality(S)
        /\ Cardinality(S) \in Nat
        /\ \A n \in 1..Cardinality(S) : Nth(S, n) \in S /\ work[n] = old[Nth(S, n)]
    BY <1>1, <1>3, <2>2, ElementsAtProperties
  <2>4. ASSUME work # <<>>
        PROVE  work[1] = old[Nth(S, 1)] /\ Nth(S, 1) \in others
    <3>1. Len(work) # 0
      BY <2>3, <2>4, EmptySeq
    <3> QED
      BY <2>2, <2>3, <3>1
  <2> QED
    BY <2>3, <2>4 DEF others
<1> HIDE DEF old
<1>5. PICK r : run' = [run EXCEPT ![p] = r] /\ LocalOK(r, runs)
               /\ (r.pc = "log" => Key(p) # Command)
  BY <1>2, <1>4, ContinueOK DEF Working, old
<1>6. threads' \subseteq Keys
  BY <1>2, <1>5, GraphOverTypes
<1>7. faults' \in 0..MaxFaults
  BY RecordsAssumption, Actor DEF LoadFails, Fault
<1>8. Files'
  BY <1>6, <1>7 DEF Types, Files, LoadFails, history
<1> QED
  BY <1>2, <1>5, <1>8, StepTypes

\* The row at the head of a process's rows.
LEMMA HeadOfWork ==
    ASSUME Types, NEW p \in Procs, run[p].pc \in Working
    PROVE  /\ run[p].work \in Seq(Works) /\ run[p].work # <<>>
           /\ Head(run[p].work) = run[p].work[1] /\ Head(run[p].work) \in Works
           /\ Tail(run[p].work) \in Seq(Works)
           /\ Len(Tail(run[p].work)) = Len(run[p].work) - 1
           /\ \A i \in 1..Len(Tail(run[p].work)) : Tail(run[p].work)[i] = run[p].work[i + 1]
<1>1. PICK s \in Seq(Works) : s = run[p].work /\ s # <<>>
  BY Actor DEF LocalOK, Locals
<1>2. Head(s) = s[1] /\ Head(s) \in Works /\ Tail(s) \in Seq(Works) /\ Len(Tail(s)) = Len(s) - 1
      /\ \A i \in 1..Len(Tail(s)) : Tail(s)[i] = s[i + 1]
  BY <1>1, HeadTailProperties
<1> QED
  BY <1>1, <1>2

\* What update_price_snapshots leaves in the table.
LEMMA FilledFacts ==
    ASSUME NEW table \in [Keys -> Rows], NEW k \in Keys, NEW e \in Price, NEW b \in Price
    PROVE  /\ Filled(table, k, e, b) \in [Keys -> Rows]
           /\ \A j \in Keys : j # k => Filled(table, k, e, b)[j] = table[j]
           /\ Filled(table, k, e, b)[k].run = table[k].run
           /\ Filled(table, k, e, b)[k].id = table[k].id
           /\ Filled(table, k, e, b)[k].entry = Coalesce(table[k].entry, e)
           /\ Filled(table, k, e, b)[k].bentry = Coalesce(table[k].bentry, b)
<1>1. PICK new : new = Filled(table, k, e, b)
  OBVIOUS
<1>2. PICK old \in Rows : old = table[k]
  OBVIOUS
<1>3. PICK x \in Price, y \in Price : x = Coalesce(old.entry, e) /\ y = Coalesce(old.bentry, b)
  BY <1>2 DEF Coalesce, Rows
<1>4. new = [table EXCEPT ![k].entry = Coalesce(@, e), ![k].bentry = Coalesce(@, b)]
  BY <1>1 DEF Filled
<1>5. new[k] = [old EXCEPT !.entry = x, !.bentry = y]
  BY <1>2, <1>3, <1>4 DEF Rows
<1>6. new[k] \in Rows /\ new[k].run = old.run /\ new[k].id = old.id
      /\ new[k].entry = x /\ new[k].bentry = y
  BY <1>2, <1>3, <1>5 DEF Rows
<1>7. \A j \in Keys : j # k => new[j] = table[j]
  BY <1>4
<1>8. new \in [Keys -> Rows]
  <2>1. DOMAIN new = Keys /\ new = [j \in Keys |-> new[j]]
    BY <1>4
  <2> QED
    BY <1>6, <1>7, <2>1
<1> QED
  BY <1>1, <1>2, <1>3, <1>6, <1>7, <1>8

\* What a step of Fill does to the row it is about.
LEMMA FillFacts ==
    ASSUME Types, NEW p \in Procs, Fill(p)
    PROVE  \E w \in Works, m \in Markets, e \in Price, b \in Price :
              /\ w = Head(run[p].work) /\ m = run[p].market /\ w.key \in Keys
              /\ e = EntryOf(w, m) /\ b = BenchEntryOf(w, m)
              /\ rows' = Filled(rows, w.key, e, b)
<1>1. run[p].pc = "fill"
  BY DEF Fill, At
<1>2. PICK w \in Works, m \in Markets : w = Head(run[p].work) /\ m = run[p].market
  BY <1>1, Actor, HeadOfWork DEF LocalOK, Working
<1>3. w.key \in Keys
  BY <1>2 DEF Works
<1>4. PICK e \in Price, b \in Price : e = EntryOf(w, m) /\ b = BenchEntryOf(w, m)
  BY <1>2, EntryTypes
<1>5. rows' = Filled(rows, w.key, e, b)
  BY <1>2, <1>4 DEF Fill
<1> QED
  BY <1>2, <1>3, <1>4, <1>5

LEMMA FillTypes ==
    ASSUME Types, NEW p \in Procs, Fill(p)
    PROVE  Types'
<1>1. PICK w \in Works, m \in Markets, e \in Price, b \in Price :
              w.key \in Keys /\ m = run[p].market /\ rows' = Filled(rows, w.key, e, b)
  BY FillFacts
<1>2. PICK k \in Keys : k = w.key
  BY <1>1
<1>3. rows \in [Keys -> Rows] /\ \A j \in Keys : rows[j].run <= runs
  BY DEF Types, Files
<1>4. rows' \in [Keys -> Rows] /\ \A j \in Keys : rows'[j].run <= runs
  <2>1. rows' = Filled(rows, k, e, b)
    BY <1>1, <1>2
  <2>2. /\ rows' \in [Keys -> Rows] /\ \A j \in Keys : j # k => rows'[j] = rows[j]
        /\ rows'[k].run = rows[k].run
    BY <1>1, <1>2, <1>3, <2>1, FilledFacts
  <2> QED
    BY <1>2, <1>3, <2>2
<1>5. Files'
  BY <1>4 DEF Types, Files, Fill, files
<1>6. "measure" \in Pcs /\ run[p].pc = "fill" /\ run[p].market \in Markets
  BY <1>1 DEF Pcs, Fill, At
<1>7. Goto(p, "measure") /\ runs' = runs
  BY DEF Fill
<1> QED
  BY <1>5, <1>6, <1>7, GotoTypes DEF Working

LEMMA MeasureTypes ==
    ASSUME Types, NEW p \in Procs, Measure(p)
    PROVE  Types'
<1>1. run[p].pc = "measure" /\ run[p].market \in Markets
  BY Actor DEF Measure, At, LocalOK
<1>2. PICK w \in Works, m \in Markets : w = Head(run[p].work) /\ m = run[p].market
  BY <1>1, HeadOfWork DEF Working
<1>3. PICK k \in Keys : k = w.key
  BY <1>2 DEF Works
<1>4. perf' \in [Keys -> [Horizons -> Points]]
  <2>1. perf \in [Keys -> [Horizons -> Points]]
    BY DEF Types, Files
  <2>2. Measured(perf[k], w, m) \in [Horizons -> Points]
    BY <1>2, <1>3, <2>1, PointTypes
  <2>3. perf' = [perf EXCEPT ![k] = Measured(@, w, m)]
    BY <1>2, <1>3 DEF Measure
  <2> QED
    BY <1>3, <2>1, <2>2, <2>3
<1>5. PICK work \in Seq(Works) : work = Tail(run[p].work)
  BY <1>1, HeadOfWork DEF Working
<1>6. Continue(p, work) /\ runs' = runs /\ GraphOver(p)
  BY <1>5 DEF Measure
<1>7. PICK r : run' = [run EXCEPT ![p] = r] /\ LocalOK(r, runs)
               /\ (r.pc = "log" => Key(p) # Command)
  BY <1>1, <1>5, <1>6, ContinueOK DEF Working
<1>8. threads' \subseteq Keys
  BY <1>6, <1>7, GraphOverTypes
<1>9. Files'
  BY <1>4, <1>8 DEF Types, Files, Measure
<1> QED
  BY <1>6, <1>7, <1>9, StepTypes

LEMMA AfterGraphTypes ==
    ASSUME Types, NEW p \in Procs,
           LogState(p) \/ ScanLog(p) \/ AppendLog(p)
    PROVE  Types'
<1>1. Key(p) \in Keys /\ run[p].id \in 1..runs /\ runs \in Nat
      /\ run[p].pc \in {"log", "scan", "append"}
  BY KeyOfRun, Actor, KeysAssumption DEF LogState, ScanLog, AppendLog, At, Working
<1>2. {"scan", "append", "clear"} \subseteq Pcs
  BY DEF Pcs
<1>3. CASE LogState(p)
  <2>1. Files'
    BY <1>1, <1>3 DEF Types, Files, LogState, history
  <2> QED
    BY <1>1, <1>2, <1>3, <2>1, KeysAssumption, GotoTypes DEF LogState, Working
<1>4. CASE ScanLog(p)
  <2>1. Files'
    BY <1>4, Actor, FilesKept DEF ScanLog, files
  <2>2. PICK c \in {"clear", "append"} : Goto(p, c) /\ runs' = runs
    BY <1>4 DEF ScanLog
  <2> QED
    BY <1>1, <1>2, <2>1, <2>2, KeysAssumption, GotoTypes DEF Working
<1>5. CASE AppendLog(p)
  <2>1. PICK e \in Entries : e = Entry(Key(p), run[p].id) /\ e.run <= runs
    <3>1. Key(p) \in LogKeys /\ run[p].id \in Nat /\ 0 \in 0..HoldDays
      BY <1>1, DayFacts, RecordsAssumption
    <3>2. Entry(Key(p), run[p].id) \in Entries
      BY <3>1 DEF Entry, Entries
    <3> QED
      BY <1>1, <3>2 DEF Entry
  <2>2. log \in Seq(Entries) /\ SoFar(log, runs) /\ log' = Append(log, e)
    BY <1>5, <2>1 DEF Types, Files, AppendLog
  <2>3. log' \in Seq(Entries) /\ SoFar(log', runs)
    BY <2>1, <2>2, AppendProperties, LenProperties DEF SoFar
  <2>4. Files'
    BY <1>5, <2>3 DEF Types, Files, AppendLog, history
  <2> QED
    BY <1>1, <1>2, <1>5, <2>4, KeysAssumption, GotoTypes DEF AppendLog, Working
<1> QED
  BY <1>3, <1>4, <1>5

LEMMA EndTypes ==
    ASSUME Types, NEW p \in Procs, ClearCheckpoint(p) \/ BeginResolve(p)
    PROVE  Types'
<1>1. PICK r : run' = [run EXCEPT ![p] = r] /\ LocalOK(r, runs) /\ runs' = runs
  BY Actor, IdleOK DEF ClearCheckpoint, BeginResolve
<1>2. Files'
  BY DEF Types, Files, ClearCheckpoint, BeginResolve, files, history
<1> QED
  BY <1>1, <1>2, StepTypes

\* record_analysis gives a new row the next id, an old one its own.
LEMMA RecordIds ==
    ASSUME Types, Ids, NEW k \in Keys, NEW r \in Nat, rows' = Recorded(rows, k, r)
    PROVE  Ids'
<1>1. rows \in [Keys -> Rows] /\ Recordings(rows) \in Nat /\ Recordings(rows') \in Nat
  BY RecordingsType DEF Types, Files
<1>2. /\ \A j \in Keys : j # k => rows'[j] = rows[j]
      /\ rows'[k].id = IF rows[k].id # 0 THEN rows[k].id ELSE 1 + Recordings(rows)
  BY <1>1, RecordedFacts
<1>3. \A j \in Keys : rows[j].id \in Nat /\ rows[j].id <= Recordings(rows)
  BY <1>1 DEF Ids, Rows
<1>4. IdsDiffer'
  BY <1>1, <1>2, <1>3 DEF Ids, IdsDiffer
<1>5. Recordings(rows') = IF rows[k].id # 0 THEN Recordings(rows) ELSE 1 + Recordings(rows)
  <2> DEFINE S == {j \in Keys : rows[j].id # 0}
  <2>1. {j \in Keys : rows'[j].id # 0} = S \cup {k}
    BY <1>1, <1>2
  <2>2. IsFiniteSet(S)
    BY KeysAssumption, FS_Subset
  <2>3. k \in S <=> rows[k].id # 0
    OBVIOUS
  <2> HIDE DEF S
  <2>4. Cardinality(S \cup {k}) = IF k \in S THEN Cardinality(S) ELSE Cardinality(S) + 1
    BY <2>2, FS_AddElement
  <2>5. Recordings(rows) = Cardinality(S) /\ Recordings(rows') = Cardinality(S \cup {k})
    BY <2>1 DEF Recordings, S
  <2> QED
    BY <1>1, <2>3, <2>4, <2>5
<1>6. \A j \in Keys : rows'[j].id <= Recordings(rows')
  BY <1>1, <1>2, <1>3, <1>5
<1> QED
  BY <1>4, <1>6 DEF Ids

LEMMA FillIds ==
    ASSUME Types, Ids, NEW p \in Procs, Fill(p)
    PROVE  Ids'
<1>1. PICK w \in Works, m \in Markets, e \in Price, b \in Price :
              w.key \in Keys /\ m = run[p].market /\ rows' = Filled(rows, w.key, e, b)
  BY FillFacts
<1>2. PICK k \in Keys : k = w.key
  BY <1>1
<1>3. rows \in [Keys -> Rows] /\ rows' = Filled(rows, k, e, b)
  BY <1>1, <1>2 DEF Types, Files
<1>4. \A j \in Keys : j # k => rows'[j] = rows[j]
  BY <1>1, <1>2, <1>3, FilledFacts
<1>5. rows'[k].id = rows[k].id
  BY <1>1, <1>2, <1>3, FilledFacts
<1>6. \A j \in Keys : rows'[j].id = rows[j].id
  BY <1>4, <1>5
<1>7. Recordings(rows') = Recordings(rows)
  <2>1. {j \in Keys : rows'[j].id # 0} = {j \in Keys : rows[j].id # 0}
    BY <1>6
  <2> QED
    BY <2>1 DEF Recordings
<1> QED
  BY <1>6, <1>7 DEF Ids, IdsDiffer

TypesInv == Types /\ Ids

LEMMA NextTypes == TypesInv /\ [Next]_vars => TypesInv'
<1> SUFFICES ASSUME Types, Ids, [Next]_vars
             PROVE  Types' /\ Ids'
  BY DEF TypesInv
<1>1. CASE rows' = rows
  <2>1. Ids'
    BY <1>1 DEF Ids, IdsDiffer, Recordings
  <2>2. CASE Tick
    BY <2>1, <2>2, TickTypes
  <2>3. ASSUME NEW p \in Procs, NEW k \in Keys, Begin(p, k)
        PROVE  Types'
    BY <2>3, BeginTypes
  <2>4. ASSUME NEW p \in Procs, Progress(p)
        PROVE  Types'
    BY <2>4, ReadLogTypes, WriteTmpTypes, ReplaceTypes, RecordTypes, RecordFailsTypes,
       ReadOwnTypes, ReadPendingTypes, LoadTypes, LoadFailsTypes, FillTypes, MeasureTypes,
       AfterGraphTypes, EndTypes DEF Progress
  <2>5. ASSUME NEW p \in Procs, Die(p)
        PROVE  Types'
    BY <2>5, DieTypes
  <2>6. CASE UNCHANGED vars
    <3>1. Files'
      BY <2>6, FilesKept DEF vars, files, Types, Files
    <3> QED
      BY <2>1, <2>6, <3>1 DEF vars, Types
  <2> QED
    BY <2>1, <2>2, <2>3, <2>4, <2>5, <2>6 DEF Next
<1>2. CASE rows' # rows
  <2>1. PICK p \in Procs : Record(p) \/ Fill(p)
    BY <1>2 DEF Next, vars, history, Tick, Begin, Die, Progress, ReadLog, WriteTmp, Replace,
       RecordFails, ReadOwn, ReadPending, Load, LoadFails, Measure, BeginResolve, LogState,
       ScanLog, AppendLog, ClearCheckpoint
  <2>2. CASE Record(p)
    <3>1. PICK k \in Keys, r \in Nat : rows' = Recorded(rows, k, r)
      <4>1. Key(p) \in Keys
        BY <2>2, KeyOfRun DEF Record, At, Working
      <4>2. run[p].id \in Nat
        BY Actor DEF Locals
      <4> QED
        BY <2>2, <4>1, <4>2 DEF Record
    <3> QED
      BY <2>2, <3>1, RecordTypes, RecordIds
  <2>3. CASE Fill(p)
    BY <2>3, FillTypes, FillIds
  <2> QED
    BY <2>1, <2>2, <2>3
<1> QED
  BY <1>1, <1>2

LEMMA TypesAlways == Spec => []TypesInv
<1>1. Init => TypesInv
  BY InitTypes DEF TypesInv
<1> QED
  BY <1>1, NextTypes, PTL DEF Spec

LEMMA TypesImplyTypeOK == TypesInv => TypeOK
<1> SUFFICES ASSUME Types
             PROVE  TypeOK
  BY DEF TypesInv
<1>1. \A i \in DOMAIN log : log[i].run \in 0..runs /\ log[i].days \in 0..HoldDays
  <2>1. log \in Seq(Entries) /\ runs \in Nat /\ \A i \in DOMAIN log : log[i].run <= runs
    BY RecordsAssumption DEF Types, Files, SoFar
  <2>2. \A i \in DOMAIN log : log[i].run \in Nat /\ log[i].days \in 0..HoldDays
    BY <2>1, EntriesOf
  <2> QED
    BY <2>1, <2>2
<1>2. ASSUME tmp # <<>>
      PROVE  \A i \in DOMAIN tmp[1] : tmp[1][i].run \in 0..runs
  <2>1. tmp[1] \in Seq(Entries) /\ runs \in Nat /\ \A i \in DOMAIN tmp[1] : tmp[1][i].run <= runs
    BY <1>2, RecordsAssumption DEF Types, Files, SoFar
  <2>2. \A i \in DOMAIN tmp[1] : tmp[1][i].run \in Nat
    BY <2>1, EntriesOf
  <2> QED
    BY <2>1, <2>2
<1>3. \A k \in Keys : rows[k].run \in 0..runs /\ rows[k].entry \in Price
  BY RecordsAssumption DEF Types, Files, Rows
<1>4. \A k \in Keys, h \in Horizons : perf[k][h].to \in Price
  BY DEF Types, Files, Points
<1> QED
  BY <1>1, <1>2, <1>3, <1>4 DEF Types, Files, TypeOK

\* What the steps from the graph to its end have in common.
GraphStep(p) ==
    \/ Record(p) \/ RecordFails(p) \/ ReadOwn(p) \/ ReadPending(p)
    \/ \E bench \in BOOLEAN : Load(p, bench)
    \/ LoadFails(p) \/ Fill(p) \/ Measure(p)

LEMMA GraphStepFacts ==
    ASSUME Types, NEW p \in Procs, GraphStep(p)
    PROVE  /\ UNCHANGED <<today, log, tmp, states, runs, raced, slept>>
           /\ \A q \in Procs \ {p} : run'[q] = run[q]
           /\ run[p].pc \in {"graph", "read", "load", "fill", "measure", "pending"}
           /\ Key(p)' = Key(p) /\ run'[p].id = run[p].id
           /\ \/ run'[p].pc \in {"read", "load", "fill", "measure", "pending", "log"}
              \/ Key(p) = Command /\ run'[p].pc = "idle"
           /\ faults \in Nat /\ faults' \in Nat /\ faults <= faults'
<1>1. PICK l \in Locals : l = run[p]
  BY Actor
<1>2. faults \in Nat /\ DOMAIN run = Procs
  BY RecordsAssumption DEF Types, Files
<1>3. CASE Record(p) \/ RecordFails(p) \/ ReadOwn(p) \/ Fill(p)
  BY <1>1, <1>2, <1>3 DEF Record, RecordFails, ReadOwn, Fill, At, Key, Fault, Goto, Locals,
     files, history
<1>4. ASSUME NEW bench \in BOOLEAN, Load(p, bench)
      PROVE  /\ UNCHANGED <<today, log, tmp, states, runs, raced, slept>>
             /\ \A q \in Procs \ {p} : run'[q] = run[q]
             /\ run[p].pc = "load" /\ run'[p].pc = "fill"
             /\ run'[p].key = run[p].key /\ run'[p].id = run[p].id
             /\ faults' \in Nat /\ faults <= faults'
  BY <1>1, <1>2, <1>4 DEF Load, At, Fault, Locals, files, history
<1>5. CASE ReadPending(p)
  <2>1. PICK work, c : /\ run' = [run EXCEPT ![p].own = FALSE, ![p].work = work, ![p].pc = c]
                       /\ c = "load" \/ c = Done(p)
    BY <1>5 DEF ReadPending
  <2>2. run'[p].pc = c /\ run'[p].key = l.key /\ run'[p].id = l.id
        /\ \A q \in Procs \ {p} : run'[q] = run[q]
    BY <1>1, <1>2, <2>1 DEF Locals
  <2>3. UNCHANGED <<today, log, tmp, states, runs, raced, slept, faults>> /\ run[p].pc = "pending"
    BY <1>5 DEF ReadPending, At
  <2> QED
    BY <1>1, <1>2, <2>1, <2>2, <2>3 DEF Done, Key
<1>6. ASSUME NEW work, Continue(p, work)
      PROVE  /\ \A q \in Procs \ {p} : run'[q] = run[q]
             /\ run'[p].key = run[p].key /\ run'[p].id = run[p].id
             /\ run'[p].pc \in {"pending", "fill", "load", Done(p)}
  <2>1. PICK m, c : /\ run' = [run EXCEPT ![p].work = work, ![p].market = m, ![p].pc = c]
                    /\ c \in {"pending", "fill", "load", Done(p)}
    BY <1>6 DEF Continue
  <2> QED
    BY <1>1, <1>2, <2>1 DEF Locals
<1>7. CASE LoadFails(p)
  <2>1. PICK work : Continue(p, work)
    BY <1>7 DEF LoadFails
  <2> QED
    BY <1>1, <1>2, <1>6, <1>7, <2>1 DEF LoadFails, At, Done, Key, Fault
<1>8. CASE Measure(p)
  <2>1. PICK work : Continue(p, work)
    BY <1>8 DEF Measure
  <2> QED
    BY <1>1, <1>2, <1>6, <1>8, <2>1 DEF Measure, At, Done, Key
<1> QED
  BY <1>1, <1>2, <1>3, <1>4, <1>5, <1>7, <1>8 DEF GraphStep, Key

-----------------------------------------------------------------------------
(* The decision log.                                                       *)

WithinCap(text) == MaxEntries > 0 => Cardinality(Resolved(text)) <= MaxEntries

\* A rewrite resolves entries of its own ticker whose outcome is known; as long
\* as nothing raced, what it holds is a rewrite of the log as it is, and who is
\* about to append has no pending entry there.
LogProc(p) ==
    /\ run[p].pc \in {"rewrite", "write", "replace"} =>
          \A k \in DOMAIN run[p].updates : Resolvable(k) /\ k[1] = Key(p)[1]
    /\ At(p, "write") =>
          /\ WithinCap(run[p].text)
          /\ ~raced => run[p].text = Rewritten(log, run[p].updates)
    /\ At(p, "append") /\ ~raced => ~HasPending(log, Key(p))

\* The outcomes that somebody about to rename brings, or a process that died there.
Known(u) ==
    /\ \A k \in DOMAIN u : Resolvable(k)
    /\ faults = 0 => \E q \in Procs : At(q, "replace") /\ \A k \in DOMAIN u : k[1] = Key(q)[1]

TmpOK ==
    tmp # <<>> =>
        /\ WithinCap(tmp[1])
        /\ ~raced /\ (\E q \in Procs : At(q, "replace")) =>
              \E u \in Updates : Known(u) /\ tmp[1] = Rewritten(log, u)

LogInv ==
    /\ WithinCap(log)
    /\ OnePendingEntry
    /\ \A p \in Procs : LogProc(p)
    /\ TmpOK

\* A step that leaves the log alone and holds nothing back from a rename.
LEMMA LogKept ==
    ASSUME TypesInv, LogInv, NEW p \in Procs, UNCHANGED <<today, log, tmp, raced>>,
           \A q \in Procs \ {p} : run'[q] = run[q],
           LogProc(p)', At(p, "replace")' => At(p, "replace"),
           faults' = 0 => faults = 0 /\ (At(p, "replace") => At(p, "replace")' /\ Key(p)' = Key(p))
    PROVE  LogInv'
<1>1. WithinCap(log)' /\ OnePendingEntry'
  BY DEF LogInv, WithinCap, OnePendingEntry
<1>2. \A k : Resolvable(k)' <=> Resolvable(k)
  BY DEF Resolvable
<1>3. ASSUME NEW q \in Procs
      PROVE  LogProc(q)'
  <2>1. CASE q # p
    <3>1. run'[q] = run[q] /\ LogProc(q)
      BY <2>1 DEF LogInv
    <3> QED
      BY <1>2, <3>1 DEF LogProc, At, Key, WithinCap
  <2> QED
    BY <2>1
<1>4. \A q \in Procs : At(q, "replace")' => At(q, "replace")
  BY DEF At
<1>5. ASSUME NEW u, Known(u)
      PROVE  Known(u)'
  <2>1. faults' = 0 => faults = 0
    OBVIOUS
  <2>2. ASSUME faults' = 0
        PROVE  \E q \in Procs : At(q, "replace")' /\ \A k \in DOMAIN u : k[1] = Key(q)'[1]
    <3>1. PICK q \in Procs : At(q, "replace") /\ \A k \in DOMAIN u : k[1] = Key(q)[1]
      BY <1>5, <2>2 DEF Known
    <3>2. At(q, "replace")' /\ Key(q)' = Key(q)
      BY <2>2, <3>1 DEF At, Key
    <3> QED
      BY <3>1, <3>2
  <2> QED
    BY <1>2, <1>5, <2>2 DEF Known
<1>6. TmpOK'
  BY <1>4, <1>5 DEF LogInv, TmpOK, WithinCap
<1> QED
  BY <1>1, <1>3, <1>6 DEF LogInv

LEMMA InitLog == Init => LogInv
<1> SUFFICES ASSUME Init
             PROVE  LogInv
  OBVIOUS
<1>1. WithinCap(log) /\ OnePendingEntry
  BY PriorLogAssumption DEF Init, WithinCap, OnePendingEntry
<1>2. \A p \in Procs : LogProc(p)
  BY DEF Init, Idle, LogProc, At
<1>3. TmpOK
  BY DEF Init, TmpOK
<1> QED
  BY <1>1, <1>2, <1>3 DEF LogInv

\* Time only adds sessions.
LEMMA TickLog ==
    ASSUME TypesInv, LogInv, Tick
    PROVE  LogInv'
<1>1. log' = log /\ tmp' = tmp /\ run' = run /\ raced' = raced /\ faults' = faults
  BY DEF Tick, files
<1>2. today \in Nat /\ today' \in Nat /\ today <= today'
  BY RecordsAssumption DEF TypesInv, Types, Files, Tick
<1>3. \A k \in LogKeys : Resolvable(k) => Resolvable(k)'
  BY <1>2, ResolvableLater
<1>4. ASSUME NEW p \in Procs
      PROVE  LogProc(p)'
  <2>1. \A k \in DOMAIN run[p].updates : k \in LogKeys
    <3>1. run[p].updates \in Updates
      BY Actor DEF TypesInv, Locals
    <3> QED
      BY <3>1, UpdateFacts
  <2>2. LogProc(p)
    BY DEF LogInv
  <2> QED
    BY <1>1, <1>3, <2>1, <2>2 DEF LogProc, At, Key, WithinCap
<1>5. ASSUME NEW u \in Updates, Known(u)
      PROVE  Known(u)'
  <2>1. DOMAIN u \subseteq LogKeys
    BY <1>5, UpdateFacts
  <2> QED
    BY <1>1, <1>3, <1>5, <2>1 DEF Known, At, Key
<1>6. TmpOK'
  BY <1>1, <1>5 DEF LogInv, TmpOK, WithinCap, At
<1> QED
  BY <1>1, <1>4, <1>6 DEF LogInv, WithinCap, OnePendingEntry

LEMMA BeginLog ==
    ASSUME TypesInv, LogInv, NEW p \in Procs, NEW k \in Keys, Begin(p, k)
    PROVE  LogInv'
<1>1. UNCHANGED <<today, log, tmp, raced, faults>> /\ At(p, "idle") /\ DOMAIN run = Procs
  BY DEF Begin, files, TypesInv, Types
<1> DEFINE due == {x \in PendingOf(log, k[1]) : Resolvable(x)}
<1>2. PICK u, c : /\ u = [j \in due |-> Holding(j)] /\ c \in {"graph", "rewrite"}
                  /\ run' = [run EXCEPT ![p] = [Idle EXCEPT !.key = k, !.id = runs + 1,
                                                  !.updates = u, !.pc = c]]
  BY DEF Begin
<1>3. run'[p].updates = u /\ run'[p].pc = c /\ run'[p].key = k
      /\ \A q \in Procs \ {p} : run'[q] = run[q]
  BY <1>1, <1>2 DEF Idle
<1>4. \A x \in DOMAIN u : Resolvable(x) /\ x[1] = k[1]
  BY <1>2 DEF PendingOf
<1>5. LogProc(p)'
  BY <1>1, <1>2, <1>3, <1>4 DEF LogProc, At, Key, Resolvable
<1> QED
  BY <1>1, <1>2, <1>3, <1>5, LogKept DEF At

LEMMA ReadLogLog ==
    ASSUME TypesInv, LogInv, NEW p \in Procs, ReadLog(p)
    PROVE  LogInv'
<1>1. UNCHANGED <<today, log, tmp, raced, faults>> /\ At(p, "rewrite") /\ DOMAIN run = Procs
  BY DEF ReadLog, files, TypesInv, Types
<1>2. PICK l \in Locals : l = run[p]
  BY Actor DEF TypesInv
<1>3. PICK x : x = Rewritten(log, l.updates)
  OBVIOUS
<1>4. run' = [run EXCEPT ![p] = [l EXCEPT !.pc = "write", !.text = x]]
  BY <1>2, <1>3 DEF ReadLog
<1>5. /\ run'[p].updates = l.updates /\ run'[p].pc = "write" /\ run'[p].key = l.key
      /\ run'[p].text = x
      /\ \A q \in Procs \ {p} : run'[q] = run[q]
  BY <1>1, <1>2, <1>4 DEF Locals
<1>6. WithinCap(x)
  <2>1. log \in Seq(Entries) /\ l.updates \in Updates
    BY <1>2 DEF TypesInv, Types, Files, Locals
  <2> QED
    BY <1>3, <2>1, RewrittenProperties DEF WithinCap
<1>7. \A k \in DOMAIN l.updates : Resolvable(k) /\ k[1] = l.key[1]
  BY <1>1, <1>2 DEF LogInv, LogProc, At, Key
<1>8. \A k : Resolvable(k)' <=> Resolvable(k)
  BY <1>1 DEF Resolvable
<1>9. LogProc(p)'
  BY <1>1, <1>3, <1>5, <1>6, <1>7, <1>8 DEF LogProc, At, Key, WithinCap
<1> QED
  BY <1>1, <1>5, <1>9, LogKept DEF At

LEMMA WriteTmpLog ==
    ASSUME TypesInv, LogInv, NEW p \in Procs, WriteTmp(p)
    PROVE  LogInv'
<1>1. UNCHANGED <<today, log, raced, faults>> /\ At(p, "write") /\ DOMAIN run = Procs
  BY DEF WriteTmp, TypesInv, Types
<1>2. PICK l \in Locals : l = run[p]
  BY Actor DEF TypesInv
<1>3. tmp' = <<l.text>> /\ tmp'[1] = l.text /\ run' = [run EXCEPT ![p].pc = "replace"]
  BY <1>2 DEF WriteTmp, Goto
<1>4. /\ run'[p].updates = l.updates /\ run'[p].pc = "replace" /\ run'[p].key = l.key
      /\ \A q \in Procs \ {p} : run'[q] = run[q]
  BY <1>1, <1>2, <1>3 DEF Locals
<1>5. /\ WithinCap(l.text) /\ (~raced => l.text = Rewritten(log, l.updates))
      /\ \A k \in DOMAIN l.updates : Resolvable(k) /\ k[1] = l.key[1]
  BY <1>1, <1>2 DEF LogInv, LogProc, At, Key
<1>6. \A k : Resolvable(k)' <=> Resolvable(k)
  BY <1>1 DEF Resolvable
<1>7. Known(l.updates)' /\ l.updates \in Updates
  BY <1>2, <1>4, <1>5, <1>6 DEF Known, At, Key, Locals
<1>8. TmpOK'
  BY <1>1, <1>3, <1>5, <1>7 DEF TmpOK, WithinCap
<1>9. ASSUME NEW q \in Procs
      PROVE  LogProc(q)'
  <2>1. CASE q = p
    BY <1>4, <1>5, <1>6, <2>1 DEF LogProc, At, Key
  <2>2. CASE q # p
    <3>1. run'[q] = run[q] /\ LogProc(q)
      BY <1>4, <2>2 DEF LogInv
    <3> QED
      BY <1>1, <1>6, <3>1 DEF LogProc, At, Key, WithinCap
  <2> QED
    BY <2>1, <2>2
<1> QED
  BY <1>1, <1>8, <1>9 DEF LogInv, WithinCap, OnePendingEntry

\* What the log becomes when a text that was read from it is renamed over it.
LEMMA RenamedLog ==
    ASSUME TypesInv, LogInv, NEW p \in Procs, Replace(p), tmp # <<>>, ~raced
    PROVE  /\ \A m, n \in DOMAIN log' :
                 IsPending(log'[m]) /\ IsPending(log'[n]) /\ log'[m].key = log'[n].key => m = n
           /\ \A k : HasPending(log', k) => HasPending(log, k)
           /\ \A i \in DOMAIN log : IsPending(log[i]) =>
                 \/ \E j \in DOMAIN log' : log'[j] = log[i]
                 \/ \E q \in Procs :
                       /\ At(q, "replace") /\ Resolvable(log[i].key)
                       /\ faults = 0 => log[i].key[1] = Key(q)[1]
<1>1. log' = tmp[1] /\ At(p, "replace") /\ log \in Seq(Entries)
  BY DEF Replace, TypesInv, Types, Files
<1>2. PICK u \in Updates : Known(u) /\ tmp[1] = Rewritten(log, u)
  BY <1>1 DEF LogInv, TmpOK
<1>3. PICK R : R = Rewritten(log, u)
  OBVIOUS
<1>4. PICK pos \in [DOMAIN Rewritten(log, u) -> DOMAIN log] :
         /\ \A i, j \in DOMAIN Rewritten(log, u) : pos[i] = pos[j] => i = j
         /\ \A i \in DOMAIN Rewritten(log, u) :
               /\ Rewritten(log, u)[i].key = log[pos[i]].key
               /\ Rewritten(log, u)[i].run = log[pos[i]].run
               /\ IsPending(Rewritten(log, u)[i]) => Rewritten(log, u)[i] = log[pos[i]]
  BY <1>1, <1>2, RewrittenProperties
<1>5. /\ \A i, j \in DOMAIN R : pos[i] = pos[j] => i = j
      /\ \A i \in DOMAIN R : /\ pos[i] \in DOMAIN log
                             /\ IsPending(R[i]) => R[i] = log[pos[i]]
  BY <1>3, <1>4
<1>6. \A i \in DOMAIN log : IsPending(log[i]) /\ log[i].key \notin DOMAIN u =>
          \E n \in DOMAIN R : R[n] = log[i]
  BY <1>1, <1>2, <1>3, RewrittenProperties
<1>7. log' = R
  BY <1>1, <1>2, <1>3
<1>8. ASSUME NEW m \in DOMAIN R, NEW n \in DOMAIN R,
             IsPending(R[m]), IsPending(R[n]), R[m].key = R[n].key
      PROVE  m = n
  <2>1. pos[m] = pos[n]
    BY <1>5, <1>8 DEF LogInv, OnePendingEntry
  <2> QED
    BY <1>5, <1>8, <2>1
<1>9. ASSUME NEW k, HasPending(R, k)
      PROVE  HasPending(log, k)
  BY <1>5, <1>9 DEF HasPending
<1>10. ASSUME NEW i \in DOMAIN log, IsPending(log[i]), log[i].key \in DOMAIN u
       PROVE  \E q \in Procs :
                 /\ At(q, "replace") /\ Resolvable(log[i].key)
                 /\ faults = 0 => log[i].key[1] = Key(q)[1]
  <2>1. Resolvable(log[i].key)
    BY <1>2, <1>10 DEF Known
  <2>2. CASE faults = 0
    <3>1. PICK q \in Procs : At(q, "replace") /\ \A k \in DOMAIN u : k[1] = Key(q)[1]
      BY <1>2, <2>2 DEF Known
    <3> QED
      BY <1>10, <2>1, <3>1
  <2> QED
    BY <1>1, <2>1, <2>2
<1> QED
  BY <1>6, <1>7, <1>8, <1>9, <1>10

\* The step of whoever is about to write what the log was when it was read.
LEMMA RacesSeen ==
    ASSUME NEW p \in Procs, LogChanged(p), ~raced'
    PROVE  /\ ~raced
           /\ \A q \in Procs \ {p} : /\ ~At(q, "write") /\ ~At(q, "replace")
                                     /\ At(q, "append") => Key(q) # Key(p)
BY DEF LogChanged, At

LEMMA ReplaceLog ==
    ASSUME TypesInv, LogInv, NEW p \in Procs, Replace(p)
    PROVE  LogInv'
<1>1. UNCHANGED <<today, faults>> /\ At(p, "replace") /\ DOMAIN run = Procs /\ tmp' = <<>>
  BY DEF Replace, TypesInv, Types
<1>2. /\ run'[p].pc \in {"idle", "graph"}
      /\ \A q \in Procs \ {p} : run'[q] = run[q]
  <2>1. PICK r : /\ run' = [run EXCEPT ![p] = r]
                 /\ \/ r = Idle
                    \/ r = [Idle EXCEPT !.pc = "graph", !.key = Key(p), !.id = run[p].id]
    BY DEF Replace
  <2>2. r.pc \in {"idle", "graph"}
    <3>1. Idle.pc = "idle" /\ [Idle EXCEPT !.pc = "graph", !.key = Key(p), !.id = run[p].id].pc = "graph"
      BY DEF Idle
    <3> QED
      BY <2>1, <3>1
  <2> QED
    BY <1>1, <2>1, <2>2
<1>3. \A k : Resolvable(k)' <=> Resolvable(k)
  BY <1>1 DEF Resolvable
<1>4. CASE tmp = <<>>
  <2>1. log' = log /\ raced' = raced
    BY <1>4 DEF Replace
  <2>2. ASSUME NEW q \in Procs
        PROVE  LogProc(q)'
    BY <1>2, <1>3, <2>1 DEF LogInv, LogProc, At, Key, WithinCap
  <2> QED
    BY <1>1, <2>1, <2>2 DEF LogInv, TmpOK, WithinCap, OnePendingEntry
<1>5. CASE tmp # <<>>
  <2>1. log' = tmp[1] /\ LogChanged(p)
    BY <1>5 DEF Replace
  <2>2. WithinCap(log)'
    BY <1>5, <2>1 DEF LogInv, TmpOK, WithinCap
  <2>3. OnePendingEntry'
    BY <1>5, <2>1, RacesSeen, RenamedLog DEF OnePendingEntry
  <2>4. ASSUME NEW q \in Procs
        PROVE  LogProc(q)'
    <3>1. CASE q = p
      BY <1>2, <3>1 DEF LogProc, At
    <3>2. CASE q # p
      <4>1. run'[q] = run[q] /\ LogProc(q)
        BY <1>2, <3>2 DEF LogInv
      <4>2. ASSUME ~raced'
            PROVE  /\ ~At(q, "write")
                   /\ At(q, "append") => ~HasPending(log', Key(q))
        <5>1. ~raced /\ ~At(q, "write")
          BY <2>1, <3>2, <4>2, RacesSeen
        <5>2. HasPending(log', Key(q)) => HasPending(log, Key(q))
          BY <1>5, <5>1, RenamedLog
        <5> QED
          BY <4>1, <5>1, <5>2 DEF LogProc
      <4> QED
        BY <1>3, <4>1, <4>2 DEF LogProc, At, Key, WithinCap
    <3> QED
      BY <3>1, <3>2
  <2> QED
    BY <1>1, <2>2, <2>3, <2>4 DEF LogInv, TmpOK
<1> QED
  BY <1>4, <1>5

LEMMA AppendLogLog ==
    ASSUME TypesInv, LogInv, NEW p \in Procs, AppendLog(p)
    PROVE  LogInv'
<1>1. /\ UNCHANGED <<today, faults, tmp>> /\ At(p, "append") /\ DOMAIN run = Procs
      /\ LogChanged(p)
  BY DEF AppendLog, TypesInv, Types
<1>2. PICK l \in Locals : l = run[p]
  BY Actor DEF TypesInv
<1>3. run'[p].pc = "clear" /\ \A q \in Procs \ {p} : run'[q] = run[q]
  BY <1>1, <1>2 DEF AppendLog, Goto, Locals
<1>4. \A k : Resolvable(k)' <=> Resolvable(k)
  BY <1>1 DEF Resolvable
<1>5. PICK e \in Entries : e = Entry(Key(p), run[p].id) /\ IsPending(e) /\ e.key = Key(p)
  <2>1. Key(p) \in LogKeys /\ run[p].id \in Nat /\ 0 \in 0..HoldDays
    BY <1>1, <1>2, KeyOfRun, DayFacts, RecordsAssumption DEF TypesInv, At, Working, Locals
  <2>2. Entry(Key(p), run[p].id) \in Entries
    BY <2>1 DEF Entry, Entries
  <2> QED
    BY <2>2 DEF Entry, IsPending
<1>6. log' = Append(log, e) /\ log \in Seq(Entries)
  BY <1>5 DEF AppendLog, TypesInv, Types, Files
<1>7. /\ Len(log) \in Nat /\ DOMAIN log = 1..Len(log) /\ DOMAIN log' = 1..(Len(log) + 1)
      /\ \A i \in DOMAIN log : log'[i] = log[i]
      /\ log'[Len(log) + 1] = e
  BY <1>5, <1>6, AppendProperties, LenProperties
<1>8. \A i \in DOMAIN log' : \/ i \in DOMAIN log /\ log'[i] = log[i]
                             \/ i = Len(log) + 1 /\ log'[i] = e
  BY <1>7
<1>9. Resolved(log') = Resolved(log)
  BY <1>5, <1>7, <1>8 DEF Resolved
<1>10. ASSUME ~raced'
       PROVE  \A i, j \in DOMAIN log' :
          IsPending(log'[i]) /\ IsPending(log'[j]) /\ log'[i].key = log'[j].key => i = j
  <2>1. ~raced
    BY <1>1, <1>10, RacesSeen
  <2>2. ~HasPending(log, Key(p))
    BY <1>1, <2>1 DEF LogInv, LogProc
  <2>3. \A i \in DOMAIN log : IsPending(log[i]) => log[i].key # e.key
    BY <1>5, <2>2 DEF HasPending
  <2>4. \A i, j \in DOMAIN log :
            IsPending(log[i]) /\ IsPending(log[j]) /\ log[i].key = log[j].key => i = j
    BY <2>1 DEF LogInv, OnePendingEntry
  <2> QED
    BY <1>8, <2>3, <2>4
<1>11. ASSUME NEW q \in Procs
       PROVE  LogProc(q)'
  <2>1. CASE q = p
    BY <1>3, <2>1 DEF LogProc, At
  <2>2. CASE q # p
    <3>1. run'[q] = run[q] /\ LogProc(q)
      BY <1>3, <2>2 DEF LogInv
    <3>2. ASSUME ~raced'
          PROVE  /\ ~At(q, "write")
                 /\ At(q, "append") => ~HasPending(log', Key(q))
      <4>1. ~raced /\ ~At(q, "write") /\ (At(q, "append") => Key(q) # Key(p))
        BY <1>1, <2>2, <3>2, RacesSeen
      <4>2. HasPending(log', Key(q)) => HasPending(log, Key(q)) \/ Key(q) = e.key
        BY <1>8 DEF HasPending
      <4> QED
        BY <1>5, <3>1, <4>1, <4>2 DEF LogProc
    <3> QED
      BY <1>4, <3>1, <3>2 DEF LogProc, At, Key, WithinCap
  <2> QED
    BY <2>1, <2>2
<1>12. TmpOK'
  <2>1. raced' \/ ~(\E q \in Procs : At(q, "replace"))'
    <3>1. ~(At(p, "replace")')
      BY <1>3 DEF At
    <3>2. ASSUME ~raced', NEW q \in Procs \ {p}
          PROVE  ~(At(q, "replace")')
      BY <1>1, <1>3, <3>2, RacesSeen DEF At
    <3> QED
      BY <3>1, <3>2
  <2> QED
    BY <1>1, <2>1 DEF LogInv, TmpOK, WithinCap
<1> QED
  BY <1>9, <1>10, <1>11, <1>12 DEF LogInv, WithinCap, OnePendingEntry

\* Every other step of a process.
LEMMA OthersLog ==
    ASSUME TypesInv, LogInv, NEW p \in Procs,
           \/ GraphStep(p) \/ Die(p) \/ BeginResolve(p)
           \/ LogState(p) \/ ScanLog(p) \/ ClearCheckpoint(p)
    PROVE  LogInv'
<1>1. DOMAIN run = Procs /\ Types /\ faults \in Nat
  BY RecordsAssumption DEF TypesInv, Types, Files
<1>2. PICK l \in Locals : l = run[p]
  BY <1>1, Actor
<1>3. CASE GraphStep(p)
  <2>1. LogProc(p)' /\ ~(At(p, "replace")') /\ ~At(p, "replace")
    BY <1>1, <1>3, GraphStepFacts DEF LogProc, At
  <2>2. faults' = 0 => faults = 0
    BY <1>1, <1>3, GraphStepFacts
  <2> QED
    BY <1>1, <1>3, <2>1, <2>2, GraphStepFacts, LogKept
<1>4. CASE Die(p)
  <2>1. /\ UNCHANGED <<today, log, tmp, raced>> /\ faults' # 0
        /\ run'[p].pc = "idle" /\ \A q \in Procs \ {p} : run'[q] = run[q]
    BY <1>1, <1>4 DEF Die, Fault, Idle
  <2>2. LogProc(p)' /\ ~(At(p, "replace")')
    BY <2>1 DEF LogProc, At
  <2> QED
    BY <2>1, <2>2, LogKept
<1>5. CASE BeginResolve(p) \/ ClearCheckpoint(p)
  <2>1. /\ UNCHANGED <<today, log, tmp, raced, faults>> /\ run[p].pc \in {"idle", "clear"}
        /\ run'[p].pc \in {"idle", "pending"} /\ \A q \in Procs \ {p} : run'[q] = run[q]
    BY <1>1, <1>5 DEF BeginResolve, ClearCheckpoint, files, At, Idle
  <2>2. LogProc(p)' /\ ~(At(p, "replace")') /\ ~At(p, "replace")
    BY <2>1 DEF LogProc, At
  <2> QED
    BY <2>1, <2>2, LogKept
<1>6. CASE LogState(p)
  <2>1. /\ UNCHANGED <<today, log, tmp, raced, faults>> /\ run[p].pc = "log"
        /\ run'[p].pc = "scan" /\ \A q \in Procs \ {p} : run'[q] = run[q]
    BY <1>1, <1>2, <1>6 DEF LogState, At, Goto, Locals
  <2>2. LogProc(p)' /\ ~(At(p, "replace")') /\ ~At(p, "replace")
    BY <2>1 DEF LogProc, At
  <2> QED
    BY <2>1, <2>2, LogKept
<1>7. CASE ScanLog(p)
  <2>1. PICK c : Goto(p, c) /\ c \in {"clear", "append"}
                 /\ (c = "append" => ~HasPending(log, Key(p)))
    BY <1>7 DEF ScanLog
  <2>2. /\ UNCHANGED <<today, log, tmp, raced, faults>> /\ run[p].pc = "scan"
        /\ run'[p].pc = c /\ Key(p)' = Key(p)
        /\ \A q \in Procs \ {p} : run'[q] = run[q]
    BY <1>1, <1>2, <1>7, <2>1 DEF ScanLog, files, At, Goto, Key, Locals
  <2>3. LogProc(p)' /\ ~(At(p, "replace")') /\ ~At(p, "replace")
    BY <2>1, <2>2 DEF LogProc, At
  <2> QED
    BY <2>2, <2>3, LogKept
<1> QED
  BY <1>3, <1>4, <1>5, <1>6, <1>7

LEMMA NextLog == TypesInv /\ LogInv /\ [Next]_vars => LogInv'
<1> SUFFICES ASSUME TypesInv, LogInv, [Next]_vars
             PROVE  LogInv'
  OBVIOUS
<1>1. CASE Tick
  BY <1>1, TickLog
<1>2. ASSUME NEW p \in Procs, NEW k \in Keys, Begin(p, k)
      PROVE  LogInv'
  BY <1>2, BeginLog
<1>3. ASSUME NEW p \in Procs, Progress(p) \/ Die(p)
      PROVE  LogInv'
  BY <1>3, ReadLogLog, WriteTmpLog, ReplaceLog, AppendLogLog, OthersLog
     DEF Progress, GraphStep
<1>4. CASE UNCHANGED vars
  BY <1>4 DEF vars, files, LogInv, WithinCap, OnePendingEntry, LogProc, TmpOK, Known,
     At, Key, Resolvable
<1> QED
  BY <1>1, <1>2, <1>3, <1>4 DEF Next

\* The decision log keeps its cap, and one pending entry for an analysis as
\* long as nothing raced, whoever crashes, re-runs and resolves.
THEOREM LogStaysWellFormed == Spec => []LogWellFormed
<1>1. LogInv => LogWithinCap /\ OnePendingEntry
  BY DEF LogInv, LogWithinCap, WithinCap
<1>2. LogInv /\ TypesInv => LogWellFormed
  BY <1>1, TypesImplyTypeOK DEF LogWellFormed
<1> QED
  BY <1>2, TypesAlways, InitLog, NextLog, PTL DEF Spec

\* No rewrite, no rotation and no rename of another process's text drops an
\* entry that still waits for its outcome.
THEOREM PendingEntriesSurvive == Spec => PendingSurvives
<1> DEFINE Kept == ~raced' => \A i \in DOMAIN log :
          IsPending(log[i]) =>
            \/ \E j \in DOMAIN log' : log'[j] = log[i]
            \/ \E p \in Procs :
                  /\ At(p, "replace") /\ Resolvable(log[i].key)
                  /\ faults = 0 => log[i].key[1] = Key(p)[1]
<1>1. TypesInv /\ LogInv /\ [Next]_vars => [Kept]_log
  <2> SUFFICES ASSUME TypesInv, LogInv, [Next]_vars, log' # log, ~raced',
                      NEW i \in DOMAIN log, IsPending(log[i])
               PROVE  \/ \E j \in DOMAIN log' : log'[j] = log[i]
                      \/ \E p \in Procs :
                            /\ At(p, "replace") /\ Resolvable(log[i].key)
                            /\ faults = 0 => log[i].key[1] = Key(p)[1]
    OBVIOUS
  <2>1. PICK p \in Procs : (Replace(p) /\ tmp # <<>>) \/ AppendLog(p)
    <3>1. ASSUME NEW p \in Procs, Progress(p)
          PROVE  (Replace(p) /\ tmp # <<>>) \/ AppendLog(p)
      <4>1. GraphStep(p) => log' = log
        BY GraphStepFacts DEF TypesInv
      <4> QED
        BY <3>1, <4>1 DEF Progress, GraphStep, ReadLog, WriteTmp, Replace, BeginResolve,
           LogState, ScanLog, ClearCheckpoint, files
    <3> QED
      BY <3>1 DEF Next, vars, files, Tick, Begin, Die
  <2>2. CASE Replace(p) /\ tmp # <<>>
    <3>1. ~raced
      BY <2>2, RacesSeen DEF Replace
    <3> QED
      BY <2>2, <3>1, RenamedLog
  <2>3. CASE AppendLog(p)
    <3>1. log \in Seq(Entries) /\ Entry(Key(p), run[p].id) \in Entries
      <4>1. Key(p) \in LogKeys /\ run[p].id \in Nat /\ 0 \in 0..HoldDays
        <5>1. Types /\ run[p].pc = "append"
          BY <2>3 DEF AppendLog, TypesInv, At
        <5>2. Key(p) \in Keys
          BY <5>1, KeyOfRun DEF Working
        <5>3. run[p] \in Locals
          BY <5>1, Actor
        <5>4. run[p].id \in Nat
          BY <5>3 DEF Locals
        <5>5. 0 \in 0..HoldDays
          BY RecordsAssumption
        <5> QED
          BY <5>2, <5>4, <5>5, DayFacts
      <4> QED
        BY <4>1 DEF Entry, Entries, TypesInv, Types, Files
    <3>2. log' = Append(log, Entry(Key(p), run[p].id))
      BY <2>3 DEF AppendLog
    <3>3. i \in DOMAIN log' /\ log'[i] = log[i]
      BY <3>1, <3>2, AppendProperties, LenProperties
    <3> QED
      BY <3>3
  <2> QED
    BY <2>1, <2>2, <2>3
<1> QED
  BY <1>1, TypesAlways, InitLog, NextLog, PTL DEF Spec, PendingSurvives

-----------------------------------------------------------------------------
(* What is on disk of an analysis whose decision has reached the log.      *)

HasRow(k) == faults = 0 => rows[k].run > 0

Logged(text) ==
    \A i \in DOMAIN text : text[i].run > 0 =>
        text[i].key \in Keys /\ states[text[i].key] > 0 /\ HasRow(text[i].key)

RecordedProc(p) ==
    /\ run[p].pc \in {"scan", "append", "clear"} => states[Key(p)] > 0
    /\ run[p].pc \in AfterGraph /\ Key(p) # Command => HasRow(Key(p))
    /\ At(p, "write") => Logged(run[p].text)

\* Until something fails, a checkpoint is one of a run that is past its graph.
ThreadsHeld ==
    faults = 0 => \A k \in threads : \E p \in Procs : Key(p) = k /\ run[p].pc \in AfterGraph

RecordedInv ==
    /\ Logged(log)
    /\ tmp # <<>> => Logged(tmp[1])
    /\ \A p \in Procs : RecordedProc(p)
    /\ ThreadsHeld

\* What is on disk stays there.
Stays ==
    /\ \A k \in Keys : states[k] > 0 => states'[k] > 0
    /\ \A k \in Keys : rows[k].run > 0 => rows'[k].run > 0
    /\ faults' = 0 => faults = 0

LEMMA LoggedStays ==
    ASSUME Stays, NEW text, Logged(text)
    PROVE  Logged(text)'
BY DEF Stays, Logged, HasRow

LEMMA RewrittenLogged ==
    ASSUME NEW text \in Seq(Entries), NEW u \in Updates, Logged(text)
    PROVE  Logged(Rewritten(text, u))
<1>1. PICK pos \in [DOMAIN Rewritten(text, u) -> DOMAIN text] :
         /\ \A i, j \in DOMAIN Rewritten(text, u) : pos[i] = pos[j] => i = j
         /\ \A i \in DOMAIN Rewritten(text, u) :
               /\ Rewritten(text, u)[i].key = text[pos[i]].key
               /\ Rewritten(text, u)[i].run = text[pos[i]].run
               /\ IsPending(Rewritten(text, u)[i]) => Rewritten(text, u)[i] = text[pos[i]]
  BY RewrittenProperties
<1> QED
  BY <1>1 DEF Logged

\* A process's step, in what it does to the analyses on disk.
LEMMA RecordedStep ==
    ASSUME TypesInv, RecordedInv, NEW p \in Procs, Stays,
           \A q \in Procs \ {p} : run'[q] = run[q],
           Logged(log)', tmp' # <<>> => Logged(tmp[1])', RecordedProc(p)',
           faults' = 0 => threads' \subseteq threads \cup {Key(p)},
           faults' = 0 /\ Key(p) \in threads' =>
               \/ Key(p)' = Key(p) /\ run'[p].pc \in AfterGraph
               \/ Key(p) \in threads /\ run[p].pc \notin AfterGraph
    PROVE  RecordedInv'
<1>1. ASSUME NEW q \in Procs
      PROVE  RecordedProc(q)'
  <2>1. CASE q # p
    <3>1. run'[q] = run[q] /\ RecordedProc(q)
      BY <2>1 DEF RecordedInv
    <3>2. Key(q) # Command => Key(q) \in Keys
      BY KeyOfRun DEF TypesInv
    <3>3. At(q, "write") => Logged(run[q].text)'
      BY <3>1, LoggedStays DEF RecordedProc, Logged, HasRow, Stays
    <3>4. run[q].pc \in {"scan", "append", "clear"} => Key(q) # Command
      BY Actor DEF LocalOK, TypesInv, Key, Working
    <3> QED
      BY <3>1, <3>2, <3>3, <3>4 DEF RecordedProc, At, Key, HasRow, Stays, Logged
  <2> QED
    BY <2>1
<1>2. ASSUME faults' = 0, NEW k \in threads'
      PROVE  \E q \in Procs : Key(q)' = k /\ run'[q].pc \in AfterGraph
  <2>1. CASE Key(p)' = k /\ run'[p].pc \in AfterGraph
    BY <2>1
  <2>2. CASE k \in threads /\ (k = Key(p) => run[p].pc \notin AfterGraph)
    <3>1. faults = 0
      BY <1>2 DEF Stays
    <3>2. PICK q \in Procs : Key(q) = k /\ run[q].pc \in AfterGraph
      BY <2>2, <3>1 DEF RecordedInv, ThreadsHeld
    <3>3. run'[q] = run[q]
      BY <2>2, <3>2
    <3> QED
      BY <3>2, <3>3 DEF Key
  <2> QED
    BY <1>2, <2>1, <2>2
<1> QED
  BY <1>1, <1>2 DEF RecordedInv, ThreadsHeld

LEMMA InitRecorded == Init => RecordedInv
<1> SUFFICES ASSUME Init
             PROVE  RecordedInv
  OBVIOUS
<1>1. \A i \in DOMAIN log : log[i].run = 0
  <2> DEFINE T == [key : LogKeys, run : {0}, days : 0..HoldDays]
  <2>1. log \in Seq(T)
    BY PriorLogAssumption DEF Init
  <2>2. \A i \in DOMAIN log : log[i] \in T
    BY <2>1, ElementOfSeq, LenProperties
  <2> QED
    BY <2>2
<1>2. \A p \in Procs : run[p].pc = "idle"
  BY DEF Init, Idle
<1> QED
  BY <1>1, <1>2 DEF Init, RecordedInv, Logged, RecordedProc, ThreadsHeld, At, AfterGraph

\* Steps that are not about the graph or after it.
LEMMA RewriteRecorded ==
    ASSUME TypesInv, RecordedInv, NEW p \in Procs,
           \/ \E k \in Keys : Begin(p, k)
           \/ ReadLog(p) \/ WriteTmp(p) \/ Replace(p) \/ Die(p) \/ BeginResolve(p)
    PROVE  RecordedInv'
<1>1. /\ DOMAIN run = Procs /\ Types /\ faults \in Nat /\ log \in Seq(Entries)
      /\ Logged(log) /\ (tmp # <<>> => Logged(tmp[1]))
  BY RecordsAssumption DEF TypesInv, Types, Files, RecordedInv
<1>2. PICK l \in Locals : l = run[p] /\ RecordedProc(p)
  BY <1>1, Actor DEF RecordedInv
<1> DEFINE Quiet == /\ UNCHANGED <<rows, states>>
                    /\ faults' = 0 => /\ faults = 0 /\ threads' = threads
                                      /\ run[p].pc \notin AfterGraph
<1>3. Quiet
  <2>1. ASSUME NEW k \in Keys, Begin(p, k)
        PROVE  Quiet
    BY <2>1 DEF Begin, files, history, At, AfterGraph
  <2>2. CASE Die(p)
    BY <1>1, <2>2 DEF Die, Fault, history
  <2>3. CASE ReadLog(p) \/ WriteTmp(p) \/ Replace(p) \/ BeginResolve(p)
    BY <2>3 DEF ReadLog, WriteTmp, Replace, BeginResolve, files, history, At, AfterGraph
  <2> QED
    BY <2>1, <2>2, <2>3
<1>4. Stays
  BY <1>3 DEF Stays
<1>7. \A q \in Procs \ {p} : run'[q] = run[q]
  BY <1>1 DEF Begin, ReadLog, WriteTmp, Replace, Die, BeginResolve, Goto
<1>8. /\ Logged(log)'
      /\ tmp' # <<>> => Logged(tmp[1])'
      /\ run'[p].pc \in {"idle", "graph", "rewrite", "write", "replace", "pending"}
      /\ At(p, "write")' => Logged(run[p].text)'
      /\ run'[p].pc = "pending" => Key(p)' = Command
  <2>1. \A text : Logged(text) => Logged(text)'
    BY <1>4, LoggedStays
  <2>2. CASE \E k \in Keys : Begin(p, k)
    <3>1. log' = log /\ tmp' = tmp /\ run'[p].pc \in {"graph", "rewrite"}
      BY <1>1, <2>2 DEF Begin, files, Idle
    <3> QED
      BY <1>1, <2>1, <3>1 DEF At
  <2>3. CASE ReadLog(p)
    <3>1. PICK x : x = Rewritten(log, l.updates) /\ Logged(x)
      BY <1>1, <1>2, RewrittenLogged DEF Locals
    <3>2. run' = [run EXCEPT ![p] = [l EXCEPT !.pc = "write", !.text = x]]
      BY <1>2, <2>3, <3>1 DEF ReadLog
    <3>3. log' = log /\ tmp' = tmp /\ run'[p].pc = "write" /\ run'[p].text = x
      BY <1>1, <1>2, <2>3, <3>2 DEF ReadLog, files, Locals
    <3> QED
      BY <1>1, <2>1, <3>1, <3>3 DEF At
  <2>4. CASE WriteTmp(p)
    <3>1. tmp' = <<l.text>> /\ log' = log /\ run'[p].pc = "replace" /\ Logged(l.text)
      BY <1>1, <1>2, <2>4 DEF WriteTmp, Goto, Locals, RecordedProc, At
    <3> QED
      BY <1>1, <2>1, <3>1 DEF At
  <2>5. CASE Replace(p)
    <3>1. PICK r : /\ run' = [run EXCEPT ![p] = r]
                   /\ \/ r = Idle
                      \/ r = [Idle EXCEPT !.pc = "graph", !.key = Key(p), !.id = run[p].id]
      BY <2>5 DEF Replace
    <3>2. Idle.pc = "idle" /\ [Idle EXCEPT !.pc = "graph", !.key = Key(p), !.id = run[p].id].pc = "graph"
      BY DEF Idle
    <3>3. tmp' = <<>> /\ (log' = log \/ (tmp # <<>> /\ log' = tmp[1]))
      BY <2>5 DEF Replace
    <3> QED
      BY <1>1, <2>1, <3>1, <3>2, <3>3 DEF At
  <2>6. CASE Die(p)
    <3>1. log' = log /\ tmp' = tmp /\ run'[p].pc = "idle"
      BY <1>1, <2>6 DEF Die, Idle
    <3> QED
      BY <1>1, <2>1, <3>1 DEF At
  <2>7. CASE BeginResolve(p)
    <3>1. /\ log' = log /\ tmp' = tmp /\ run'[p].pc = "pending"
          /\ run'[p].key = Command
      BY <1>1, <2>7 DEF BeginResolve, files, Idle, Command
    <3> QED
      BY <1>1, <2>1, <3>1 DEF At, Key
  <2> QED
    BY <2>2, <2>3, <2>4, <2>5, <2>6, <2>7
<1>9. RecordedProc(p)'
  BY <1>8 DEF RecordedProc, AfterGraph
<1> QED
  BY <1>3, <1>4, <1>7, <1>8, <1>9, RecordedStep

\* The steps of the graph record the analysis or note the fault.
LEMMA GraphRecorded ==
    ASSUME TypesInv, RecordedInv, NEW p \in Procs, GraphStep(p)
    PROVE  RecordedInv'
<1>1. /\ DOMAIN run = Procs /\ Types /\ faults \in Nat /\ rows \in [Keys -> Rows]
      /\ Logged(log) /\ (tmp # <<>> => Logged(tmp[1])) /\ RecordedProc(p)
  BY RecordsAssumption DEF TypesInv, Types, Files, RecordedInv
<1>2. /\ UNCHANGED <<today, log, tmp, states, runs, raced, slept>>
      /\ \A q \in Procs \ {p} : run'[q] = run[q]
      /\ run[p].pc \in {"graph", "read", "load", "fill", "measure", "pending"}
      /\ Key(p)' = Key(p) /\ run'[p].id = run[p].id
      /\ \/ run'[p].pc \in {"read", "load", "fill", "measure", "pending", "log"}
         \/ Key(p) = Command /\ run'[p].pc = "idle"
      /\ faults \in Nat /\ faults' \in Nat /\ faults <= faults'
  BY <1>1, GraphStepFacts
<1>3. Key(p) # Command => Key(p) \in Keys /\ run[p].id \in 1..runs
  BY <1>1, KeyOfRun
<1>4. (\A k \in Keys : rows[k].run > 0 => rows'[k].run > 0)
      /\ (run[p].pc = "graph" => Key(p) \in Keys /\ (faults' = 0 => rows'[Key(p)].run > 0))
  <2>1. CASE Record(p)
    <3>1. run[p].pc = "graph" /\ Key(p) # Command
      BY <1>1, <2>1, Actor DEF Record, At, LocalOK, Key, Working
    <3>2. PICK k \in Keys, r \in Nat : k = Key(p) /\ r = run[p].id /\ r > 0
      BY <1>3, <3>1
    <3>3. rows' = Recorded(rows, k, r)
      BY <2>1, <3>2 DEF Record
    <3>4. rows'[k].run = r /\ \A j \in Keys : j # k => rows'[j] = rows[j]
      BY <1>1, <3>2, <3>3, RecordedFacts
    <3> QED
      BY <3>2, <3>4
  <2>2. CASE Fill(p)
    <3>1. PICK w \in Works, m \in Markets, e \in Price, b \in Price :
              w.key \in Keys /\ rows' = Filled(rows, w.key, e, b)
      BY <1>1, <2>2, FillFacts
    <3>2. PICK k \in Keys : k = w.key
      BY <3>1
    <3>3. rows' = Filled(rows, k, e, b)
      BY <3>1, <3>2
    <3>4. rows'[k].run = rows[k].run /\ \A j \in Keys : j # k => rows'[j] = rows[j]
      BY <1>1, <3>1, <3>2, <3>3, FilledFacts
    <3>5. run[p].pc = "fill"
      BY <2>2 DEF Fill, At
    <3> QED
      BY <3>4, <3>5
  <2>3. CASE RecordFails(p)
    <3>1. faults' # 0 /\ rows' = rows /\ Key(p) # Command
      BY <1>1, <2>3, Actor DEF RecordFails, Fault, history, At, LocalOK, Key, Working
    <3> QED
      BY <1>3, <3>1
  <2>4. CASE ~Record(p) /\ ~Fill(p) /\ ~RecordFails(p)
    <3>1. rows' = rows /\ run[p].pc # "graph"
      BY <2>4 DEF GraphStep, ReadOwn, ReadPending, Load, LoadFails, Measure, At, history
    <3> QED
      BY <3>1
  <2> QED
    BY <2>1, <2>2, <2>3, <2>4
<1>5. Stays
  BY <1>2, <1>4 DEF Stays
<1>6. Logged(log)' /\ (tmp' # <<>> => Logged(tmp[1])')
  <2>1. \A text : Logged(text) => Logged(text)'
    BY <1>5, LoggedStays
  <2> QED
    BY <1>1, <1>2, <2>1
<1>7. RecordedProc(p)'
  <2>1. run'[p].pc \notin {"scan", "append", "clear"} /\ ~(At(p, "write")')
    BY <1>2 DEF At
  <2>2. Key(p) # Command => HasRow(Key(p))'
    <3>1. CASE run[p].pc = "graph"
      BY <1>2, <1>4, <3>1 DEF HasRow
    <3>2. CASE run[p].pc # "graph"
      BY <1>1, <1>2, <1>3, <1>5, <3>2 DEF HasRow, RecordedProc, AfterGraph, Stays
    <3> QED
      BY <3>1, <3>2
  <2> QED
    BY <1>2, <2>1, <2>2 DEF RecordedProc
<1>8. \/ threads' = threads
      \/ threads' \subseteq threads \cup {Key(p)} /\ run'[p].pc \in AfterGraph
  <2>1. CASE Record(p) \/ RecordFails(p)
    <3>1. Key(p) # Command
      BY <1>1, <2>1, Actor DEF Record, RecordFails, At, LocalOK, Key, Working
    <3> QED
      BY <1>2, <2>1, <3>1 DEF Record, RecordFails, Checkpointed, AfterGraph
  <2>2. CASE ~Record(p) /\ ~RecordFails(p)
    <3>1. threads' = threads \/ (run'[p].pc = "log" /\ threads' \subseteq threads \cup {Key(p)})
      BY <2>2 DEF GraphStep, ReadOwn, ReadPending, Load, LoadFails, Fill, Measure, GraphOver,
         Checkpointed, files
    <3> QED
      BY <3>1 DEF AfterGraph
  <2> QED
    BY <2>1, <2>2
<1>9. ASSUME Key(p) \in threads', threads' = threads
      PROVE  run'[p].pc \in AfterGraph
  <2>1. Key(p) # Command
    BY <1>1, <1>9, KeysAssumption DEF Types, Files
  <2> QED
    BY <1>2, <2>1 DEF AfterGraph
<1> QED
  BY <1>2, <1>5, <1>6, <1>7, <1>8, <1>9, RecordedStep

\* The steps after the graph keep the order state log, decision log, checkpoint.
LEMMA AfterGraphRecorded ==
    ASSUME TypesInv, RecordedInv, NEW p \in Procs,
           LogState(p) \/ ScanLog(p) \/ AppendLog(p) \/ ClearCheckpoint(p)
    PROVE  RecordedInv'
<1>1. /\ DOMAIN run = Procs /\ Types /\ log \in Seq(Entries)
      /\ Logged(log) /\ (tmp # <<>> => Logged(tmp[1])) /\ RecordedProc(p)
      /\ states \in [Keys -> 0..runs] /\ runs \in Nat
  BY RecordsAssumption DEF TypesInv, Types, Files, RecordedInv
<1>2. PICK l \in Locals : l = run[p]
  BY <1>1, Actor
<1>3. /\ run[p].pc \in {"log", "scan", "append", "clear"}
      /\ Key(p) \in Keys /\ run[p].id \in 1..runs
  BY <1>1, KeyOfRun, KeysAssumption
     DEF LogState, ScanLog, AppendLog, ClearCheckpoint, At, Working
<1>4. /\ UNCHANGED <<tmp, rows, faults>> /\ HasRow(Key(p))
      /\ \A q \in Procs \ {p} : run'[q] = run[q]
  BY <1>1, <1>3, KeysAssumption
     DEF LogState, ScanLog, AppendLog, ClearCheckpoint, Goto, files, history, RecordedProc, AfterGraph
<1>5. CASE LogState(p)
  <2>1. /\ log' = log /\ threads' = threads /\ states' = [states EXCEPT ![Key(p)] = run[p].id]
        /\ run'[p].pc = "scan" /\ Key(p)' = Key(p)
    BY <1>1, <1>2, <1>5 DEF LogState, Goto, Key, Locals
  <2>2. Stays /\ states'[Key(p)] > 0
    BY <1>1, <1>3, <1>4, <2>1 DEF Stays
  <2>3. Logged(log)' /\ (tmp' # <<>> => Logged(tmp[1])')
    <3>1. \A text : Logged(text) => Logged(text)'
      BY <2>2, LoggedStays
    <3> QED
      BY <1>1, <1>4, <2>1, <3>1
  <2>4. RecordedProc(p)'
    BY <1>4, <2>1, <2>2 DEF RecordedProc, At, HasRow
  <2> QED
    BY <1>4, <2>1, <2>2, <2>3, <2>4, RecordedStep DEF AfterGraph
<1>6. CASE ScanLog(p)
  <2>1. /\ log' = log /\ threads' = threads /\ states' = states
        /\ run[p].pc = "scan" /\ run'[p].pc \in {"clear", "append"} /\ Key(p)' = Key(p)
    <3>1. PICK c \in {"clear", "append"} : Goto(p, c)
      BY <1>6 DEF ScanLog
    <3> QED
      BY <1>1, <1>2, <1>6, <3>1 DEF ScanLog, Goto, Key, Locals, files, At
  <2>2. Stays
    BY <1>4, <2>1 DEF Stays
  <2>3. Logged(log)' /\ (tmp' # <<>> => Logged(tmp[1])')
    <3>1. \A text : Logged(text) => Logged(text)'
      BY <2>2, LoggedStays
    <3> QED
      BY <1>1, <1>4, <2>1, <3>1
  <2>4. RecordedProc(p)'
    BY <1>1, <1>4, <2>1 DEF RecordedProc, At, HasRow
  <2> QED
    BY <1>4, <2>1, <2>2, <2>3, <2>4, RecordedStep DEF AfterGraph
<1>7. CASE AppendLog(p)
  <2>1. /\ threads' = threads /\ states' = states
        /\ run[p].pc = "append" /\ run'[p].pc = "clear" /\ Key(p)' = Key(p)
    BY <1>1, <1>2, <1>7 DEF AppendLog, Goto, Key, Locals, At
  <2>2. Stays /\ states[Key(p)] > 0
    BY <1>1, <1>4, <2>1 DEF Stays, RecordedProc
  <2>3. PICK e \in Entries : e = Entry(Key(p), run[p].id)
    <3>1. Key(p) \in LogKeys /\ run[p].id \in Nat /\ 0 \in 0..HoldDays
      BY <1>1, <1>3, DayFacts, RecordsAssumption
    <3> QED
      BY <3>1 DEF Entry, Entries
  <2>4. Logged(log') /\ (tmp' # <<>> => Logged(tmp'[1]))
    <3>1. log' = Append(log, e) /\ e.key = Key(p)
      BY <1>7, <2>3 DEF AppendLog, Entry
    <3>2. \A i \in DOMAIN log' : (i \in DOMAIN log /\ log'[i] = log[i]) \/ log'[i] = e
      BY <1>1, <2>3, <3>1, AppendProperties, LenProperties
    <3> QED
      BY <1>1, <1>3, <1>4, <2>2, <3>1, <3>2 DEF Logged
  <2>5. Logged(log)' /\ (tmp' # <<>> => Logged(tmp[1])')
    BY <1>4, <2>1, <2>4 DEF Logged, HasRow
  <2>6. RecordedProc(p)'
    BY <1>1, <1>4, <2>1, <2>2 DEF RecordedProc, At, HasRow
  <2> QED
    BY <1>4, <2>1, <2>2, <2>5, <2>6, RecordedStep DEF AfterGraph
<1>8. CASE ClearCheckpoint(p)
  <2>1. /\ threads' = threads \ {Key(p)} /\ states' = states /\ log' = log
        /\ run'[p].pc = "idle"
    BY <1>1, <1>8 DEF ClearCheckpoint, Idle
  <2>2. Stays
    BY <1>4, <2>1 DEF Stays
  <2>3. Logged(log)' /\ (tmp' # <<>> => Logged(tmp[1])')
    <3>1. \A text : Logged(text) => Logged(text)'
      BY <2>2, LoggedStays
    <3> QED
      BY <1>1, <1>4, <2>1, <3>1
  <2>4. RecordedProc(p)'
    BY <2>1 DEF RecordedProc, At, AfterGraph
  <2> QED
    BY <1>4, <2>1, <2>2, <2>3, <2>4, RecordedStep
<1> QED
  BY <1>5, <1>6, <1>7, <1>8

LEMMA NextRecorded == TypesInv /\ RecordedInv /\ [Next]_vars => RecordedInv'
<1> SUFFICES ASSUME TypesInv, RecordedInv, [Next]_vars
             PROVE  RecordedInv'
  OBVIOUS
<1>1. CASE Tick \/ UNCHANGED vars
  BY <1>1 DEF Tick, vars, files, history, RecordedInv, Logged, HasRow, RecordedProc, ThreadsHeld,
     At, Key
<1>2. ASSUME NEW p \in Procs, NEW k \in Keys, Begin(p, k)
      PROVE  RecordedInv'
  BY <1>2, RewriteRecorded
<1>3. ASSUME NEW p \in Procs, Progress(p) \/ Die(p)
      PROVE  RecordedInv'
  BY <1>3, RewriteRecorded, GraphRecorded, AfterGraphRecorded DEF Progress, GraphStep
<1> QED
  BY <1>1, <1>2, <1>3 DEF Next

\* A decision in the log has its state log, and its row unless a store
\* failed; a checkpoint nobody writes is that of a run that was left unfinished.
THEOREM LoggedAnalysesAreOnDisk == Spec => []LoggedIsRecorded
<1>1. TypesInv /\ RecordedInv => LoggedIsRecorded
  BY DEF RecordedInv, Logged, HasRow, ThreadsHeld, LoggedIsRecorded
<1> QED
  BY <1>1, TypesAlways, InitRecorded, NextRecorded, PTL DEF Spec

-----------------------------------------------------------------------------
(* Prices.                                                                 *)

\* The rows change by what is recorded and what is filled in.
LEMMA RowsChange ==
    ASSUME TypesInv, [Next]_vars, rows' # rows
    PROVE  /\ UNCHANGED <<today, perf, slept>>
           /\ \/ \E p \in Procs, k \in Keys, r \in Nat :
                     Record(p) /\ rows' = Recorded(rows, k, r)
              \/ \E p \in Procs : Fill(p)
<1>1. PICK p \in Procs : Record(p) \/ Fill(p)
  BY DEF Next, vars, history, Tick, Begin, Die, Progress, ReadLog, WriteTmp, Replace,
     RecordFails, ReadOwn, ReadPending, Load, LoadFails, Measure, BeginResolve, LogState,
     ScanLog, AppendLog, ClearCheckpoint
<1>2. CASE Record(p)
  <2>1. Key(p) \in Keys
    BY <1>2, KeyOfRun DEF Record, At, Working, TypesInv
  <2>2. run[p].id \in Nat
    BY Actor DEF Locals, TypesInv
  <2> QED
    BY <1>2, <2>1, <2>2 DEF Record
<1>3. CASE Fill(p)
  BY <1>3 DEF Fill
<1> QED
  BY <1>1, <1>2, <1>3

\* A price snapshot is written once: no re-run, backfill or other process moves it.
THEOREM SnapshotsAreFixed == Spec => SnapshotsFixed
<1> DEFINE Fixed == \A k \in Keys :
               /\ rows[k].entry # NoPrice => rows'[k].entry = rows[k].entry
               /\ rows[k].bentry # NoPrice => rows'[k].bentry = rows[k].bentry
<1>1. TypesInv /\ [Next]_vars => [Fixed]_rows
  <2> SUFFICES ASSUME TypesInv, [Next]_vars, rows' # rows
               PROVE  Fixed
    OBVIOUS
  <2>1. rows \in [Keys -> Rows] /\ Types
    BY DEF TypesInv, Types, Files
  <2>2. CASE \E p \in Procs, k \in Keys, r \in Nat : Record(p) /\ rows' = Recorded(rows, k, r)
    <3>1. PICK k \in Keys, r \in Nat : rows' = Recorded(rows, k, r)
      BY <2>2
    <3>2. /\ rows'[k].entry = rows[k].entry /\ rows'[k].bentry = rows[k].bentry
          /\ \A j \in Keys : j # k => rows'[j] = rows[j]
      BY <2>1, <3>1, RecordedFacts
    <3> QED
      BY <3>1, <3>2
  <2>3. CASE \E p \in Procs : Fill(p)
    <3>1. PICK w \in Works, e \in Price, b \in Price :
              w.key \in Keys /\ rows' = Filled(rows, w.key, e, b)
      BY <2>1, <2>3, FillFacts
    <3>2. PICK k \in Keys : k = w.key
      BY <3>1
    <3>3. rows' = Filled(rows, k, e, b)
      BY <3>1, <3>2
    <3>4. /\ rows'[k].entry = Coalesce(rows[k].entry, e)
          /\ rows'[k].bentry = Coalesce(rows[k].bentry, b)
          /\ \A j \in Keys : j # k => rows'[j] = rows[j]
      BY <2>1, <3>1, <3>2, <3>3, FilledFacts
    <3> QED
      BY <3>4 DEF Coalesce
  <2> QED
    BY <2>2, <2>3, RowsChange
<1> QED
  BY <1>1, TypesAlways, PTL DEF Spec, SnapshotsFixed

Now == [day |-> today, bench |-> TRUE]
TodaysEntry(k) == Close(CHOOSE s \in Baseline(Stock(k[1], Now), k[2]) : TRUE, Now)
TodaysBench(k) == Close(CHOOSE s \in Baseline(Bench(k[1], Now), k[2]) : TRUE, Now)

\* A row a process holds has the snapshots of the table, except those that
\* were filled in since it was read; these are today's.
WorkOK(w) ==
    /\ w.entry # NoPrice => rows[w.key].entry = w.entry
    /\ w.bentry # NoPrice => rows[w.key].bentry = w.bentry
    /\ w.entry = NoPrice /\ rows[w.key].entry # NoPrice =>
           rows[w.key].entry = TodaysEntry(w.key)
    /\ w.bentry = NoPrice /\ rows[w.key].bentry # NoPrice =>
           rows[w.key].bentry = TodaysBench(w.key)

\* The prices a process is about to measure with are those of the table.
PricesFit(w, m) ==
    /\ EntryOf(w, m) \in {NoPrice, rows[w.key].entry}
    /\ BenchEntryOf(w, m) \in {NoPrice, rows[w.key].bentry}

PricesProc(p) ==
    /\ run[p].pc \in {"fill", "measure"} => run[p].market.day = today
    /\ \A i \in DOMAIN run[p].work : WorkOK(run[p].work[i])
    /\ At(p, "measure") => PricesFit(Head(run[p].work), run[p].market)

PointOK(k, h) ==
    LET point == perf[k][h] IN
    /\ point # NoPoint =>
          /\ point.from = rows[k].entry /\ rows[k].entry # NoPrice
          /\ Cardinality({s \in StockDays[k[1]] : k[2] < s /\ s <= point.to.day}) = h
    /\ Complete(point) =>
          /\ point.bfrom = rows[k].bentry /\ rows[k].bentry # NoPrice
          /\ point.bto = point.to

PricesInv ==
    ~slept => /\ \A p \in Procs : PricesProc(p)
              /\ \A k \in Keys, h \in Horizons : PointOK(k, h)

\* A snapshot is the stored price, or the one of a load of today.
LEMMA SnapshotToday ==
    ASSUME NEW w \in Works, NEW m \in Markets, m.day = today
    PROVE  /\ \/ EntryOf(w, m) \in {NoPrice, w.entry}
              \/ w.entry = NoPrice /\ EntryOf(w, m) = TodaysEntry(w.key)
           /\ \/ BenchEntryOf(w, m) \in {NoPrice, w.bentry}
              \/ w.bentry = NoPrice /\ BenchEntryOf(w, m) = TodaysBench(w.key)
<1>1. Now \in Markets /\ Now.day = m.day /\ Now.bench = TRUE
  BY DEF Now, Markets
<1>2. w.key \in Keys
  BY DEF Works
<1>3. \A s : Close(s, m) = Close(s, Now)
  BY <1>1 DEF Close
<1>4. Stock(w.key[1], m) = Stock(w.key[1], Now)
  BY <1>1 DEF Stock
<1>5. Stock(w.key[1], m) \in SUBSET Nat /\ Bench(w.key[1], m) \in SUBSET Nat
  BY <1>2, StockFacts
<1>6. \/ EntryOf(w, m) \in {NoPrice, w.entry}
      \/ w.entry = NoPrice /\ EntryOf(w, m) = TodaysEntry(w.key)
  <2>1. CASE EntryOf(w, m) = NoPrice
    BY <2>1
  <2>2. CASE EntryOf(w, m) = Snapshot(Stock(w.key[1], m), w.key[2], m, w.entry)
    BY <1>3, <1>4, <1>5, <2>2, SnapshotOf DEF TodaysEntry
  <2> QED
    BY <2>1, <2>2 DEF EntryOf
<1>7. \/ BenchEntryOf(w, m) \in {NoPrice, w.bentry}
      \/ w.bentry = NoPrice /\ BenchEntryOf(w, m) = TodaysBench(w.key)
  <2>1. CASE BenchEntryOf(w, m) = NoPrice
    BY <2>1
  <2>2. CASE BenchEntryOf(w, m) = Snapshot(Bench(w.key[1], m), w.key[2], m, w.bentry)
    <3>1. CASE m.bench
      <4>1. Bench(w.key[1], m) = Bench(w.key[1], Now)
        BY <1>1, <3>1 DEF Bench
      <4> QED
        BY <1>3, <1>5, <2>2, <4>1, SnapshotOf DEF TodaysBench
    <3>2. CASE ~m.bench
      <4>1. Bench(w.key[1], m) = {}
        BY <3>2 DEF Bench
      <4>2. Baseline({}, w.key[2]) = {}
        BY DEF Baseline
      <4> QED
        BY <2>2, <4>1, <4>2 DEF Snapshot
    <3> QED
      BY <3>1, <3>2
  <2> QED
    BY <2>1, <2>2 DEF BenchEntryOf
<1> QED
  BY <1>6, <1>7

\* A step that moves no snapshot and measures nothing.
LEMMA PricesKept ==
    ASSUME TypesInv, PricesInv, UNCHANGED <<today, perf, slept>>, NEW p \in Procs,
           \A k \in Keys : rows'[k].entry = rows[k].entry /\ rows'[k].bentry = rows[k].bentry,
           \A q \in Procs \ {p} : run'[q] = run[q], ~slept => PricesProc(p)'
    PROVE  PricesInv'
<1> SUFFICES ASSUME ~slept
             PROVE  (\A q \in Procs : PricesProc(q)') /\ \A k \in Keys, h \in Horizons : PointOK(k, h)'
  BY DEF PricesInv
<1>1. Now' = Now
  BY DEF Now
<1>2. ASSUME NEW w \in Works, WorkOK(w)
      PROVE  WorkOK(w)'
  <2>1. w.key \in Keys
    BY DEF Works
  <2>2. TodaysEntry(w.key)' = TodaysEntry(w.key) /\ TodaysBench(w.key)' = TodaysBench(w.key)
    BY <1>1 DEF TodaysEntry, TodaysBench
  <2> QED
    BY <1>2, <2>1, <2>2 DEF WorkOK
<1>3. ASSUME NEW q \in Procs
      PROVE  PricesProc(q)'
  <2>1. CASE q = p
    BY <2>1
  <2>2. CASE q # p
    <3>1. run'[q] = run[q] /\ PricesProc(q)
      BY <2>2 DEF PricesInv
    <3>2. run[q].work \in Seq(Works)
      BY Actor DEF TypesInv, Locals
    <3>3. \A i \in DOMAIN run[q].work : WorkOK(run[q].work[i])'
      <4>1. \A i \in DOMAIN run[q].work : run[q].work[i] \in Works
        BY <3>2, ElementOfSeq, LenProperties
      <4> QED
        BY <1>2, <3>1, <4>1 DEF PricesProc
    <3>4. At(q, "measure") => Head(run[q].work).key \in Keys
      BY HeadOfWork DEF TypesInv, At, Working, Works
    <3>5. At(q, "measure")' => PricesFit(Head(run[q].work), run[q].market)'
      BY <3>1, <3>4 DEF PricesProc, PricesFit, At
    <3> QED
      BY <3>1, <3>3, <3>5 DEF PricesProc, WorkOK
  <2> QED
    BY <2>1, <2>2
<1>4. \A k \in Keys, h \in Horizons : PointOK(k, h)'
  BY DEF PricesInv, PointOK
<1> QED
  BY <1>3, <1>4

\* A process that holds no rows.
LEMMA NoRowsHeld ==
    ASSUME TypesInv', NEW p \in Procs, run'[p].pc \notin Working
    PROVE  PricesProc(p)'
<1>1. LocalOK(run'[p], runs')
  BY DEF TypesInv, Types
<1>2. run'[p].work = <<>> /\ run'[p].pc \notin {"fill", "measure"}
  BY <1>1 DEF LocalOK, Working
<1> QED
  BY <1>2 DEF PricesProc, At

\* A row just read is as the table has it.
LEMMA RowOK ==
    ASSUME NEW k \in Keys, NEW horizons
    PROVE  WorkOK(Row(k, horizons))
BY DEF WorkOK, Row

LEMMA WorkStays ==
    ASSUME UNCHANGED <<rows, today>>, NEW w, WorkOK(w)
    PROVE  WorkOK(w)'
<1>1. TodaysEntry(w.key)' = TodaysEntry(w.key) /\ TodaysBench(w.key)' = TodaysBench(w.key)
  BY DEF TodaysEntry, TodaysBench, Now
<1> QED
  BY <1>1 DEF WorkOK

LEMMA InitPrices == Init => PricesInv
<1> SUFFICES ASSUME Init
             PROVE  PricesInv
  OBVIOUS
<1>1. \A p \in Procs : PricesProc(p)
  BY DEF Init, Idle, PricesProc, At
<1>2. \A k \in Keys, h \in Horizons : perf[k][h] = NoPoint
  BY DEF Init
<1>3. ~Complete(NoPoint)
  BY DEF Complete, NoPoint
<1> QED
  BY <1>1, <1>2, <1>3 DEF PricesInv, PointOK

\* A process that holds rows while a session closes is a sleeper.
LEMMA TickPrices ==
    ASSUME TypesInv, PricesInv, Tick
    PROVE  PricesInv'
<1> SUFFICES ASSUME ~slept'
             PROVE  (\A q \in Procs : PricesProc(q)') /\ \A k \in Keys, h \in Horizons : PointOK(k, h)'
  BY DEF PricesInv
<1>1. /\ ~slept /\ run' = run /\ rows' = rows /\ perf' = perf
      /\ \A p \in Procs : run[p].work = <<>>
  BY DEF Tick, history
<1>2. ASSUME NEW p \in Procs
      PROVE  PricesProc(p)'
  <2>1. run[p].pc \notin {"fill", "measure"}
    BY <1>1, Actor DEF LocalOK, TypesInv, Working
  <2> QED
    BY <1>1, <2>1 DEF PricesProc, At
<1>3. \A k \in Keys, h \in Horizons : PointOK(k, h)'
  BY <1>1 DEF PricesInv, PointOK
<1> QED
  BY <1>2, <1>3

LEMMA ReadPendingPrices ==
    ASSUME TypesInv, PricesInv, NEW p \in Procs, ReadPending(p)
    PROVE  PricesProc(p)'
<1> DEFINE own == IF run[p].own THEN {Key(p)} ELSE {}
           tickers == IF Key(p) = Command THEN Tickers ELSE {Key(p)[1]}
           due == PendingRows(rows, perf, tickers, ResolveLimit + Cardinality(own))
           others == ElementsAt(due, {i \in DOMAIN due : due[i] \notin own})
           chosen == Grouped(UpTo(ResolveLimit, others))
           work == [i \in DOMAIN chosen |-> Row(chosen[i], Missing(perf[chosen[i]]))]
           pc == IF chosen # <<>> THEN "load" ELSE Done(p)
<1>1. PICK l \in Locals : l = run[p] /\ l.pc = "pending"
  BY Actor DEF TypesInv, ReadPending, At
<1>2. own \in SUBSET Keys /\ IsFiniteSet(own)
  BY KeyOfRun, FS_EmptySet, FS_Singleton DEF TypesInv
<1>3. run' = [run EXCEPT ![p].own = FALSE, ![p].work = work, ![p].pc = pc] /\ UNCHANGED rows
  BY DEF ReadPending, history
<1> HIDE DEF own, tickers
<1>4. chosen \in Seq(Keys)
  BY <1>2, ChosenType DEF TypesInv
<1> HIDE DEF chosen
<1>5. \A i \in DOMAIN work : WorkOK(work[i])
  <2>1. \A i \in DOMAIN chosen : chosen[i] \in Keys
    BY <1>4, ElementOfSeq, LenProperties
  <2> QED
    BY <2>1, RowOK
<1>6. PICK v, c : v = work /\ c = pc /\ c \notin {"fill", "measure"}
  <2>1. pc \notin {"fill", "measure"}
    BY DEF Done
  <2> HIDE DEF work, pc
  <2> QED
    BY <2>1
<1> HIDE DEF work, pc
<1>7. run'[p].work = v /\ run'[p].pc = c
  BY <1>1, <1>3, <1>6 DEF Locals, TypesInv, Types
<1>8. \A i \in DOMAIN v : WorkOK(v[i])'
  <2>1. UNCHANGED <<rows, today>>
    BY DEF ReadPending, history
  <2> QED
    BY <1>5, <1>6, <2>1, WorkStays
<1> QED
  BY <1>6, <1>7, <1>8 DEF PricesProc, At

LEMMA ReadOwnPrices ==
    ASSUME TypesInv, PricesInv, NEW p \in Procs, ReadOwn(p)
    PROVE  PricesProc(p)'
<1>1. PICK l \in Locals : l = run[p] /\ l.pc = "read"
  BY Actor DEF TypesInv, ReadOwn, At
<1>2. PICK w : w = Row(Key(p), Horizons) /\ WorkOK(w)
  BY <1>1, KeyOfRun, RowOK DEF TypesInv, Working
<1>3. run' = [run EXCEPT ![p].pc = "load", ![p].work = <<w>>]
  BY <1>2 DEF ReadOwn
<1>4. run'[p].work = <<w>> /\ run'[p].pc = "load"
  BY <1>1, <1>3 DEF Locals, TypesInv, Types
<1>5. WorkOK(w)'
  <2>1. UNCHANGED <<rows, today>>
    BY DEF ReadOwn, history
  <2> QED
    BY <1>2, <2>1, WorkStays
<1> QED
  BY <1>4, <1>5 DEF PricesProc, At

LEMMA LoadPrices ==
    ASSUME TypesInv, PricesInv, ~slept, NEW p \in Procs, NEW bench \in BOOLEAN, Load(p, bench)
    PROVE  PricesProc(p)'
<1>1. PICK l \in Locals : l = run[p]
  BY Actor DEF TypesInv
<1>2. PICK m : m = [day |-> today, bench |-> bench]
  OBVIOUS
<1>3. run' = [run EXCEPT ![p].pc = "fill", ![p].market = m] /\ UNCHANGED <<rows, today>>
  BY <1>2 DEF Load, history
<1>4. run'[p].work = l.work /\ run'[p].pc = "fill" /\ run'[p].market = m /\ m.day = today
  BY <1>1, <1>2, <1>3 DEF Locals, TypesInv, Types
<1>5. \A i \in DOMAIN l.work : WorkOK(l.work[i])'
  BY <1>1, <1>3, WorkStays DEF PricesInv, PricesProc
<1> QED
  BY <1>3, <1>4, <1>5 DEF PricesProc, At

\* A process that goes on with some of its rows.
LEMMA ContinuePrices ==
    ASSUME TypesInv, PricesInv, ~slept, NEW p \in Procs, run[p].pc \in Working,
           NEW work \in Seq(Works), Continue(p, work), UNCHANGED <<rows, today, runs>>,
           \A i \in DOMAIN work : \E j \in DOMAIN run[p].work : work[i] = run[p].work[j],
           work # <<>> /\ work[1].key[1] = run[p].work[1].key[1] => run[p].pc = "measure"
    PROVE  PricesProc(p)'
<1>0. LocalOK(run[p], runs) /\ Types
  BY Actor DEF TypesInv
<1>1. PICK r : /\ run' = [run EXCEPT ![p] = r]
               /\ r.pc \in {"fill", "load", "pending", "idle", "log"}
               /\ r.work = work /\ r.market = IF work = <<>> THEN <<>> ELSE run[p].market
               /\ r.pc \in Working <=> work # <<>>
               /\ r.pc = "fill" => work[1].key[1] = run[p].work[1].key[1]
  <2>1. run[p].pc = "measure" => run[p].market \in Markets
    BY <1>0 DEF LocalOK
  <2> QED
    BY <1>0, <2>1, ContinueOK
<1>2. run'[p] = r
  BY <1>0, <1>1 DEF Types
<1>3. PricesProc(p)
  BY DEF PricesInv
<1>4. \A i \in DOMAIN work : WorkOK(work[i])'
  <2>1. \A i \in DOMAIN work : WorkOK(work[i])
    BY <1>3 DEF PricesProc
  <2> QED
    BY <2>1, WorkStays
<1>5. r.pc = "fill" => r.market = run[p].market /\ run[p].pc = "measure"
  BY <1>1 DEF Working
<1> QED
  BY <1>1, <1>2, <1>3, <1>4, <1>5 DEF PricesProc, At

LEMMA LoadFailsPrices ==
    ASSUME TypesInv, PricesInv, ~slept, NEW p \in Procs, LoadFails(p)
    PROVE  PricesProc(p)'
<1> DEFINE old == run[p].work
           others == {i \in DOMAIN old : old[i].key[1] # old[1].key[1]}
<1>1. PICK work : work = ElementsAt(old, others)
  OBVIOUS
<1>2. Continue(p, work) /\ UNCHANGED <<rows, today, runs>> /\ run[p].pc = "load"
  BY <1>1 DEF LoadFails, At, history
<1>3. PICK s \in Seq(Works) : s = old
  BY Actor DEF Locals, TypesInv
<1>4. PICK S \in SUBSET DOMAIN s : S = others
  BY <1>3
<1> HIDE DEF others
<1>5. /\ work \in Seq(Works) /\ DOMAIN work = 1..Cardinality(S)
      /\ \A n \in 1..Cardinality(S) : Nth(S, n) \in S /\ work[n] = s[Nth(S, n)]
      /\ Len(work) = Cardinality(S) /\ Cardinality(S) \in Nat
  BY <1>1, <1>3, <1>4, ElementsAtProperties
<1>6. \A i \in DOMAIN work : \E j \in DOMAIN old : work[i] = old[j]
  BY <1>3, <1>4, <1>5
<1>7. work # <<>> => work[1].key[1] # old[1].key[1]
  <2>1. work # <<>> => 1 \in 1..Cardinality(S)
    BY <1>5, EmptySeq
  <2>2. work # <<>> => work[1] = old[Nth(S, 1)] /\ Nth(S, 1) \in others
    BY <1>3, <1>4, <1>5, <2>1
  <2> QED
    BY <2>2 DEF others
<1> HIDE DEF old
<1> QED
  BY <1>2, <1>5, <1>6, <1>7, ContinuePrices DEF Working, old

\* What a process fills in is a price of today, and the one it measures with.
LEMMA FillOf ==
    ASSUME TypesInv, PricesInv, ~slept, NEW p \in Procs, Fill(p)
    PROVE  \E w \in Works, m \in Markets, k \in Keys :
              /\ w = Head(run[p].work) /\ m = run[p].market /\ k = w.key
              /\ \A j \in Keys : j # k => rows'[j] = rows[j]
              /\ EntryOf(w, m) \in {NoPrice, rows'[k].entry}
              /\ BenchEntryOf(w, m) \in {NoPrice, rows'[k].bentry}
              /\ rows'[k].entry # rows[k].entry =>
                    rows[k].entry = NoPrice /\ rows'[k].entry = TodaysEntry(k)
              /\ rows'[k].bentry # rows[k].bentry =>
                    rows[k].bentry = NoPrice /\ rows'[k].bentry = TodaysBench(k)
<1>1. Types /\ rows \in [Keys -> Rows] /\ run[p].pc = "fill"
  BY DEF TypesInv, Types, Files, Fill, At
<1>2. PICK w \in Works, m \in Markets, e \in Price, b \in Price :
              /\ w = Head(run[p].work) /\ m = run[p].market /\ w.key \in Keys
              /\ e = EntryOf(w, m) /\ b = BenchEntryOf(w, m)
              /\ rows' = Filled(rows, w.key, e, b)
  BY <1>1, FillFacts
<1>3. PICK k \in Keys : k = w.key
  BY <1>2
<1>4. /\ rows' = Filled(rows, k, e, b) /\ rows \in [Keys -> Rows]
      /\ k \in Keys /\ e \in Price /\ b \in Price
  BY <1>1, <1>2, <1>3
<1>5. /\ rows'[k].entry = Coalesce(rows[k].entry, e)
      /\ rows'[k].bentry = Coalesce(rows[k].bentry, b)
      /\ \A j \in Keys : j # k => rows'[j] = rows[j]
  BY <1>4, FilledFacts
<1>6. WorkOK(w) /\ m.day = today
  <2>1. PricesProc(p)
    BY DEF PricesInv
  <2>2. run[p].work \in Seq(Works) /\ run[p].work # <<>> /\ w = run[p].work[1]
    BY <1>1, <1>2, HeadOfWork DEF Working
  <2>3. 1 \in DOMAIN run[p].work
    BY <2>2, LenProperties, EmptySeq
  <2> QED
    BY <1>1, <1>2, <2>1, <2>2, <2>3 DEF PricesProc
<1>7. /\ e \in {NoPrice, w.entry} \/ (w.entry = NoPrice /\ e = TodaysEntry(k))
      /\ b \in {NoPrice, w.bentry} \/ (w.bentry = NoPrice /\ b = TodaysBench(k))
  BY <1>2, <1>3, <1>6, SnapshotToday
<1>8. /\ w.entry # NoPrice => rows[k].entry = w.entry
      /\ w.bentry # NoPrice => rows[k].bentry = w.bentry
      /\ w.entry = NoPrice /\ rows[k].entry # NoPrice => rows[k].entry = TodaysEntry(k)
      /\ w.bentry = NoPrice /\ rows[k].bentry # NoPrice => rows[k].bentry = TodaysBench(k)
  BY <1>3, <1>6 DEF WorkOK
<1>9. /\ e \in {NoPrice, rows'[k].entry}
      /\ rows'[k].entry # rows[k].entry =>
              rows[k].entry = NoPrice /\ rows'[k].entry = TodaysEntry(k)
  BY <1>5, <1>7, <1>8 DEF Coalesce
<1>10. /\ b \in {NoPrice, rows'[k].bentry}
       /\ rows'[k].bentry # rows[k].bentry =>
              rows[k].bentry = NoPrice /\ rows'[k].bentry = TodaysBench(k)
  BY <1>5, <1>7, <1>8 DEF Coalesce
<1> QED
  BY <1>2, <1>3, <1>5, <1>9, <1>10

LEMMA FillPrices ==
    ASSUME TypesInv, PricesInv, NEW p \in Procs, Fill(p)
    PROVE  PricesInv'
<1>1. UNCHANGED <<today, perf, slept>> /\ run[p].pc = "fill"
  BY DEF Fill, At
<1> SUFFICES ASSUME ~slept
             PROVE  (\A q \in Procs : PricesProc(q)') /\ \A k \in Keys, h \in Horizons : PointOK(k, h)'
  BY <1>1 DEF PricesInv
<1>2. PICK w \in Works, m \in Markets, k \in Keys :
              /\ w = Head(run[p].work) /\ m = run[p].market /\ k = w.key
              /\ \A j \in Keys : j # k => rows'[j] = rows[j]
              /\ EntryOf(w, m) \in {NoPrice, rows'[k].entry}
              /\ BenchEntryOf(w, m) \in {NoPrice, rows'[k].bentry}
              /\ rows'[k].entry # rows[k].entry =>
                    rows[k].entry = NoPrice /\ rows'[k].entry = TodaysEntry(k)
              /\ rows'[k].bentry # rows[k].bentry =>
                    rows[k].bentry = NoPrice /\ rows'[k].bentry = TodaysBench(k)
  BY FillOf
<1>3. PICK l \in Locals : l = run[p]
  BY Actor DEF TypesInv
<1>4. /\ run'[p].work = l.work /\ run'[p].market = l.market /\ run'[p].pc = "measure"
      /\ \A q \in Procs \ {p} : run'[q] = run[q]
  BY <1>3 DEF Fill, Goto, Locals, TypesInv, Types
<1>5. ASSUME NEW j
      PROVE  TodaysEntry(j)' = TodaysEntry(j) /\ TodaysBench(j)' = TodaysBench(j)
  BY <1>1 DEF TodaysEntry, TodaysBench, Now
<1>6. ASSUME NEW v \in Works, WorkOK(v)
      PROVE  WorkOK(v)'
  <2>1. CASE v.key # k
    <3>1. v.key \in Keys
      BY DEF Works
    <3>2. rows'[v.key] = rows[v.key]
      BY <1>2, <2>1, <3>1
    <3> QED
      BY <1>5, <1>6, <3>2 DEF WorkOK
  <2>2. CASE v.key = k
    <3>1. /\ v.entry # NoPrice => rows'[k].entry = v.entry
          /\ v.entry = NoPrice /\ rows'[k].entry # NoPrice => rows'[k].entry = TodaysEntry(k)
      BY <1>2, <1>6, <2>2 DEF WorkOK
    <3>2. /\ v.bentry # NoPrice => rows'[k].bentry = v.bentry
          /\ v.bentry = NoPrice /\ rows'[k].bentry # NoPrice => rows'[k].bentry = TodaysBench(k)
      BY <1>2, <1>6, <2>2 DEF WorkOK
    <3> QED
      BY <1>5, <2>2, <3>1, <3>2 DEF WorkOK
  <2> QED
    BY <2>1, <2>2
<1>7. ASSUME NEW q \in Procs
      PROVE  PricesProc(q)'
  <2>0. PICK n : n = run[q].market
    OBVIOUS
  <2>1. PICK s \in Seq(Works) : s = run[q].work /\ n = run[q].market
    BY <2>0, Actor DEF TypesInv, Locals
  <2>2. PricesProc(q) /\ run'[q].work = s /\ run'[q].market = n
    BY <1>3, <1>4, <2>1 DEF PricesInv
  <2>3. \A i \in DOMAIN s : WorkOK(s[i])'
    <3>1. \A i \in DOMAIN s : s[i] \in Works
      BY ElementOfSeq, LenProperties
    <3> QED
      BY <1>6, <2>1, <2>2, <3>1 DEF PricesProc
  <2>4. run'[q].pc \in {"fill", "measure"} => n.day = today'
    <3>1. run'[q].pc \in {"fill", "measure"} => run[q].pc \in {"fill", "measure"}
      BY <1>1, <1>4
    <3> QED
      BY <1>1, <2>1, <2>2, <3>1 DEF PricesProc
  <2>5. At(q, "measure")' => PricesFit(Head(s), n)'
    <3>1. CASE q = p
      BY <1>2, <2>1, <3>1 DEF PricesFit
    <3>2. CASE q # p
      <4>1. ASSUME At(q, "measure")
            PROVE  PricesFit(Head(s), n)'
        <5>1. PICK v \in Works : v = Head(s) /\ v.key \in Keys
          BY <2>1, <4>1, HeadOfWork DEF TypesInv, At, Working, Works
        <5>2. /\ EntryOf(v, n) \in {NoPrice, rows[v.key].entry}
              /\ BenchEntryOf(v, n) \in {NoPrice, rows[v.key].bentry}
          BY <2>1, <2>2, <4>1, <5>1 DEF PricesProc, PricesFit
        <5>3. /\ rows'[v.key].entry # rows[v.key].entry => rows[v.key].entry = NoPrice
              /\ rows'[v.key].bentry # rows[v.key].bentry => rows[v.key].bentry = NoPrice
          BY <1>2, <5>1
        <5>4. /\ EntryOf(v, n) \in {NoPrice, rows'[v.key].entry}
              /\ BenchEntryOf(v, n) \in {NoPrice, rows'[v.key].bentry}
          BY <5>2, <5>3
        <5> QED
          BY <5>1, <5>4 DEF PricesFit
      <4> QED
        BY <1>4, <3>2, <4>1 DEF At
    <3> QED
      BY <3>1, <3>2
  <2> QED
    BY <2>2, <2>3, <2>4, <2>5 DEF PricesProc
<1>8. ASSUME NEW j \in Keys, NEW h \in Horizons
      PROVE  PointOK(j, h)'
  <2>1. PointOK(j, h)
    BY DEF PricesInv
  <2>2. /\ rows[j].entry # NoPrice => rows'[j].entry = rows[j].entry
        /\ rows[j].bentry # NoPrice => rows'[j].bentry = rows[j].bentry
    BY <1>2
  <2> QED
    BY <1>1, <2>1, <2>2 DEF PointOK
<1> QED
  BY <1>7, <1>8


\* A point divides by the snapshots and is taken h sessions after its date.
LEMMA MeasuredPoint ==
    ASSUME NEW w \in Works, NEW m \in Markets, NEW h \in Reached(w, m)
    PROVE  /\ PointOf(w, h, m).from = EntryOf(w, m) /\ EntryOf(w, m) # NoPrice
           /\ Cardinality({s \in StockDays[w.key[1]] :
                               w.key[2] < s /\ s <= PointOf(w, h, m).to.day}) = h
           /\ Complete(PointOf(w, h, m)) =>
                 /\ PointOf(w, h, m).bfrom = BenchEntryOf(w, m)
                 /\ BenchEntryOf(w, m) # NoPrice
                 /\ PointOf(w, h, m).bto = PointOf(w, h, m).to
<1> DEFINE t == w.key[1]
           d == w.key[2]
           target == CHOOSE s \in Target(t, d, h, m) : TRUE
           alpha == BenchEntryOf(w, m) # NoPrice /\ target \in Bench(t, m)
<1>2. target \in Target(t, d, h, m) /\ target \in Nat /\ target <= m.day /\ EntryOf(w, m) # NoPrice
  BY TargetFacts
<1>3. alpha => BenchEntryOf(w, m) # NoPrice
  OBVIOUS
<1>4. PointOf(w, h, m) =
          [from |-> EntryOf(w, m), to |-> Close(target, m),
           bfrom |-> IF alpha THEN BenchEntryOf(w, m) ELSE NoPrice,
           bto |-> IF alpha THEN Close(target, m) ELSE NoPrice]
  BY DEF PointOf
<1> HIDE DEF target, alpha
<1>5. /\ PointOf(w, h, m).from = EntryOf(w, m) /\ PointOf(w, h, m).to = Close(target, m)
      /\ PointOf(w, h, m).bfrom = IF alpha THEN BenchEntryOf(w, m) ELSE NoPrice
      /\ PointOf(w, h, m).bto = IF alpha THEN Close(target, m) ELSE NoPrice
      /\ PointOf(w, h, m).to.day = target
  BY <1>4 DEF Close
<1>6. {s \in StockDays[t] : d < s /\ s <= target} =
          {x \in Stock(t, m) : d < x /\ x <= target}
  <2>1. StockDays[t] \subseteq Nat /\ m.day \in Nat
    BY DayFacts DEF Works, Markets
  <2>2. \A s \in StockDays[t] : s <= target => s <= m.day
    BY <1>2, <2>1
  <2> QED
    BY <2>2 DEF Stock
<1>7. Cardinality({x \in Stock(t, m) : d < x /\ x <= target}) = h
  BY <1>2 DEF Target
<1>8. Complete(PointOf(w, h, m)) => alpha
  BY <1>5 DEF Complete
<1> QED
  BY <1>2, <1>3, <1>5, <1>6, <1>7, <1>8

LEMMA MeasurePrices ==
    ASSUME TypesInv, PricesInv, NEW p \in Procs, Measure(p)
    PROVE  PricesInv'
<1>1. /\ UNCHANGED <<today, rows, slept, runs>> /\ run[p].pc = "measure"
      /\ Continue(p, Tail(run[p].work))
  BY DEF Measure, At
<1> SUFFICES ASSUME ~slept
             PROVE  (\A q \in Procs : PricesProc(q)') /\ \A k \in Keys, h \in Horizons : PointOK(k, h)'
  BY <1>1 DEF PricesInv
<1>2. Types /\ perf \in [Keys -> [Horizons -> Points]]
  BY DEF TypesInv, Types, Files
<1>3. PICK s \in Seq(Works), tail \in Seq(Works) :
          /\ s = run[p].work /\ tail = Tail(run[p].work) /\ s # <<>>
          /\ Len(tail) = Len(s) - 1 /\ \A i \in 1..Len(tail) : tail[i] = s[i + 1]
  BY <1>1, <1>2, HeadOfWork DEF Working
<1>4. PricesProc(p)'
  <2>1. \A i \in DOMAIN tail : \E j \in DOMAIN s : tail[i] = s[j]
    <3>1. DOMAIN tail = 1..Len(tail) /\ DOMAIN s = 1..Len(s) /\ Len(s) \in Nat /\ Len(tail) \in Nat
      BY LenProperties
    <3>2. \A i \in 1..Len(tail) : i + 1 \in 1..Len(s)
      BY <1>3, <3>1
    <3> QED
      BY <1>3, <3>1, <3>2
  <2> QED
    BY <1>1, <1>3, <2>1, ContinuePrices DEF Working
<1>5. ASSUME NEW q \in Procs \ {p}
      PROVE  PricesProc(q)'
  <2>1. PricesProc(q) /\ run'[q] = run[q]
    BY <1>1, <1>2, <1>5 DEF PricesInv, Continue, Types
  <2>2. PICK v, n : v = run[q].work /\ n = run[q].market
    OBVIOUS
  <2>3. \A i \in DOMAIN v : WorkOK(v[i])'
    BY <1>1, <2>1, <2>2, WorkStays DEF PricesProc
  <2>4. At(q, "measure")' => PricesFit(Head(v), n)'
    BY <1>1, <2>1, <2>2 DEF PricesProc, PricesFit, At
  <2> QED
    BY <1>1, <2>1, <2>2, <2>3, <2>4 DEF PricesProc
<1>6. PICK w \in Works, m \in Markets, k \in Keys :
          w = Head(run[p].work) /\ m = run[p].market /\ k = w.key
  <2>1. run[p].market \in Markets /\ Head(run[p].work) \in Works
    BY <1>1, <1>2, Actor, HeadOfWork DEF LocalOK, Working
  <2> QED
    BY <2>1 DEF Works
<1>7. /\ EntryOf(w, m) \in {NoPrice, rows[k].entry}
      /\ BenchEntryOf(w, m) \in {NoPrice, rows[k].bentry}
  BY <1>1, <1>6 DEF PricesInv, PricesProc, PricesFit, At
<1>8. perf' = [perf EXCEPT ![k] = Measured(perf[k], w, m)]
  BY <1>6 DEF Measure
<1>9. ASSUME NEW j \in Keys, NEW h \in Horizons
      PROVE  PointOK(j, h)'
  <2>1. CASE perf'[j][h] = perf[j][h]
    BY <1>1, <2>1 DEF PricesInv, PointOK
  <2>2. CASE perf'[j][h] # perf[j][h]
    <3>1. j = k /\ perf'[j] = Measured(perf[k], w, m)
      BY <1>2, <1>8, <2>2
    <3>2. h \in Reached(w, m) /\ perf'[j][h] = PointOf(w, h, m)
      BY <2>2, <3>1 DEF Measured
    <3>3. PICK point : point = PointOf(w, h, m)
      OBVIOUS
    <3>4. /\ point.from = rows[k].entry /\ rows[k].entry # NoPrice
          /\ Cardinality({x \in StockDays[k[1]] : k[2] < x /\ x <= point.to.day}) = h
          /\ Complete(point) =>
                /\ point.bfrom = rows[k].bentry /\ rows[k].bentry # NoPrice
                /\ point.bto = point.to
      <4>1. /\ point.from = EntryOf(w, m) /\ EntryOf(w, m) # NoPrice
            /\ Cardinality({x \in StockDays[w.key[1]] : w.key[2] < x /\ x <= point.to.day}) = h
            /\ Complete(point) =>
                  /\ point.bfrom = BenchEntryOf(w, m) /\ BenchEntryOf(w, m) # NoPrice
                  /\ point.bto = point.to
        BY <3>2, <3>3, MeasuredPoint
      <4>2. EntryOf(w, m) # NoPrice => EntryOf(w, m) = rows[k].entry
        BY <1>7
      <4>3. BenchEntryOf(w, m) # NoPrice => BenchEntryOf(w, m) = rows[k].bentry
        BY <1>7
      <4> QED
        BY <1>6, <4>1, <4>2, <4>3
    <3> QED
      BY <1>1, <3>1, <3>2, <3>3, <3>4 DEF PointOK
  <2> QED
    BY <2>1, <2>2
<1> QED
  BY <1>4, <1>5, <1>9

\* A step that leaves the tables and their prices alone.
LEMMA OthersPrices ==
    ASSUME TypesInv, TypesInv', PricesInv, NEW p \in Procs,
           \/ \E k \in Keys : Begin(p, k)
           \/ ReadLog(p) \/ WriteTmp(p) \/ Replace(p) \/ Die(p) \/ RecordFails(p)
           \/ BeginResolve(p) \/ LogState(p) \/ ScanLog(p) \/ AppendLog(p) \/ ClearCheckpoint(p)
    PROVE  PricesInv'
<1>1. UNCHANGED <<today, rows, perf, slept>>
  BY DEF Begin, ReadLog, WriteTmp, Replace, Die, RecordFails, BeginResolve, LogState, ScanLog,
     AppendLog, ClearCheckpoint, history
<1>2. DOMAIN run = Procs /\ run[p] \in Locals
  BY Actor DEF TypesInv, Types
<1>3. ASSUME NEW pc, Goto(p, pc), pc \notin Working
      PROVE  run'[p].pc \notin Working /\ \A q \in Procs \ {p} : run'[q] = run[q]
  <2>1. PICK l \in Locals : l = run[p]
    BY <1>2
  <2> QED
    BY <1>2, <1>3, <2>1 DEF Goto, Locals
<1>4. ASSUME NEW l, run' = [run EXCEPT ![p] = l], l.pc \notin Working
      PROVE  run'[p].pc \notin Working /\ \A q \in Procs \ {p} : run'[q] = run[q]
  BY <1>2, <1>4
<1>5. run'[p].pc \notin Working /\ \A q \in Procs \ {p} : run'[q] = run[q]
  <2>1. CASE WriteTmp(p) \/ RecordFails(p) \/ LogState(p) \/ ScanLog(p) \/ AppendLog(p)
    BY <1>3, <2>1 DEF WriteTmp, RecordFails, LogState, ScanLog, AppendLog, Working
  <2>2. CASE Die(p) \/ ClearCheckpoint(p)
    BY <1>4, <2>2 DEF Die, ClearCheckpoint, Idle, Working
  <2>3. CASE BeginResolve(p)
    BY <1>4, <2>3 DEF BeginResolve, Idle, Working
  <2>4. CASE Replace(p)
    BY <1>4, <2>4 DEF Replace, Idle, Working
  <2>5. CASE ReadLog(p)
    <3>1. PICK l \in Locals : l = run[p]
      BY <1>2
    <3>2. PICK x : x = Rewritten(log, run[p].updates)
      OBVIOUS
    <3>3. run' = [run EXCEPT ![p].pc = "write", ![p].text = x]
      BY <2>5, <3>2 DEF ReadLog
    <3> QED
      BY <1>2, <3>1, <3>3 DEF Locals, Working
  <2>6. CASE \E k \in Keys : Begin(p, k)
    <3>1. PICK k \in Keys : Begin(p, k)
      BY <2>6
    <3>2. PICK u : run' = [run EXCEPT ![p] = [Idle EXCEPT !.key = k, !.id = runs + 1,
                     !.updates = u, !.pc = IF DOMAIN u = {} THEN "graph" ELSE "rewrite"]]
      BY <3>1 DEF Begin
    <3>3. PICK c \in {"graph", "rewrite"} : c = IF DOMAIN u = {} THEN "graph" ELSE "rewrite"
      OBVIOUS
    <3>4. PICK l : l = [Idle EXCEPT !.key = k, !.id = runs + 1, !.updates = u, !.pc = c]
      OBVIOUS
    <3>5. l.pc = c
      BY <3>4 DEF Idle
    <3> QED
      BY <1>4, <3>2, <3>3, <3>4, <3>5 DEF Working
  <2> QED
    BY <2>1, <2>2, <2>3, <2>4, <2>5, <2>6
<1> QED
  BY <1>1, <1>5, NoRowsHeld, PricesKept

LEMMA RecordPrices ==
    ASSUME TypesInv, TypesInv', PricesInv, NEW p \in Procs, Record(p)
    PROVE  PricesInv'
<1>1. UNCHANGED <<today, perf, slept>>
  BY DEF Record
<1>2. PICK k \in Keys, r \in Nat : rows' = Recorded(rows, k, r)
  <2>1. Key(p) \in Keys
    BY KeyOfRun DEF Record, At, Working, TypesInv
  <2>2. run[p].id \in Nat
    BY Actor DEF Locals, TypesInv
  <2> QED
    BY <2>1, <2>2 DEF Record
<1>3. \A j \in Keys : rows'[j].entry = rows[j].entry /\ rows'[j].bentry = rows[j].bentry
  <2>1. rows \in [Keys -> Rows]
    BY DEF TypesInv, Types, Files
  <2>2. /\ rows'[k].entry = rows[k].entry /\ rows'[k].bentry = rows[k].bentry
        /\ \A j \in Keys : j # k => rows'[j] = rows[j]
    BY <1>2, <2>1, RecordedFacts
  <2> QED
    BY <2>2
<1>4. PICK l \in Locals : l = run[p]
  BY Actor DEF TypesInv
<1>5. run'[p].pc = "read" /\ \A q \in Procs \ {p} : run'[q] = run[q]
  BY <1>4 DEF Record, Locals, TypesInv, Types
<1> QED
  BY <1>1, <1>3, <1>5, NoRowsHeld, PricesKept DEF Working

\* Reading and loading: only the process itself changes.
LEMMA ReadingPrices ==
    ASSUME TypesInv, PricesInv, NEW p \in Procs,
           \/ ReadOwn(p) \/ ReadPending(p) \/ LoadFails(p)
           \/ \E bench \in BOOLEAN : Load(p, bench)
    PROVE  PricesInv'
<1>1. UNCHANGED <<today, rows, perf, slept>>
  BY DEF ReadOwn, ReadPending, LoadFails, Load, history
<1>2. \A q \in Procs \ {p} : run'[q] = run[q]
  BY DEF ReadOwn, ReadPending, LoadFails, Load, Continue, TypesInv, Types
<1>3. ~slept => PricesProc(p)'
  BY ReadOwnPrices, ReadPendingPrices, LoadFailsPrices, LoadPrices
<1> QED
  BY <1>1, <1>2, <1>3, PricesKept

LEMMA NextPrices == TypesInv /\ TypesInv' /\ PricesInv /\ [Next]_vars => PricesInv'
<1> SUFFICES ASSUME TypesInv, TypesInv', PricesInv, [Next]_vars
             PROVE  PricesInv'
  OBVIOUS
<1>1. CASE Tick
  BY <1>1, TickPrices
<1>2. ASSUME NEW p \in Procs, NEW k \in Keys, Begin(p, k)
      PROVE  PricesInv'
  BY <1>2, OthersPrices
<1>3. ASSUME NEW p \in Procs, Die(p)
      PROVE  PricesInv'
  BY <1>3, OthersPrices
<1>4. ASSUME NEW p \in Procs, Progress(p)
      PROVE  PricesInv'
  BY <1>4, OthersPrices, RecordPrices, ReadingPrices, FillPrices, MeasurePrices DEF Progress
<1>5. CASE UNCHANGED vars
  <2>1. UNCHANGED <<today, rows, perf, run, slept>>
    BY <1>5 DEF vars, history
  <2>2. CASE Procs = {}
    BY <2>1, <2>2 DEF PricesInv, PointOK
  <2>3. ASSUME NEW p \in Procs
        PROVE  PricesInv'
    <3>1. ~slept => PricesProc(p)'
      <4>1. PICK v, n : v = run[p].work /\ n = run[p].market
        OBVIOUS
      <4>2. ASSUME ~slept
            PROVE  PricesProc(p) /\ \A i \in DOMAIN v : WorkOK(v[i])'
        BY <2>1, <4>1, <4>2, WorkStays DEF PricesInv, PricesProc
      <4>3. ASSUME ~slept
            PROVE  At(p, "measure")' => PricesFit(Head(v), n)'
        BY <2>1, <4>1, <4>2, <4>3 DEF PricesProc, PricesFit, At
      <4> QED
        BY <2>1, <4>1, <4>2, <4>3 DEF PricesProc
    <3> QED
      BY <2>1, <3>1, PricesKept
  <2> QED
    BY <2>2, <2>3
<1> QED
  BY <1>1, <1>2, <1>3, <1>4, <1>5 DEF Next

\* Unless a process slept over a close with prices in hand, every return
\* divides by the stored snapshots, and stock and benchmark are measured on
\* the same session, as many sessions after the trade date as it says.
THEOREM ReturnsDivideBySnapshots == Spec => []PointsMatchSnapshots
<1>1. PricesInv => PointsMatchSnapshots
  BY DEF PricesInv, PointOK, PointsMatchSnapshots
<1> QED
  BY <1>1, TypesAlways, InitPrices, NextPrices, PTL DEF Spec

-----------------------------------------------------------------------------
(* The context of the next run.                                           *)

\* The latest n members: all of them while there are fewer, and an older one
\* belongs to them exactly while there are fewer.
LEMMA LatestWithOlder ==
    ASSUME NEW E, NEW s \in Seq(E), NEW n \in Nat, NEW S \in SUBSET DOMAIN s,
           NEW i \in DOMAIN s, \A j \in S : i < j, NEW U, U = S \cup {i}
    PROVE  /\ Cardinality(Latest(S, n)) \in Nat
           /\ Cardinality(Latest(S, n)) < n => Latest(U, n) = Latest(S, n) \cup {i}
           /\ ~(Cardinality(Latest(S, n)) < n) => Latest(U, n) = Latest(S, n)
<1> DEFINE After(j) == {k \in S : k > j}
           N == Latest(S, n)
           L == Len(s)
<1>0. L \in Nat /\ S \in SUBSET (1 .. L) /\ i \in 1 .. L
  BY LenProperties
<1>1. /\ IsFiniteSet(S) /\ Cardinality(S) \in Nat
      /\ \A T \in SUBSET S : IsFiniteSet(T) /\ Cardinality(T) \in Nat
                             /\ Cardinality(T) <= Cardinality(S)
  <2>1. IsFiniteSet(1 .. L)
    BY FS_Interval
  <2>2. IsFiniteSet(S)
    BY <1>0, <2>1, FS_Subset
  <2> QED
    BY <2>2, FS_Subset, FS_CardinalityType
<1>2. N \in SUBSET S /\ IsFiniteSet(N) /\ Cardinality(N) \in Nat
  <2>1. N \in SUBSET S
    BY DEF Latest
  <2> QED
    BY <1>1, <2>1
<1>3. ASSUME Cardinality(N) < n
      PROVE  N = S
  <2> SUFFICES ASSUME S \ N # {}
               PROVE  FALSE
    BY <1>2
  <2>1. PICK k \in S \ N : \A j \in S \ N : j <= k
    <3> DEFINE D == S \ N
    <3>1. D \in SUBSET (1 .. L) /\ D # {}
      BY <1>0
    <3> HIDE DEF D, L, N
    <3>2. \E k \in D : \A j \in D : j <= k
      BY <1>0, <3>1, GreatestOf
    <3> QED
      BY <3>2 DEF D
  <2>2. After(k) \in SUBSET N
    <3>1. ASSUME NEW j \in S, j > k
          PROVE  j \in N
      BY <2>1, <3>1
    <3> QED
      BY <3>1
  <2>3. Cardinality(After(k)) <= Cardinality(N)
    <3> HIDE DEF N, After
    <3> QED
      BY <1>2, <2>2, FS_Subset
  <2>4. Cardinality(After(k)) \in Nat
    BY <1>1
  <2>5. Cardinality(After(k)) < n
    <3> HIDE DEF N, After
    <3> QED
      BY <1>2, <1>3, <2>3, <2>4
  <2> QED
    BY <2>1, <2>5 DEF Latest
<1>4. ASSUME NEW j \in S
      PROVE  {k \in U : k > j} = After(j)
  BY <1>4
<1>5. {k \in U : k > i} = S
  <2>1. ~(i > i) /\ \A j \in S : j > i
    OBVIOUS
  <2> QED
    BY <2>1
<1>6. Latest(U, n) = N \cup (IF Cardinality(S) < n THEN {i} ELSE {})
  <2>1. \A j \in S : Cardinality({k \in U : k > j}) = Cardinality(After(j))
    BY <1>4
  <2>2. Cardinality({k \in U : k > i}) = Cardinality(S)
    BY <1>5
  <2>3. \A j \in S : j \in Latest(U, n) <=> j \in N
    BY <2>1 DEF Latest
  <2>4. i \in Latest(U, n) <=> Cardinality(S) < n
    BY <2>2 DEF Latest
  <2>5. Latest(U, n) \in SUBSET U /\ N \in SUBSET S
    BY DEF Latest
  <2> HIDE DEF N
  <2> QED
    BY <2>3, <2>4, <2>5
<1>7. Cardinality(N) < n <=> Cardinality(S) < n
  <2>1. Cardinality(N) <= Cardinality(S)
    BY <1>1, <1>2
  <2> HIDE DEF N
  <2> QED
    BY <1>1, <1>2, <1>3, <2>1
<1> QED
  BY <1>2, <1>6, <1>7

\* One step of the pass: the next older place of those it looks for is taken
\* exactly while fewer than n are.
LEMMA PassTakesOlder ==
    ASSUME NEW text \in Seq(Entries), NEW n \in Nat,
           NEW S \in SUBSET DOMAIN text, NEW i \in DOMAIN text, \A j \in S : i < j
    PROVE  /\ NewestFirst(text, S, n) \in Seq(Entries)
           /\ NewestFirst(text, S \cup {i}, n) =
                 IF Len(NewestFirst(text, S, n)) < n
                 THEN Append(NewestFirst(text, S, n), text[i]) ELSE NewestFirst(text, S, n)
<1> DEFINE N == Latest(S, n)
           e == ElementsAt(text, N)
           r == Reverse(e)
<1>1. DOMAIN text = 1 .. Len(text) /\ Len(text) \in Nat /\ text[i] \in Entries
  OBVIOUS
<1>2. /\ N \in SUBSET S /\ Cardinality(N) \in Nat
      /\ Latest(S \cup {i}, n) = IF Cardinality(N) < n THEN N \cup {i} ELSE N
  <2>1. N \in SUBSET S
    BY DEF Latest
  <2> QED
    <3> DEFINE U == S \cup {i}
    <3>1. U = S \cup {i}
      OBVIOUS
    <3> HIDE DEF N, U
    <3>2. /\ Cardinality(Latest(S, n)) \in Nat
          /\ Cardinality(Latest(S, n)) < n => Latest(U, n) = Latest(S, n) \cup {i}
          /\ ~(Cardinality(Latest(S, n)) < n) => Latest(U, n) = Latest(S, n)
      BY <3>1, LatestWithOlder
    <3> QED
      BY <2>1, <3>2 DEF N, U
<1>3. e \in Seq(Entries) /\ Len(e) = Cardinality(N)
  <2> HIDE DEF N
  <2> QED
    BY <1>2, ElementsAtProperties
<1>4. /\ r \in Seq(Entries) /\ Len(r) = Cardinality(N) /\ DOMAIN r = 1 .. Len(e)
      /\ \A k \in 1 .. Len(e) : r[k] = e[Len(e) - k + 1]
  <2> DEFINE l == Len(e)
  <2>1. l \in Nat /\ l = Cardinality(N) /\ r = [k \in 1 .. l |-> e[l - k + 1]]
    BY <1>2, <1>3 DEF Reverse
  <2>2. \A k \in 1 .. l : e[k] \in Entries
    <3> HIDE DEF e
    <3> QED
      BY <1>3
  <2> HIDE DEF N, e, r, l
  <2>3. \A k \in 1 .. l : l - k + 1 \in 1 .. l
    BY <2>1
  <2>4. r \in [1 .. l -> Entries]
    BY <2>1, <2>2, <2>3
  <2>5. r \in Seq(Entries) /\ Len(r) = l
    <3>1. l \in Nat /\ DOMAIN r = 1 .. l
      BY <2>1
    <3>2. r \in Seq(Entries)
      BY <2>4, <3>1, SeqDef
    <3> QED
      BY <3>1, <3>2, LenProperties
  <2> QED
    BY <2>1, <2>5 DEF l
<1>5. ASSUME Cardinality(N) < n
      PROVE  Reverse(ElementsAt(text, N \cup {i})) = Append(r, text[i])
  <2> HIDE DEF N
  <2> DEFINE u == <<text[i]>> \o e
             v == Reverse(u)
             w == Append(r, text[i])
  <2>1. ElementsAt(text, N \cup {i}) = u
    <3>1. N \in SUBSET DOMAIN text /\ \A j \in N : i < j
      BY <1>2
    <3> QED
      BY <3>1, ElementsAtFirst
  <2> HIDE DEF e
  <2>2. /\ u \in Seq(Entries) /\ Len(u) = Len(e) + 1 /\ u[1] = text[i]
        /\ \A k \in 1 .. Len(e) : u[k + 1] = e[k]
    <3>1. <<text[i]>> \in Seq(Entries) /\ Len(<<text[i]>>) = 1 /\ <<text[i]>>[1] = text[i]
      BY <1>1
    <3> QED
      BY <1>2, <1>3, <3>1, ConcatProperties
  <2>3. Len(e) \in Nat /\ Len(r) = Len(e)
    BY <1>2, <1>3, <1>4
  <2> HIDE DEF u, r
  <2>4. /\ v \in Seq(Entries) /\ Len(v) = Len(e) + 1
        /\ \A k \in 1 .. Len(e) + 1 : v[k] = u[Len(e) + 1 - k + 1]
    BY <2>2, <2>3 DEF Reverse
  <2>5. /\ w \in Seq(Entries) /\ Len(w) = Len(e) + 1 /\ w[Len(e) + 1] = text[i]
        /\ \A k \in 1 .. Len(e) : w[k] = r[k]
    BY <1>1, <1>4, <2>3, AppendProperties
  <2> HIDE DEF v, w
  <2>6. ASSUME NEW k \in 1 .. Len(e) + 1
        PROVE  v[k] = w[k]
    <3>1. CASE k = Len(e) + 1
      <4>1. Len(e) + 1 - k + 1 = 1
        BY <2>3, <3>1
      <4> QED
        BY <2>2, <2>4, <2>5, <3>1, <4>1
    <3>2. CASE k # Len(e) + 1
      <4>1. /\ k \in 1 .. Len(e) /\ Len(e) - k + 1 \in 1 .. Len(e)
            /\ Len(e) + 1 - k + 1 = (Len(e) - k + 1) + 1
        BY <2>3, <3>2
      <4>2. v[k] = e[Len(e) - k + 1]
        BY <2>2, <2>4, <4>1
      <4> QED
        BY <1>4, <2>5, <4>1, <4>2 DEF r
    <3> QED
      BY <3>1, <3>2
  <2>7. v = w
    BY <2>3, <2>4, <2>5, <2>6, SeqEqual
  <2> QED
    BY <2>1, <2>7 DEF v, w
<1> QED
  BY <1>2, <1>4, <1>5 DEF NewestFirst

\* What the pass has seen after n entries from the newest is what is latest
\* among them; so is what it returns.
LEMMA PastContextProperties ==
    ASSUME NEW text \in Seq(Entries), NEW t
    PROVE  PastContext(text, t) =
             [same |-> NewestFirst(text, {i \in Resolved(text) : text[i].key[1] = t}, NSame),
              cross |-> NewestFirst(text, {i \in Resolved(text) : text[i].key[1] # t}, NCross)]
<1> DEFINE L == Len(text)
           Own(n) == {i \in Resolved(text) : text[i].key[1] = t /\ L - n < i}
           Others(n) == {i \in Resolved(text) : text[i].key[1] # t /\ L - n < i}
           Seen(n) == [same |-> NewestFirst(text, Own(n), NSame),
                       cross |-> NewestFirst(text, Others(n), NCross)]
           empty == [same |-> <<>>, cross |-> <<>>]
           Pass(f) == [n \in 0 .. L |-> IF n = 0 THEN empty
                                        ELSE Take(f[n - 1], text[L - n + 1], t)]
           F == [n \in 0 .. L |-> Seen(n)]
           seen == CHOOSE f : f = Pass(f)
<1>1. L \in Nat /\ DOMAIN text = 1 .. L /\ NSame \in Nat /\ NCross \in Nat
  BY LogAssumption
<1>2. \A n \in 0 .. L : Own(n) \in SUBSET DOMAIN text /\ Others(n) \in SUBSET DOMAIN text
  BY DEF Resolved
<1>3. Seen(0) = empty
  <2>1. Own(0) = {} /\ Others(0) = {}
    BY <1>1 DEF Resolved
  <2>2. \A n : Latest({}, n) = {}
    BY DEF Latest
  <2>3. \A n : NewestFirst(text, {}, n) = <<>>
    <3>1. Reverse(<<>>) = <<>>
      BY DEF Reverse
    <3> QED
      BY <2>2, <3>1, ElementsAtNone DEF NewestFirst
  <2> QED
    BY <2>1, <2>3
<1>4. ASSUME NEW n \in 1 .. L
      PROVE  Seen(n) = Take(Seen(n - 1), text[L - n + 1], t)
  <2> DEFINE i == L - n + 1
             P == Own(n - 1)
             Q == Others(n - 1)
  <2>1. i \in DOMAIN text /\ n - 1 \in 0 .. L /\ L - (n - 1) = i /\ n \in 0 .. L
    BY <1>1
  <2>2. P \in SUBSET DOMAIN text /\ Q \in SUBSET DOMAIN text
    BY <1>2, <2>1
  <2>3. \A j \in P \cup Q : i < j
    BY <2>1
  <2>4. \A j \in DOMAIN text : L - n < j <=> j = i \/ i < j
    BY <1>1
  <2>5. Own(n) = IF ~IsPending(text[i]) /\ text[i].key[1] = t THEN P \cup {i} ELSE P
    BY <2>1, <2>4 DEF Resolved
  <2>6. Others(n) = IF ~IsPending(text[i]) /\ text[i].key[1] # t THEN Q \cup {i} ELSE Q
    BY <2>1, <2>4 DEF Resolved
  <2> HIDE DEF i, P, Q
  <2>7. NewestFirst(text, P \cup {i}, NSame) =
           IF Len(NewestFirst(text, P, NSame)) < NSame
           THEN Append(NewestFirst(text, P, NSame), text[i]) ELSE NewestFirst(text, P, NSame)
    BY <1>1, <2>1, <2>2, <2>3, PassTakesOlder
  <2>8. NewestFirst(text, Q \cup {i}, NCross) =
           IF Len(NewestFirst(text, Q, NCross)) < NCross
           THEN Append(NewestFirst(text, Q, NCross), text[i]) ELSE NewestFirst(text, Q, NCross)
    BY <1>1, <2>1, <2>2, <2>3, PassTakesOlder
  <2>9. Seen(n - 1) = [same |-> NewestFirst(text, P, NSame), cross |-> NewestFirst(text, Q, NCross)]
    BY DEF P, Q
  <2> HIDE DEF Own, Others
  <2>10. Seen(n) = Take([same |-> NewestFirst(text, P, NSame),
                         cross |-> NewestFirst(text, Q, NCross)], text[i], t)
    <3>1. CASE IsPending(text[i])
      BY <2>5, <2>6, <3>1 DEF Take
    <3>2. CASE ~IsPending(text[i]) /\ text[i].key[1] = t
      BY <2>5, <2>6, <2>7, <3>2 DEF Take
    <3>3. CASE ~IsPending(text[i]) /\ text[i].key[1] # t
      BY <2>5, <2>6, <2>8, <3>3 DEF Take
    <3> QED
      BY <3>1, <3>2, <3>3
  <2> QED
    BY <2>9, <2>10 DEF i
<1> HIDE DEF Seen, empty
<1>5. F = Pass(F)
  <2>1. ASSUME NEW n \in 0 .. L
        PROVE  F[n] = Pass(F)[n]
    <3>1. CASE n = 0
      BY <1>1, <1>3, <3>1
    <3>2. CASE n # 0
      <4>1. n \in 1 .. L /\ n - 1 \in 0 .. L
        BY <1>1, <3>2
      <4> QED
        BY <1>4, <3>2, <4>1
    <3> QED
      BY <3>1, <3>2
  <2> QED
    BY <2>1
<1>6. seen = Pass(seen)
  <2> HIDE DEF F, Pass
  <2> QED
    BY <1>5
<1>7. ASSUME NEW n \in 0 .. L
      PROVE  seen[n] = Seen(n)
  <2> DEFINE Bad == {m \in 0 .. L : seen[m] # Seen(m)}
  <2> HIDE DEF seen
  <2> SUFFICES ASSUME Bad # {}
               PROVE  FALSE
    OBVIOUS
  <2>1. PICK m \in Bad : \A k \in Bad : m <= k
    <3>1. Bad \in SUBSET Nat
      OBVIOUS
    <3> QED
      BY <3>1, LeastOf
  <2>2. m \in 0 .. L /\ seen[m] = IF m = 0 THEN empty ELSE Take(seen[m - 1], text[L - m + 1], t)
    BY <1>6
  <2>3. CASE m = 0
    BY <1>3, <2>1, <2>2, <2>3
  <2>4. CASE m # 0
    <3>1. m \in 1 .. L /\ m - 1 \in 0 .. L /\ ~(m <= m - 1)
      BY <1>1, <2>2, <2>4
    <3>2. seen[m - 1] = Seen(m - 1)
      BY <2>1, <3>1
    <3> QED
      BY <1>4, <2>1, <2>2, <2>4, <3>1, <3>2
  <2> QED
    BY <2>3, <2>4
<1>8. PastContext(text, t) = seen[L]
  BY DEF PastContext, empty
<1>9. Own(L) = {i \in Resolved(text) : text[i].key[1] = t}
      /\ Others(L) = {i \in Resolved(text) : text[i].key[1] # t}
  BY <1>1 DEF Resolved
<1> QED
  <2> HIDE DEF seen, Own, Others
  <2>1. L \in 0 .. L
    BY <1>1
  <2> QED
    BY <1>7, <1>8, <1>9, <2>1 DEF Seen

\* The next run of a ticker is told the latest outcomes of its own and of the
\* other tickers, newest first, whatever is on the log.
THEOREM ContextsAreLatest == Spec => []ContextIsLatest
<1>1. TypesInv => ContextIsLatest
  <2> SUFFICES ASSUME TypesInv
               PROVE  ContextIsLatest
    OBVIOUS
  <2>1. log \in Seq(Entries)
    BY DEF TypesInv, Types, Files
  <2> QED
    BY <2>1, PastContextProperties DEF ContextIsLatest, NewestFirst
<1> QED
  BY <1>1, TypesAlways, PTL

=============================================================================
