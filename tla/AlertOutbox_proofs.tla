------------------------- MODULE AlertOutbox_proofs -------------------------
(***************************************************************************)
(* What the outbox promises for any number of checkers, tickers,           *)
(* disclosures, days and faults, and any limits.                           *)
(***************************************************************************)
EXTENDS AlertOutbox, Subsequences_proofs

\* The sets of alerts the outbox and its observer hold.
Alerts ==
    /\ pending \subseteq Disclosures /\ history \subseteq Disclosures
    /\ acked \subseteq Disclosures
    /\ reclaimed \subseteq claimed
    /\ newest \in {0} \cup Disclosures
    /\ candidates \in [Checkers -> SUBSET Disclosures]

\* The history holds acknowledged alerts only, and all of them until it is full.
HistoryHolds ==
    /\ history \subseteq acked
    /\ Cardinality(acked) <= HistoryLimit => acked \subseteq history

IInv ==
    /\ Alerts
    /\ ClaimedIsKept
    /\ PendingNotDelivered
    /\ HistoryHolds
    /\ OnceWhileHistoryLasts

\* There are finitely many disclosures.
LEMMA DisclosuresFinite == IsFiniteSet(Disclosures) /\ Disclosures \subseteq Nat
  <1>1. Len(Issuer) \in Nat BY DisclosuresAssumption, LenProperties
  <1> QED BY <1>1, FS_Interval DEF Disclosures

\* acknowledge keeps a history that fits its limit whole.
LEMMA ShortHistoryKept ==
    ASSUME NEW S \in SUBSET Disclosures, Cardinality(S) <= HistoryLimit
    PROVE  Best(S, HistoryLimit, Priority) = S
  <1>1. IsFiniteSet(S) BY DisclosuresFinite, FS_Subset
  <1>2. ASSUME NEW d \in S
        PROVE  Cardinality({e \in S : Priority[e] > Priority[d]}) < HistoryLimit
    <2> DEFINE E == {e \in S : Priority[e] > Priority[d]}
    <2>1. ~(Priority[d] > Priority[d])
      <3>1. d \in Nat /\ Score[d] \in Nat /\ Len(Issuer) \in Nat
        BY DisclosuresFinite, DisclosuresAssumption, LenProperties
      <3>2. Score[d] * (Len(Issuer) + 1) \in Nat BY <3>1
      <3>3. Priority[d] \in Nat BY <3>1, <3>2 DEF Priority, Then
      <3> QED BY <3>3
    <2>2. E \subseteq S \ {d} BY <2>1
    <2>3. IsFiniteSet(S \ {d}) /\ Cardinality(S \ {d}) = Cardinality(S) - 1
      BY <1>1, FS_RemoveElement
    <2>4. Cardinality(E) <= Cardinality(S \ {d}) BY <2>2, <2>3, FS_Subset
    <2>5. IsFiniteSet(E) BY <2>2, <2>3, FS_Subset
    <2>6. Cardinality(E) \in Nat /\ Cardinality(S) \in Nat BY <1>1, <2>5, FS_CardinalityType
    <2>7. Cardinality(E) < HistoryLimit BY <2>3, <2>4, <2>6, LimitsAssumption
    <2> QED BY <2>7
  <1> QED BY <1>2 DEF Best

\* A request returns what KAP has published.
LEMMA FoundArePublished ==
    ASSUME newest \in {0} \cup Disclosures, NEW t, NEW day, NEW known
    PROVE  Select(Pool(t, day), known) \subseteq Disclosures
  <1>1. Len(Issuer) \in Nat BY DisclosuresAssumption, LenProperties
  <1>2. Pool(t, day) \subseteq Disclosures BY <1>1 DEF Pool, Disclosures
  <1> QED BY <1>2 DEF Select, Best

LEMMA InitIInv == Init => IInv
  <1>1. Cardinality({}) = 0 BY FS_EmptySet
  <1> QED BY DEF Init, IInv, Alerts, ClaimedIsKept, PendingNotDelivered,
                 HistoryHolds, OnceWhileHistoryLasts

\* A claim alerts nothing that the outbox or the history still holds.
LEMMA ClaimIInv == ASSUME IInv, NEW c \in Checkers, Claim(c) PROVE IInv'
  <1> USE DEF IInv
  <1>1. Alerts' BY DEF Alerts, Claim, End, NewAlerts, world
  <1>2. ClaimedIsKept' BY DEF ClaimedIsKept, Claim
  <1>3. PendingNotDelivered' BY DEF PendingNotDelivered, Claim, NewAlerts
  <1>4. HistoryHolds' BY DEF HistoryHolds, Claim
  <1>5. OnceWhileHistoryLasts'
    <2> SUFFICES ASSUME Cardinality(acked) <= HistoryLimit PROVE reclaimed' = {}
      BY DEF OnceWhileHistoryLasts, Claim
    <2>1. reclaimed = {} /\ acked \subseteq history BY DEF OnceWhileHistoryLasts, HistoryHolds
    <2>2. claimed \cap NewAlerts(c) = {} BY <2>1 DEF ClaimedIsKept, NewAlerts
    <2> QED BY <2>1, <2>2 DEF Claim
  <1> QED BY <1>1, <1>2, <1>3, <1>4, <1>5

\* An acknowledgement moves alerts from the outbox to the history.
LEMMA AcknowledgeIInv ==
    ASSUME IInv, NEW delivered \in SUBSET pending, Acknowledge(delivered)
    PROVE  IInv'
  <1> USE DEF IInv
  <1> DEFINE H == history \cup delivered
  <1>1. H \subseteq Disclosures /\ delivered \subseteq Disclosures BY DEF Alerts
  <1>2. history' \subseteq H BY DEF Acknowledge, Best
  <1>3. Alerts' BY <1>1, <1>2 DEF Alerts, Acknowledge, world, locals
  <1>4. ClaimedIsKept' BY DEF ClaimedIsKept, Acknowledge
  <1>5. PendingNotDelivered' BY <1>2 DEF PendingNotDelivered, Acknowledge
  <1>6. Cardinality(acked') <= HistoryLimit =>
            Cardinality(acked) <= HistoryLimit /\ history' = acked'
    <2> SUFFICES ASSUME Cardinality(acked') <= HistoryLimit
                 PROVE  Cardinality(acked) <= HistoryLimit /\ history' = acked'
      OBVIOUS
    <2>1. acked \subseteq acked' /\ acked' \subseteq Disclosures
      BY <1>1 DEF Acknowledge, Alerts
    <2>2. IsFiniteSet(acked') BY <2>1, DisclosuresFinite, FS_Subset
    <2>3. Cardinality(acked) <= Cardinality(acked') BY <2>1, <2>2, FS_Subset
    <2>4. Cardinality(acked) \in Nat /\ Cardinality(acked') \in Nat
      BY <2>1, <2>2, FS_Subset, FS_CardinalityType
    <2>5. Cardinality(acked) <= HistoryLimit BY <2>3, <2>4, LimitsAssumption
    <2>6. H = acked' BY <2>5 DEF HistoryHolds, Acknowledge
    <2>7. history' = H BY <1>1, <2>6, ShortHistoryKept DEF Acknowledge
    <2> QED BY <2>5, <2>6, <2>7
  <1>7. HistoryHolds' BY <1>2, <1>6 DEF HistoryHolds, Acknowledge
  <1>8. OnceWhileHistoryLasts' BY <1>6 DEF OnceWhileHistoryLasts, Acknowledge
  <1> QED BY <1>3, <1>4, <1>5, <1>7, <1>8

\* Every other step leaves the outbox, the history and the observer alone.
LEMMA OthersIInv ==
    ASSUME IInv, UNCHANGED <<pending, history, observer>>,
           newest' \in {0} \cup Disclosures,
           candidates' \in [Checkers -> SUBSET Disclosures]
    PROVE  IInv'
  BY DEF IInv, Alerts, ClaimedIsKept, PendingNotDelivered, HistoryHolds,
         OnceWhileHistoryLasts, observer

LEMMA NextIInv == IInv /\ [Next]_vars => IInv'
  <1> SUFFICES ASSUME IInv, [Next]_vars PROVE IInv' OBVIOUS
  <1>0. /\ newest \in {0} \cup Disclosures
        /\ candidates \in [Checkers -> SUBSET Disclosures]
    BY DEF IInv, Alerts
  <1>1. CASE Publish
    BY <1>0, <1>1, OthersIInv DEF Publish, store, locals
  <1>2. CASE Midnight
    BY <1>0, <1>2, OthersIInv DEF Midnight, store, locals
  <1>3. ASSUME NEW t \in Tickers, Watch(t) \/ Unwatch(t) PROVE IInv'
    BY <1>0, <1>3, OthersIInv DEF Watch, Unwatch, store, locals
  <1>4. ASSUME NEW delivered \in SUBSET pending, Acknowledge(delivered) PROVE IInv'
    BY <1>4, AcknowledgeIInv
  <1>5. ASSUME NEW c \in Checkers, CheckWatchlist(c) \/ CheckTickers(c) PROVE IInv'
    BY <1>0, <1>5, OthersIInv DEF CheckWatchlist, CheckTickers, Begin, store, world
  <1>6. ASSUME NEW c \in Checkers, ReadKnown(c) PROVE IInv'
    BY <1>0, <1>6, OthersIInv DEF ReadKnown, store, world
  <1>7. ASSUME NEW c \in Checkers, NEW t \in Tickers, Fetch(c, t) PROVE IInv'
    <2>1. Select(Pool(t, check[c].day), check[c].known) \subseteq Disclosures
      BY <1>0, FoundArePublished
    <2>2. candidates' \in [Checkers -> SUBSET Disclosures]
      BY <1>0, <1>7, <2>1 DEF Fetch
    <2> QED BY <1>0, <1>7, <2>2, OthersIInv DEF Fetch, store, world
  <1>8. ASSUME NEW c \in Checkers, EnsureCapacity(c) PROVE IInv'
    BY <1>0, <1>8, OthersIInv DEF EnsureCapacity, End, store, world
  <1>9. ASSUME NEW c \in Checkers, Claim(c) PROVE IInv'
    BY <1>9, ClaimIInv
  <1>10. ASSUME NEW c \in Checkers, NEW t \in Tickers, FetchFails(c, t) PROVE IInv'
    BY <1>0, <1>10, OthersIInv DEF FetchFails, store, world
  <1>11. ASSUME NEW c \in Checkers, Crash(c) \/ CrashInCapacity(c) PROVE IInv'
    BY <1>0, <1>11, OthersIInv DEF Crash, CrashInCapacity, End, store, world
  <1>12. CASE UNCHANGED vars
    BY <1>0, <1>12, OthersIInv DEF vars, world, store, locals
  <1> QED BY <1>1, <1>2, <1>3, <1>4, <1>5, <1>6, <1>7, <1>8, <1>9, <1>10, <1>11,
             <1>12 DEF Next, Step

\* While no more alerts were acknowledged than the history holds, nothing is
\* alerted twice, however small seen_limit is, however many checks overlap and
\* whatever crashes, fails or is acknowledged in between.
THEOREM AlertedOnce == Spec => []OnceWhileHistoryLasts
  <1>1. IInv => OnceWhileHistoryLasts BY DEF IInv
  <1> QED BY <1>1, InitIInv, NextIInv, PTL DEF Spec

-----------------------------------------------------------------------------
(* What the checks observe, and what the file remembers of it.             *)

\* What KAP has published in the day window of a check.
Reach(day) == {d \in 1..newest : PublishedOn[d] <= day /\ PublishedOn[d] + Lookback >= day}

Observed(c) == ToSet(check[c].observed)
Of(S, k) == {d \in S : Issuer[d] = k}

\* Every company a check has observed is accounted for in its counts.
Counted(S, w) ==
    \A k \in {Issuer[d] : d \in S} :
        \E t \in DOMAIN w : Company[t] = k /\ Cardinality(Of(S, k)) <= w[t]

CheckOK(c) ==
    /\ IsInjective(check[c].observed)
    /\ Observed(c) \subseteq Reach(check[c].day)
    /\ candidates[c] = {d \in Observed(c) : IsImportant(d)}
    /\ Counted(Observed(c), check[c].fresh)
    /\ check[c].at = "claim" => Len(check[c].observed) <= SeenLimit
    /\ check[c].at \in {"idle", "known"} => check[c].observed = <<>>

\* Claimed alerts that every later check observed are still remembered.
Remembered == claimed \ passed \subseteq ToSet(seen)

OldAreClaimed == pending \cup acked \subseteq claimed

SInv ==
    /\ IInv
    /\ TypeOK
    /\ \A c \in Checkers : CheckOK(c)
    /\ Remembered
    /\ OldAreClaimed
    /\ SeenIsClaimed
    /\ TwiceOnlyIfPassedOver

\* The domain and the elements of a sequence.
LEMMA SeqFacts ==
    ASSUME NEW T, NEW s \in Seq(T)
    PROVE  /\ Len(s) \in Nat /\ DOMAIN s = 1..Len(s)
           /\ ToSet(s) = {s[i] : i \in 1..Len(s)}
           /\ ToSet(s) \subseteq T
<1>1. Len(s) \in Nat /\ DOMAIN s = 1..Len(s)
  BY LenProperties
<1> QED
  BY <1>1, ElementOfSeq DEF ToSet

\* A sequence without repetition has as many places as elements.
LEMMA InjectiveLen ==
    ASSUME NEW T, NEW s \in Seq(T), IsInjective(s)
    PROVE  /\ IsFiniteSet(ToSet(s))
           /\ Cardinality(ToSet(s)) = Len(s)
<1>1. Len(s) \in Nat /\ DOMAIN s = 1..Len(s) /\ ToSet(s) = {s[i] : i \in 1..Len(s)}
  BY SeqFacts
<1>2. s \in Bijection(1..Len(s), ToSet(s))
  <2>1. s = [i \in 1..Len(s) |-> s[i]]
    BY <1>1, SeqDef
  <2>2. s \in [1..Len(s) -> ToSet(s)]
    BY <1>1, <2>1
  <2> QED
    BY <1>1, <2>2 DEF Bijection, Injection, Surjection, IsInjective
<1>3. IsFiniteSet(1..Len(s)) /\ Cardinality(1..Len(s)) = Len(s)
  BY <1>1, FS_Interval
<1> QED
  BY <1>2, <1>3, FS_Bijection DEF ExistsBijection

\* The n best of a set are at most n, when no two have the same key.
LEMMA BestFits ==
    ASSUME NEW S \in SUBSET Disclosures, NEW n \in Nat, NEW key \in [Disclosures -> Nat],
           \A d, e \in Disclosures : key[d] = key[e] => d = e
    PROVE  Cardinality(Best(S, n, key)) <= n
<1> DEFINE Above(d) == {e \in S : key[e] > key[d]}
           B == Best(S, n, key)
           place == [d \in B |-> Cardinality(Above(d))]
<1>1. IsFiniteSet(S)
  BY DisclosuresFinite, FS_Subset
<1>2. ASSUME NEW d \in S
      PROVE  IsFiniteSet(Above(d)) /\ Cardinality(Above(d)) \in Nat
  BY <1>1, FS_Subset, FS_CardinalityType
<1>3. ASSUME NEW d \in S, NEW e \in S, key[e] > key[d]
      PROVE  Cardinality(Above(e)) < Cardinality(Above(d))
  <2>1. key[d] \in Nat /\ key[e] \in Nat /\ \A x \in S : key[x] \in Nat
    BY <1>3
  <2>2. \A x \in S : key[x] > key[e] => key[x] > key[d]
    BY <1>3, <2>1
  <2>3. ~(key[e] > key[e])
    BY <2>1
  <2>4. Above(e) \in SUBSET Above(d) /\ e \in Above(d) /\ e \notin Above(e)
    BY <1>3, <2>2, <2>3
  <2>5. Cardinality(Above(e)) <= Cardinality(Above(d))
        /\ Cardinality(Above(e)) # Cardinality(Above(d))
    BY <1>2, <2>4, FS_Subset
  <2> QED
    BY <1>2, <2>5
<1>4. B \subseteq S /\ \A d \in B : Cardinality(Above(d)) < n
  BY DEF Best
<1>5. place \in Injection(B, 0..(n - 1))
  <2>1. place \in [B -> 0..(n - 1)]
    BY <1>2, <1>4
  <2>2. ASSUME NEW d \in B, NEW e \in B, d # e
        PROVE  place[d] # place[e]
    <3>1. d \in S /\ e \in S /\ d \in Disclosures /\ e \in Disclosures
      BY <1>4, <2>2
    <3>2. key[d] \in Nat /\ key[e] \in Nat /\ key[d] # key[e]
      BY <2>2, <3>1
    <3>3. CASE key[d] > key[e]
      BY <1>2, <1>3, <3>1, <3>3
    <3>4. CASE key[e] > key[d]
      BY <1>2, <1>3, <3>1, <3>4
    <3> QED
      BY <3>2, <3>3, <3>4
  <2> HIDE DEF place, B
  <2> QED
    BY <2>1, <2>2 DEF Injection, IsInjective
<1>6. IsFiniteSet(0..(n - 1)) /\ Cardinality(0..(n - 1)) = n
  BY FS_Interval
<1> QED
  <2> HIDE DEF B, place
  <2>1. Cardinality(B) <= n
    BY <1>5, <1>6, FS_Injection
  <2> QED
    BY <2>1 DEF B

\* Two disclosures never have the same priority.
LEMMA PriorityOrders ==
    /\ Priority \in [Disclosures -> Nat]
    /\ \A d, e \in Disclosures : Priority[d] = Priority[e] => d = e
<1> DEFINE W == Len(Issuer) + 1
<1>1. W \in Nat /\ \A d \in Disclosures : d \in 1..(W - 1) /\ Score[d] \in Nat
  BY DisclosuresAssumption, LenProperties DEF Disclosures
<1>2. \A d \in Disclosures : Priority[d] = Score[d] * W + d
  BY DEF Priority, Then
<1> HIDE DEF W
<1>3. \A d \in Disclosures : Score[d] * W \in Nat /\ Priority[d] \in Nat
  BY <1>1, <1>2
<1>4. ASSUME NEW a \in Nat, NEW b \in Nat, a < b
      PROVE  a * W + W <= b * W
  <2>1. PICK m \in Nat : b = a + m /\ m >= 1
    <3>1. b - a \in Nat /\ b = a + (b - a) /\ b - a >= 1
      BY <1>4
    <3> QED
      BY <3>1
  <2>2. b * W = a * W + m * W /\ m * W >= W
    BY <1>1, <2>1
  <2>3. a * W \in Nat /\ m * W \in Nat
    BY <1>1, <2>1
  <2> QED
    BY <1>1, <2>2, <2>3
<1>5. ASSUME NEW d \in Disclosures, NEW e \in Disclosures, Score[d] < Score[e]
      PROVE  Priority[d] # Priority[e]
  <2>1. Score[d] * W + W <= Score[e] * W
    BY <1>1, <1>4, <1>5
  <2> QED
    BY <1>1, <1>2, <1>3, <2>1
<1>6. ASSUME NEW d \in Disclosures, NEW e \in Disclosures, Priority[d] = Priority[e]
      PROVE  d = e
  <2>1. Score[d] = Score[e]
    BY <1>1, <1>5, <1>6
  <2> QED
    BY <1>1, <1>2, <1>3, <1>6, <2>1
<1>7. Priority = [d \in Disclosures |-> Priority[d]]
  BY DEF Priority
<1> QED
  BY <1>3, <1>6, <1>7

\* The elements of a concatenation.
LEMMA ConcatFacts ==
    ASSUME NEW T, NEW s \in Seq(T), NEW t \in Seq(T)
    PROVE  /\ s \o t \in Seq(T)
           /\ Len(s \o t) = Len(s) + Len(t)
           /\ ToSet(s \o t) = ToSet(s) \cup ToSet(t)
           /\ IsInjective(s) /\ IsInjective(t) /\ ToSet(s) \cap ToSet(t) = {}
                  => IsInjective(s \o t)
<1>1. /\ s \o t \in Seq(T) /\ Len(s \o t) = Len(s) + Len(t)
      /\ \A i \in 1..Len(s) + Len(t) :
            (s \o t)[i] = IF i <= Len(s) THEN s[i] ELSE t[i - Len(s)]
  BY ConcatProperties
<1>2. /\ Len(s) \in Nat /\ DOMAIN s = 1..Len(s) /\ ToSet(s) = {s[i] : i \in 1..Len(s)}
      /\ Len(t) \in Nat /\ DOMAIN t = 1..Len(t) /\ ToSet(t) = {t[i] : i \in 1..Len(t)}
      /\ DOMAIN (s \o t) = 1..Len(s) + Len(t)
      /\ ToSet(s \o t) = {(s \o t)[i] : i \in 1..Len(s) + Len(t)}
  BY <1>1, SeqFacts
<1>3. ToSet(s \o t) \subseteq ToSet(s) \cup ToSet(t)
  <2>1. ASSUME NEW i \in 1..Len(s) + Len(t)
        PROVE  (s \o t)[i] \in ToSet(s) \cup ToSet(t)
    <3>1. CASE i <= Len(s)
      BY <1>1, <1>2, <2>1, <3>1
    <3>2. CASE ~(i <= Len(s))
      <4>1. i - Len(s) \in 1..Len(t) /\ (s \o t)[i] = t[i - Len(s)]
        BY <1>1, <1>2, <2>1, <3>2
      <4> QED
        BY <1>2, <4>1
    <3> QED
      BY <3>1, <3>2
  <2> QED
    BY <1>2, <2>1
<1>4. ToSet(s) \cup ToSet(t) \subseteq ToSet(s \o t)
  <2>1. ASSUME NEW i \in 1..Len(s) PROVE s[i] \in ToSet(s \o t)
    <3>1. i \in 1..Len(s) + Len(t) /\ (s \o t)[i] = s[i]
      BY <1>1, <1>2, <2>1
    <3> QED
      BY <1>2, <3>1
  <2>2. ASSUME NEW i \in 1..Len(t) PROVE t[i] \in ToSet(s \o t)
    <3>1. /\ i + Len(s) \in 1..Len(s) + Len(t) /\ ~(i + Len(s) <= Len(s))
          /\ (i + Len(s)) - Len(s) = i
      BY <1>2, <2>2
    <3>2. (s \o t)[i + Len(s)] = t[i]
      BY <1>1, <3>1
    <3> QED
      BY <1>2, <3>1, <3>2
  <2> QED
    BY <1>2, <2>1, <2>2
<1>5. ASSUME IsInjective(s), IsInjective(t), ToSet(s) \cap ToSet(t) = {}
      PROVE  IsInjective(s \o t)
  <2>1. ASSUME NEW i \in 1..Len(s) + Len(t), NEW j \in 1..Len(s) + Len(t),
               (s \o t)[i] = (s \o t)[j]
        PROVE  i = j
    <3>1. CASE i <= Len(s) /\ j <= Len(s)
      BY <1>1, <1>2, <1>5, <2>1, <3>1 DEF IsInjective
    <3>2. CASE ~(i <= Len(s)) /\ ~(j <= Len(s))
      <4>1. /\ i - Len(s) \in 1..Len(t) /\ (s \o t)[i] = t[i - Len(s)]
            /\ j - Len(s) \in 1..Len(t) /\ (s \o t)[j] = t[j - Len(s)]
        BY <1>1, <1>2, <2>1, <3>2
      <4>2. i - Len(s) = j - Len(s)
        BY <1>2, <1>5, <2>1, <4>1 DEF IsInjective
      <4> QED
        BY <1>2, <4>2
    <3>3. CASE i <= Len(s) /\ ~(j <= Len(s))
      <4>1. i \in 1..Len(s) /\ (s \o t)[i] = s[i]
            /\ j - Len(s) \in 1..Len(t) /\ (s \o t)[j] = t[j - Len(s)]
        BY <1>1, <1>2, <2>1, <3>3
      <4>2. s[i] \in ToSet(s) /\ t[j - Len(s)] \in ToSet(t)
        BY <1>2, <4>1
      <4> QED
        BY <1>5, <2>1, <4>1, <4>2
    <3>4. CASE j <= Len(s) /\ ~(i <= Len(s))
      <4>1. j \in 1..Len(s) /\ (s \o t)[j] = s[j]
            /\ i - Len(s) \in 1..Len(t) /\ (s \o t)[i] = t[i - Len(s)]
        BY <1>1, <1>2, <2>1, <3>4
      <4>2. s[j] \in ToSet(s) /\ t[i - Len(s)] \in ToSet(t)
        BY <1>2, <4>1
      <4> QED
        BY <1>5, <2>1, <4>1, <4>2
    <3> QED
      BY <3>1, <3>2, <3>3, <3>4
  <2> QED
    BY <1>2, <2>1 DEF IsInjective
<1> QED
  BY <1>1, <1>3, <1>4, <1>5

\* A request appends each disclosure it adds once.
LEMMA ListingProperties ==
    ASSUME NEW S \in SUBSET Disclosures, NEW o \in Seq(Disclosures), IsInjective(o)
    PROVE  /\ o \o Listing(S, o) \in Seq(Disclosures)
           /\ IsInjective(o \o Listing(S, o))
           /\ ToSet(o \o Listing(S, o)) = ToSet(o) \cup S
<1> DEFINE new == S \ ToSet(o)
           C == Cardinality(new)
           L == Listing(S, o)
<1>1. IsFiniteSet(new) /\ new \in SUBSET Nat /\ new \in SUBSET Disclosures
  BY DisclosuresFinite, FS_Subset
<1>2. /\ C \in Nat
      /\ \A n \in 1..C : Nth(new, n) \in new
      /\ \A d \in new : \E n \in 1..C : Nth(new, n) = d
      /\ \A m, n \in 1..C : m < n => Nth(new, m) < Nth(new, n)
  <2> HIDE DEF new
  <2> QED
    BY <1>1, NthProperties
<1>3. DOMAIN L = 1..C /\ \A n \in 1..C : L[n] = Nth(new, C + 1 - n)
  BY DEF Listing
<1>4. L = [n \in 1..C |-> L[n]]
  BY DEF Listing
<1> HIDE DEF new, C, L
<1>5. \A n \in 1..C : C + 1 - n \in 1..C /\ C + 1 - (C + 1 - n) = n
  BY <1>2
<1>6. \A n \in 1..C : L[n] \in new
  BY <1>2, <1>3, <1>5
<1>7. L \in Seq(Disclosures) /\ Len(L) = C
  <2>1. L \in [1..C -> Disclosures]
    BY <1>1, <1>4, <1>6
  <2>2. L \in Seq(Disclosures)
    BY <1>2, <2>1, SeqDef
  <2> QED
    BY <1>2, <1>3, <2>2, LenProperties
<1>8. ToSet(L) = new
  <2>1. ToSet(L) = {L[n] : n \in 1..C}
    BY <1>7, SeqFacts
  <2>2. ASSUME NEW d \in new PROVE d \in {L[n] : n \in 1..C}
    <3>1. PICK n \in 1..C : Nth(new, n) = d
      BY <1>2, <2>2
    <3>2. C + 1 - n \in 1..C /\ L[C + 1 - n] = d
      BY <1>3, <1>5, <3>1
    <3> QED
      BY <3>2
  <2> QED
    BY <1>6, <2>1, <2>2
<1>9. IsInjective(L)
  <2>1. ASSUME NEW m \in 1..C, NEW n \in 1..C, L[m] = L[n], m < n
        PROVE  FALSE
    <3>1. C + 1 - n < C + 1 - m
      BY <1>2, <2>1
    <3>2. Nth(new, C + 1 - n) < Nth(new, C + 1 - m)
      BY <1>2, <1>5, <3>1
    <3>3. Nth(new, C + 1 - n) \in Nat /\ Nth(new, C + 1 - n) = Nth(new, C + 1 - m)
      BY <1>1, <1>2, <1>3, <1>5, <2>1
    <3> QED
      BY <3>2, <3>3
  <2>2. \A m, n \in 1..C : m = n \/ m < n \/ n < m
    BY <1>2
  <2> QED
    BY <1>3, <2>1, <2>2 DEF IsInjective
<1>10. ToSet(o) \cap ToSet(L) = {} /\ ToSet(o) \cup ToSet(L) = ToSet(o) \cup S
  BY <1>8 DEF new
<1> QED
  BY <1>7, <1>9, <1>10, ConcatFacts DEF L

\* A part of a sequence.
LEMMA PartProperties ==
    ASSUME NEW T, NEW s \in Seq(T), NEW m \in Nat \ {0}, NEW n \in Nat, m <= n, n <= Len(s)
    PROVE  /\ SubSeq(s, m, n) \in Seq(T) /\ Len(SubSeq(s, m, n)) = n - m + 1
           /\ \A i \in 1..n - m + 1 : SubSeq(s, m, n)[i] = s[m + i - 1]
<1>1. Len(s) \in Nat /\ DOMAIN s = 1..Len(s)
  BY LenProperties
<1>2. \A i \in m..n : s[i] \in T
  <2>1. \A i \in m..n : i \in 1..Len(s)
    BY <1>1
  <2> QED
    BY <2>1, ElementOfSeq
<1>3. m \in Int /\ n \in Int
  OBVIOUS
<1> QED
  BY <1>2, <1>3, SubSeqProperties

\* The list that is written keeps its limit, and all that the check observed
\* when that is within the limit.
LEMMA RememberProperties ==
    ASSUME seen \in Seq(Disclosures), IsInjective(seen),
           NEW o \in Seq(Disclosures), IsInjective(o)
    PROVE  /\ Remember(o) \in Seq(Disclosures)
           /\ IsInjective(Remember(o))
           /\ Len(Remember(o)) <= SeenLimit
           /\ ToSet(Remember(o)) \subseteq ToSet(seen) \cup ToSet(o)
           /\ Len(o) <= SeenLimit => ToSet(o) \subseteq ToSet(Remember(o))
<1> DEFINE others == {i \in DOMAIN seen : seen[i] \notin ToSet(o)}
           E == ElementsAt(seen, others)
           moved == E \o o
           R == Remember(o)
<1>1. /\ E \in Seq(Disclosures) /\ Len(E) = Cardinality(others)
      /\ Cardinality(others) \in Nat /\ others \subseteq Nat
      /\ \A n \in 1..Cardinality(others) : Nth(others, n) \in others /\ E[n] = seen[Nth(others, n)]
      /\ \A m, n \in 1..Cardinality(others) : m < n => Nth(others, m) < Nth(others, n)
  <2>1. others \in SUBSET DOMAIN seen
    OBVIOUS
  <2> HIDE DEF others
  <2> QED
    BY <2>1, ElementsAtProperties
<1>2. ToSet(E) \subseteq ToSet(seen) \ ToSet(o)
  <2>1. ToSet(E) = {E[n] : n \in 1..Cardinality(others)}
    BY <1>1, SeqFacts
  <2>2. \A i \in others : seen[i] \in ToSet(seen) \ ToSet(o)
    BY DEF ToSet
  <2> HIDE DEF others, E
  <2> QED
    BY <1>1, <2>1, <2>2
<1>3. IsInjective(E)
  <2>1. DOMAIN E = 1..Cardinality(others) /\ others \subseteq DOMAIN seen
    BY <1>1, SeqFacts
  <2> HIDE DEF others, E
  <2>2. ASSUME NEW m \in 1..Cardinality(others), NEW n \in 1..Cardinality(others),
               E[m] = E[n]
        PROVE  m = n
    <3>1. Nth(others, m) \in others /\ Nth(others, n) \in others
          /\ Nth(others, m) \in Nat /\ Nth(others, n) \in Nat
      BY <1>1
    <3>2. Nth(others, m) = Nth(others, n)
      BY <1>1, <2>1, <2>2, <3>1 DEF IsInjective
    <3>3. ~(m < n) /\ ~(n < m)
      BY <1>1, <3>1, <3>2
    <3> QED
      BY <1>1, <3>3
  <2> QED
    BY <2>1, <2>2 DEF IsInjective
<1>4. /\ moved \in Seq(Disclosures) /\ Len(moved) = Len(E) + Len(o)
      /\ ToSet(moved) = ToSet(E) \cup ToSet(o)
      /\ IsInjective(moved)
      /\ \A i \in 1..Len(E) + Len(o) : moved[i] = IF i <= Len(E) THEN E[i] ELSE o[i - Len(E)]
  <2> HIDE DEF E
  <2>1. ToSet(E) \cap ToSet(o) = {}
    BY <1>2
  <2>2. \A i \in 1..Len(E) + Len(o) : moved[i] = IF i <= Len(E) THEN E[i] ELSE o[i - Len(E)]
    BY <1>1, ConcatProperties
  <2>3. /\ moved \in Seq(Disclosures) /\ Len(moved) = Len(E) + Len(o)
        /\ ToSet(moved) = ToSet(E) \cup ToSet(o)
        /\ IsInjective(E) /\ IsInjective(o) /\ ToSet(E) \cap ToSet(o) = {}
              => IsInjective(moved)
    <3>1. E \in Seq(Disclosures)
      BY <1>1
    <3> QED
      BY <3>1, ConcatFacts
  <2> QED
    BY <1>3, <2>1, <2>2, <2>3
<1>5. R = IF Len(moved) > SeenLimit
          THEN SubSeq(moved, Len(moved) - SeenLimit + 1, Len(moved))
          ELSE moved
  BY DEF Remember
<1>6. Len(E) \in Nat /\ Len(o) \in Nat /\ SeenLimit \in Nat \ {0}
  BY <1>1, LenProperties, LimitsAssumption
<1> HIDE DEF E, moved, R, others
<1>7. CASE ~(Len(moved) > SeenLimit)
  BY <1>2, <1>4, <1>5, <1>6, <1>7 DEF R
<1>8. CASE Len(moved) > SeenLimit
  <2> DEFINE a == Len(moved) - SeenLimit
             b == Len(moved)
  <2>1. a \in Nat /\ b \in Nat /\ a + 1 \in 1..b /\ b = a + SeenLimit
    BY <1>4, <1>6, <1>8
  <2>2. R = SubSeq(moved, a + 1, b)
    BY <1>5, <1>8
  <2> HIDE DEF a
  <2>3. /\ R \in Seq(Disclosures) /\ Len(R) = b - (a + 1) + 1
        /\ \A i \in 1..b - (a + 1) + 1 : R[i] = moved[(a + 1) + i - 1]
    <3>1. /\ moved \in Seq(Disclosures) /\ a + 1 \in Nat \ {0} /\ b \in Nat
          /\ a + 1 <= b /\ b <= Len(moved)
      BY <1>4, <2>1
    <3> HIDE DEF b
    <3>2. PICK k \in Nat \ {0} : k = a + 1
      BY <3>1
    <3>3. PICK c \in Nat : c = b
      BY <3>1
    <3>4. k <= c /\ c <= Len(moved)
      BY <3>1, <3>2, <3>3
    <3>5. /\ SubSeq(moved, k, c) \in Seq(Disclosures) /\ Len(SubSeq(moved, k, c)) = c - k + 1
          /\ \A i \in 1..c - k + 1 : SubSeq(moved, k, c)[i] = moved[k + i - 1]
      BY <3>1, <3>4, PartProperties, Zenon
    <3> QED
      BY <2>2, <3>2, <3>3, <3>5
  <2>4. /\ Len(R) = SeenLimit
        /\ \A i \in 1..SeenLimit : a + i \in 1..b /\ R[i] = moved[a + i]
    <3>1. b - (a + 1) + 1 = SeenLimit /\ \A i \in 1..SeenLimit : (a + 1) + i - 1 = a + i
                                                                /\ a + i \in 1..b
      BY <1>6, <2>1
    <3> QED
      BY <2>3, <3>1
  <2>5. DOMAIN R = 1..SeenLimit /\ ToSet(R) = {R[i] : i \in 1..SeenLimit}
    BY <2>3, <2>4, SeqFacts
  <2>6. DOMAIN moved = 1..b /\ ToSet(moved) = {moved[i] : i \in 1..b}
    BY <1>4, SeqFacts
  <2>7. IsInjective(R)
    <3>1. ASSUME NEW i \in 1..SeenLimit, NEW j \in 1..SeenLimit, R[i] = R[j]
          PROVE  i = j
      <4>1. a + i = a + j
        BY <1>4, <2>4, <2>6, <3>1 DEF IsInjective
      <4> QED
        BY <1>6, <2>1, <4>1
    <3> QED
      BY <2>5, <3>1 DEF IsInjective
  <2>8. ToSet(R) \subseteq ToSet(moved)
    BY <2>4, <2>5, <2>6
  <2>9. ASSUME Len(o) <= SeenLimit, NEW d \in ToSet(o)
        PROVE  d \in ToSet(R)
    <3>1. PICK j \in 1..Len(o) : o[j] = d
      BY <2>9, SeqFacts
    <3>2. Len(E) + j \in 1..b /\ moved[Len(E) + j] = d
      <4>1. Len(E) + j \in 1..Len(E) + Len(o) /\ ~(Len(E) + j <= Len(E))
            /\ (Len(E) + j) - Len(E) = j
        BY <1>6
      <4> QED
        BY <1>4, <3>1, <4>1
    <3>3. PICK i \in Int : i = Len(E) + j - a
      BY <1>6, <2>1, <3>1
    <3>4. i \in 1..SeenLimit /\ a + i = Len(E) + j
      BY <1>4, <1>6, <2>1, <2>9, <3>2, <3>3
    <3> QED
      BY <2>4, <2>5, <3>2, <3>4
  <2> QED
    BY <1>2, <1>4, <2>3, <2>4, <2>7, <2>8, <2>9, <1>6 DEF R
<1> QED
  BY <1>6, <1>7, <1>8, <1>4

\* The counts are of finitely many pairs.
LEMMA RequiredIsFinite ==
    ASSUME NEW w \in Windows
    PROVE  /\ IsFiniteSet(UNION {{Company[t]} \X (1..w[t]) : t \in DOMAIN w})
           /\ Required(w) \in Nat
<1> DEFINE companies == {Company[t] : t \in Tickers}
           U == UNION {{Company[t]} \X (1..w[t]) : t \in DOMAIN w}
<1>1. DOMAIN w \subseteq Tickers /\ \A t \in DOMAIN w : w[t] \in 0..Len(Issuer)
  BY DEF Windows
<1>2. Len(Issuer) \in Nat
  BY DisclosuresAssumption, LenProperties
<1>3. IsFiniteSet(companies)
  <2>1. [t \in Tickers |-> Company[t]] \in Surjection(Tickers, companies)
    BY DEF Surjection
  <2> QED
    BY <2>1, TickersAssumption, FS_Surjection
<1>4. IsFiniteSet(companies \X (1..Len(Issuer)))
  <2>1. IsFiniteSet(1..Len(Issuer))
    BY <1>2, FS_Interval
  <2> QED
    BY <1>3, <2>1, FS_Product
<1>5. U \subseteq companies \X (1..Len(Issuer))
  BY <1>1, <1>2
<1>6. IsFiniteSet(U)
  BY <1>4, <1>5, FS_Subset
<1> QED
  BY <1>6, FS_CardinalityType DEF Required

\* A capacity that covers the counts of every company covers what a check
\* has observed: share classes are counted once, and nothing twice.
LEMMA EnoughCapacity ==
    ASSUME NEW w \in Windows, NEW o \in Seq(Disclosures), IsInjective(o), Counted(ToSet(o), w)
    PROVE  Len(o) <= Required(w)
<1> DEFINE S == ToSet(o)
           U == UNION {{Company[t]} \X (1..w[t]) : t \in DOMAIN w}
           place == [d \in S |-> <<Issuer[d], CountBelow(Of(S, Issuer[d]), d) + 1>>]
<1>1. DOMAIN w \subseteq Tickers /\ \A t \in DOMAIN w : w[t] \in 0..Len(Issuer)
  BY DEF Windows
<1>2. Len(Issuer) \in Nat
  BY DisclosuresAssumption, LenProperties
<1>3. IsFiniteSet(U)
  BY RequiredIsFinite
<1>4. IsFiniteSet(S) /\ Cardinality(S) = Len(o) /\ S \subseteq Disclosures /\ S \subseteq Nat
  BY InjectiveLen, SeqFacts, DisclosuresFinite
<1> HIDE DEF S, U
<1>5. ASSUME NEW k
      PROVE  /\ IsFiniteSet(Of(S, k)) /\ Cardinality(Of(S, k)) \in Nat
             /\ \A d \in Of(S, k) : CountBelow(Of(S, k), d) \in Nat
                                    /\ CountBelow(Of(S, k), d) < Cardinality(Of(S, k))
             /\ \A d, e \in Of(S, k) : d < e => CountBelow(Of(S, k), d) < CountBelow(Of(S, k), e)
  <2>1. Of(S, k) \in SUBSET S
    BY DEF Of
  <2>2. Of(S, k) \in SUBSET Nat /\ IsFiniteSet(Of(S, k))
    BY <1>4, <2>1, FS_Subset
  <2> QED
    BY <2>2, CountBelowProperties, FS_CardinalityType
<1>6. ASSUME NEW d \in S
      PROVE  <<Issuer[d], CountBelow(Of(S, Issuer[d]), d) + 1>> \in U
  <2>1. PICK k : k = Issuer[d]
    OBVIOUS
  <2>2. d \in Of(S, k)
    BY <1>6, <2>1 DEF Of
  <2>3. PICK t \in DOMAIN w : Company[t] = k /\ Cardinality(Of(S, k)) <= w[t]
    BY <1>6, <2>1 DEF Counted, S
  <2>4. PICK n \in Nat : n = CountBelow(Of(S, k), d) + 1
    BY <1>5, <2>2
  <2>5. n \in 1..w[t]
    <3>1. w[t] \in Nat /\ Cardinality(Of(S, k)) \in Nat
      BY <1>1, <1>2, <1>5
    <3>2. CountBelow(Of(S, k), d) \in Nat /\ CountBelow(Of(S, k), d) < Cardinality(Of(S, k))
      BY <1>5, <2>2
    <3> QED
      BY <2>3, <2>4, <3>1, <3>2
  <2>6. <<k, n>> \in {Company[t]} \X (1..w[t])
    BY <2>3, <2>5
  <2>7. <<k, n>> \in U
    BY <2>6 DEF U
  <2> QED
    BY <2>1, <2>4, <2>7
<1>7. ASSUME NEW d \in S, NEW e \in S, place[d] = place[e]
      PROVE  d = e
  <2>1. PICK k : k = Issuer[d]
    OBVIOUS
  <2>2. k = Issuer[e] /\ CountBelow(Of(S, k), d) + 1 = CountBelow(Of(S, k), e) + 1
    BY <1>7, <2>1
  <2>3. d \in Of(S, k) /\ e \in Of(S, k) /\ d \in Nat /\ e \in Nat
    BY <1>4, <2>1, <2>2, <1>7 DEF Of
  <2>4. CountBelow(Of(S, k), d) \in Nat /\ CountBelow(Of(S, k), e) \in Nat
    BY <1>5, <2>3
  <2>5. ~(d < e) /\ ~(e < d)
    BY <1>5, <2>2, <2>3, <2>4
  <2> QED
    BY <2>3, <2>5
<1>8. place \in Injection(S, U)
  <2>1. place \in [S -> U]
    BY <1>6
  <2> HIDE DEF place
  <2> QED
    BY <1>7, <2>1 DEF Injection, IsInjective
<1> HIDE DEF place
<1>9. Cardinality(S) <= Cardinality(U)
  BY <1>3, <1>8, FS_Injection
<1> QED
  BY <1>4, <1>9 DEF Required, U

\* The fields of a check.
LEMMA CheckType ==
    ASSUME TypeOK, NEW c \in Checkers
    PROVE  /\ check[c] \in Requests
           /\ check[c].active \subseteq Tickers /\ check[c].todo \subseteq Tickers
           /\ check[c].known \subseteq Disclosures
           /\ check[c].observed \in Seq(Disclosures)
           /\ check[c].fresh \in Windows
           /\ DOMAIN check[c].fresh \subseteq Tickers
           /\ \A t \in DOMAIN check[c].fresh : check[c].fresh[t] \in 0..Len(Issuer)
           /\ Observed(c) \subseteq Disclosures
           /\ candidates[c] \subseteq Disclosures
<1>1. check[c] \in Requests /\ candidates[c] \subseteq Disclosures
  BY DEF TypeOK
<1>2. /\ check[c].active \subseteq Tickers /\ check[c].todo \subseteq Tickers
      /\ check[c].known \subseteq Disclosures
      /\ check[c].observed \in Seq(Disclosures)
      /\ check[c].fresh \in Windows
  BY <1>1 DEF Requests
<1>3. Observed(c) \subseteq Disclosures
  BY <1>2, SeqFacts DEF Observed
<1>4. DOMAIN check[c].fresh \subseteq Tickers
      /\ \A t \in DOMAIN check[c].fresh : check[c].fresh[t] \in 0..Len(Issuer)
  BY <1>2 DEF Windows
<1> QED
  BY <1>1, <1>2, <1>3, <1>4

\* What a check knows stays true while KAP publishes.
LEMMA CheckStays ==
    ASSUME NEW c \in Checkers, CheckOK(c), check'[c] = check[c], candidates'[c] = candidates[c],
           newest \in Nat, newest' \in {newest, newest + 1}
    PROVE  CheckOK(c)'
<1>1. PICK r : r = check[c]
  OBVIOUS
<1>2. Reach(r.day) \subseteq Reach(r.day)'
  BY DEF Reach
<1>3. Observed(c) = ToSet(r.observed) /\ Observed(c)' = ToSet(r.observed)
  BY <1>1 DEF Observed
<1>4. check'[c] = r
  BY <1>1
<1> QED
  BY <1>1, <1>2, <1>3, <1>4 DEF CheckOK

LEMMA NoCheckOK ==
    ASSUME NEW c \in Checkers, check'[c].observed = <<>>, check'[c].at # "claim",
           candidates'[c] = {}
    PROVE  CheckOK(c)'
<1>1. ToSet(<<>>) = {} /\ IsInjective(<<>>)
  BY DEF ToSet, IsInjective
<1>2. Observed(c)' = {}
  BY <1>1 DEF Observed
<1>3. Counted({}, check'[c].fresh)
  BY DEF Counted
<1> QED
  BY <1>1, <1>2, <1>3 DEF CheckOK, Counted

LEMMA ChecksStay ==
    ASSUME \A c \in Checkers : CheckOK(c), UNCHANGED locals,
           newest \in Nat, newest' \in {newest, newest + 1}
    PROVE  \A c \in Checkers : CheckOK(c)'
BY CheckStays DEF locals

\* A step of one check leaves the others alone.
LEMMA OneCheckMoves ==
    ASSUME \A q \in Checkers : CheckOK(q), NEW c \in Checkers, CheckOK(c)',
           newest \in Nat, newest' = newest,
           \A q \in Checkers \ {c} : check'[q] = check[q] /\ candidates'[q] = candidates[q]
    PROVE  \A q \in Checkers : CheckOK(q)'
<1>1. ASSUME NEW q \in Checkers \ {c} PROVE CheckOK(q)'
  BY <1>1, CheckStays
<1> QED
  BY <1>1

LEMMA NoCheckType == NoCheck \in Requests
<1>1. <<>> \in Windows
  <2>1. <<>> \in [{} -> 0..Len(Issuer)]
    OBVIOUS
  <2> QED
    BY <2>1 DEF Windows
<1>2. <<>> \in Seq(Disclosures)
  BY EmptySeq
<1>3. 0 \in 0..LastDay
  BY LimitsAssumption
<1> QED
  BY <1>1, <1>2, <1>3 DEF NoCheck, Requests

\* What every check step shares.
LEMMA EndKeeps ==
    ASSUME SInv, NEW c \in Checkers, End(c), newest' = newest, newest \in Nat
    PROVE  /\ check' \in [Checkers -> Requests]
           /\ candidates' \in [Checkers -> SUBSET Disclosures]
           /\ \A q \in Checkers : CheckOK(q)'
<1>1. check \in [Checkers -> Requests] /\ candidates \in [Checkers -> SUBSET Disclosures]
      /\ \A q \in Checkers : CheckOK(q)
  BY DEF SInv, TypeOK
<1>2. /\ check' \in [Checkers -> Requests]
      /\ candidates' \in [Checkers -> SUBSET Disclosures]
      /\ check'[c] = NoCheck /\ candidates'[c] = {}
      /\ \A q \in Checkers \ {c} : check'[q] = check[q] /\ candidates'[q] = candidates[q]
  BY <1>1, NoCheckType DEF End
<1>3. CheckOK(c)'
  BY <1>2, NoCheckOK DEF NoCheck
<1> QED
  BY <1>1, <1>2, <1>3, OneCheckMoves

\* A step that only moves one check, to a state r with what it observed before.
LEMMA MoveKeeps ==
    ASSUME SInv, NEW c \in Checkers, NEW r \in Requests,
           check' = [check EXCEPT ![c] = r], UNCHANGED candidates,
           newest' = newest, newest \in Nat,
           r.observed = check[c].observed, r.day = check[c].day, r.fresh = check[c].fresh,
           r.at = "claim" => Len(r.observed) <= SeenLimit,
           r.at \in {"idle", "known"} => r.observed = <<>>
    PROVE  /\ check' \in [Checkers -> Requests]
           /\ \A q \in Checkers : CheckOK(q)'
<1>1. check \in [Checkers -> Requests] /\ \A q \in Checkers : CheckOK(q)
  BY DEF SInv, TypeOK
<1>2. /\ check' \in [Checkers -> Requests] /\ check'[c] = r
      /\ \A q \in Checkers \ {c} : check'[q] = check[q] /\ candidates'[q] = candidates[q]
  BY <1>1
<1>3. CheckOK(c)'
  <2>1. Observed(c)' = Observed(c)
    BY <1>2 DEF Observed
  <2>2. Reach(r.day)' = Reach(r.day)
    BY DEF Reach
  <2>3. CheckOK(c)
    BY <1>1
  <2> QED
    BY <1>2, <2>1, <2>2, <2>3 DEF CheckOK
<1> QED
  BY <1>1, <1>2, <1>3, OneCheckMoves

\* One request: what it finds lies in the day window, and its count covers all
\* that the check has observed of the company.
LEMMA FetchKeeps ==
    ASSUME SInv, NEW c \in Checkers, NEW t \in Tickers, Fetch(c, t)
    PROVE  /\ check' \in [Checkers -> Requests]
           /\ candidates' \in [Checkers -> SUBSET Disclosures]
           /\ \A q \in Checkers : CheckOK(q)'
<1> DEFINE r == check[c]
           pool == Pool(t, r.day)
           found == Select(pool, r.known)
           observed == r.observed \o Listing(found, r.observed)
           fresh == [u \in DOMAIN r.fresh \cup {t} |->
                        IF u = t THEN Cardinality(pool) ELSE r.fresh[u]]
           r1 == [r EXCEPT !.todo = @ \ {t}, !.known = @ \cup found,
                           !.observed = observed, !.fresh = fresh]
<1>1. /\ TypeOK /\ check \in [Checkers -> Requests]
      /\ candidates \in [Checkers -> SUBSET Disclosures]
      /\ \A q \in Checkers : CheckOK(q)
      /\ newest \in Nat /\ Len(Issuer) \in Nat /\ newest' = newest
  BY DisclosuresAssumption, LenProperties, DisclosuresFinite DEF SInv, TypeOK, Fetch, world
<1>2. /\ check' = [check EXCEPT ![c] = r1]
      /\ candidates' = [candidates EXCEPT ![c] = @ \cup {d \in found : IsImportant(d)}]
  BY DEF Fetch
<1>3. /\ r \in Requests /\ r.todo \subseteq Tickers /\ r.known \subseteq Disclosures
      /\ r.observed \in Seq(Disclosures) /\ DOMAIN r.fresh \subseteq Tickers
      /\ \A u \in DOMAIN r.fresh : r.fresh[u] \in 0..Len(Issuer)
  BY <1>1, CheckType
<1>4. /\ found \subseteq pool /\ pool \subseteq Disclosures
      /\ pool = Of(Reach(r.day), Company[t])
  <2>1. pool \subseteq Disclosures
    BY <1>1 DEF Pool, Disclosures, TypeOK
  <2>2. pool = Of(Reach(r.day), Company[t])
    BY DEF Pool, Of, Reach
  <2>3. found \subseteq pool
    BY DEF Select, Best
  <2> QED
    BY <2>1, <2>2, <2>3
<1>5. IsFiniteSet(pool) /\ Cardinality(pool) \in 0..Len(Issuer)
  <2>1. IsFiniteSet(Disclosures) /\ Cardinality(Disclosures) = Len(Issuer)
    BY <1>1, FS_Interval DEF Disclosures
  <2> QED
    BY <1>1, <1>4, <2>1, FS_Subset, FS_CardinalityType
<1>6. /\ IsInjective(r.observed) /\ ToSet(r.observed) \subseteq Reach(r.day)
      /\ candidates[c] = {d \in ToSet(r.observed) : IsImportant(d)}
      /\ Counted(ToSet(r.observed), r.fresh)
      /\ r.at = "fetch"
  BY <1>1 DEF CheckOK, Observed, Fetch
<1>7. /\ observed \in Seq(Disclosures) /\ IsInjective(observed)
      /\ ToSet(observed) = ToSet(r.observed) \cup found
  <2>1. found \in SUBSET Disclosures
    BY <1>4
  <2> HIDE DEF found, r
  <2> QED
    BY <1>3, <1>6, <2>1, ListingProperties
<1>8. fresh \in Windows
  <2>1. DOMAIN r.fresh \cup {t} \subseteq Tickers
    BY <1>3
  <2>2. fresh \in [DOMAIN r.fresh \cup {t} -> 0..Len(Issuer)]
    BY <1>3, <1>5
  <2> HIDE DEF fresh
  <2> QED
    BY <2>1, <2>2 DEF Windows
<1> HIDE DEF pool, found, observed, fresh
<1>9. r1 \in Requests /\ r1.observed = observed /\ r1.fresh = fresh /\ r1.day = r.day
      /\ r1.at = "fetch"
  <2> HIDE DEF r
  <2> QED
    BY <1>3, <1>4, <1>6, <1>7, <1>8 DEF Requests
<1> HIDE DEF r1
<1>10. /\ check' \in [Checkers -> Requests] /\ check'[c] = r1
       /\ candidates' \in [Checkers -> SUBSET Disclosures]
       /\ candidates'[c] = candidates[c] \cup {d \in found : IsImportant(d)}
       /\ \A q \in Checkers \ {c} : check'[q] = check[q] /\ candidates'[q] = candidates[q]
  BY <1>1, <1>2, <1>4, <1>9
<1>11. ToSet(observed) \subseteq Reach(r.day)
  BY <1>4, <1>6, <1>7 DEF Of
<1>12. Counted(ToSet(observed), fresh)
  <2> SUFFICES ASSUME NEW e \in ToSet(observed)
               PROVE  \E u \in DOMAIN fresh :
                          /\ Company[u] = Issuer[e]
                          /\ Cardinality(Of(ToSet(observed), Issuer[e])) <= fresh[u]
    BY DEF Counted
  <2>1. CASE Issuer[e] = Company[t]
    <3>1. Of(ToSet(observed), Company[t]) \subseteq pool
      BY <1>4, <1>11 DEF Of
    <3>2. Cardinality(Of(ToSet(observed), Company[t])) <= Cardinality(pool)
      BY <1>5, <3>1, FS_Subset
    <3>3. t \in DOMAIN fresh /\ fresh[t] = Cardinality(pool)
      BY DEF fresh
    <3> QED
      BY <2>1, <3>2, <3>3
  <2>2. CASE Issuer[e] # Company[t]
    <3>1. e \in ToSet(r.observed)
      BY <1>4, <1>7, <2>2 DEF Of
    <3>2. Of(ToSet(observed), Issuer[e]) = Of(ToSet(r.observed), Issuer[e])
      BY <1>4, <1>7, <2>2 DEF Of
    <3>3. PICK u \in DOMAIN r.fresh :
              /\ Company[u] = Issuer[e]
              /\ Cardinality(Of(ToSet(r.observed), Issuer[e])) <= r.fresh[u]
      BY <1>6, <3>1 DEF Counted
    <3>4. u \in DOMAIN fresh /\ fresh[u] = r.fresh[u]
      BY <2>2, <3>3 DEF fresh
    <3> QED
      BY <3>2, <3>3, <3>4
  <2> QED
    BY <2>1, <2>2
<1>13. CheckOK(c)'
  <2>1. Observed(c)' = ToSet(observed)
    BY <1>9, <1>10 DEF Observed
  <2>3. candidates'[c] = {d \in ToSet(observed) : IsImportant(d)}
    BY <1>6, <1>7, <1>10
  <2>4. check'[c].day = r.day /\ check'[c].observed = observed /\ check'[c].fresh = fresh
        /\ check'[c].at = "fetch"
    BY <1>9, <1>10
  <2>5. PICK day : day = r.day
    OBVIOUS
  <2>6. Reach(day)' = Reach(day)
    BY <1>1 DEF Reach
  <2> HIDE DEF r
  <2> QED
    BY <1>7, <1>11, <1>12, <2>1, <2>3, <2>4, <2>5, <2>6 DEF CheckOK
<1> QED
  BY <1>1, <1>10, <1>13, OneCheckMoves

\* The capacity rule: a check goes on to claim only with room for all it observed.
LEMMA CapacityKeeps ==
    ASSUME SInv, NEW c \in Checkers, EnsureCapacity(c)
    PROVE  /\ tracked' \subseteq Tickers /\ windows' \in Windows
           /\ check' \in [Checkers -> Requests]
           /\ candidates' \in [Checkers -> SUBSET Disclosures]
           /\ \A q \in Checkers : CheckOK(q)'
<1> DEFINE r == check[c]
           w == Refreshed(c)
           kept == {t \in DOMAIN windows : r.retire => t \in r.active}
<1>1. /\ TypeOK /\ check \in [Checkers -> Requests] /\ windows \in Windows
      /\ candidates \in [Checkers -> SUBSET Disclosures]
      /\ newest \in Nat /\ newest' = newest
  BY DisclosuresFinite DEF SInv, TypeOK, EnsureCapacity, world
<1>2. /\ r \in Requests /\ r.active \subseteq Tickers /\ r.observed \in Seq(Disclosures)
      /\ DOMAIN r.fresh \subseteq Tickers
      /\ \A u \in DOMAIN r.fresh : r.fresh[u] \in 0..Len(Issuer)
  BY <1>1, CheckType
<1>3. DOMAIN windows \subseteq Tickers /\ \A u \in DOMAIN windows : windows[u] \in 0..Len(Issuer)
  BY <1>1 DEF Windows
<1>4. /\ DOMAIN w = kept \cup DOMAIN r.fresh
      /\ \A u \in DOMAIN r.fresh : w[u] = r.fresh[u]
  BY DEF Refreshed
<1>5. w \in Windows
  <2>1. w = [t \in kept \cup DOMAIN r.fresh |->
                IF t \in DOMAIN r.fresh THEN r.fresh[t] ELSE windows[t]]
    BY DEF Refreshed
  <2>2. kept \cup DOMAIN r.fresh \subseteq Tickers
    BY <1>2, <1>3
  <2>3. w \in [kept \cup DOMAIN r.fresh -> 0..Len(Issuer)]
    <3>1. \A t \in kept \cup DOMAIN r.fresh :
              (IF t \in DOMAIN r.fresh THEN r.fresh[t] ELSE windows[t]) \in 0..Len(Issuer)
      BY <1>2, <1>3
    <3> HIDE DEF w, kept, r
    <3> QED
      BY <2>1, <3>1
  <2> HIDE DEF w, kept, r
  <2> QED
    BY <2>2, <2>3 DEF Windows
<1>6. tracked' \subseteq Tickers /\ windows' = w
  BY <1>1, <1>2 DEF EnsureCapacity, Tracked, TypeOK
<1>7. CASE End(c)
  BY <1>1, <1>5, <1>6, <1>7, EndKeeps
<1>8. CASE Retained(c) /\ check' = [check EXCEPT ![c].at = "claim"] /\ UNCHANGED candidates
  <2>1. IsInjective(r.observed) /\ Counted(ToSet(r.observed), r.fresh)
    BY DEF SInv, CheckOK, Observed
  <2>2. Counted(ToSet(r.observed), w)
    <3> HIDE DEF w, r, kept
    <3> QED
      BY <1>4, <2>1 DEF Counted
  <2>3. Len(r.observed) <= SeenLimit
    <3>1. Len(r.observed) <= Required(w)
      <4> HIDE DEF w, r
      <4> QED
        BY <1>2, <1>5, <2>1, <2>2, EnoughCapacity
    <3>2. Required(w) <= SeenLimit
      BY <1>8 DEF Retained
    <3>3. Len(r.observed) \in Nat
      BY <1>2, LenProperties
    <3>4. Required(w) \in Nat
      <4> HIDE DEF w
      <4> QED
        BY <1>5, RequiredIsFinite
    <3> QED
      BY <3>1, <3>2, <3>3, <3>4, LimitsAssumption
  <2>4. PICK r1 \in Requests : r1 = [r EXCEPT !.at = "claim"]
    BY <1>2 DEF Requests
  <2>5. check' = [check EXCEPT ![c] = r1]
    BY <1>8, <2>4
  <2>6. /\ r1.observed = r.observed /\ r1.day = r.day /\ r1.fresh = r.fresh
        /\ r1.at = "claim"
    BY <1>2, <2>4 DEF Requests
  <2>7. check' \in [Checkers -> Requests] /\ \A q \in Checkers : CheckOK(q)'
    BY <1>1, <1>8, <2>3, <2>5, <2>6, MoveKeeps
  <2> QED
    BY <1>1, <1>5, <1>6, <1>8, <2>7
<1> QED
  BY <1>7, <1>8 DEF EnsureCapacity

\* The claim remembers all that the check observed, and claims the important
\* part of it that is neither remembered nor kept.
LEMMA ClaimKeeps ==
    ASSUME SInv, NEW c \in Checkers, Claim(c)
    PROVE  SInv'
<1> DEFINE o == check[c].observed
<1>1. /\ TypeOK /\ IInv /\ Remembered /\ OldAreClaimed /\ SeenIsClaimed /\ TwiceOnlyIfPassedOver
      /\ seen \in Seq(Disclosures) /\ IsInjective(seen)
      /\ newest \in Nat /\ newest' = newest
  BY DisclosuresFinite DEF SInv, TypeOK, Claim, world
<1>2. /\ o \in Seq(Disclosures) /\ IsInjective(o) /\ Len(o) <= SeenLimit
      /\ candidates[c] = {d \in ToSet(o) : IsImportant(d)}
      /\ ToSet(o) \subseteq Disclosures
  <2>1. CheckOK(c) /\ check[c].at = "claim"
    BY DEF SInv, Claim
  <2> QED
    BY <1>1, <2>1, CheckType DEF CheckOK, Observed
<1>3. /\ seen' \in Seq(Disclosures) /\ IsInjective(seen') /\ Len(seen') <= SeenLimit
      /\ ToSet(seen') \subseteq ToSet(seen) \cup ToSet(o)
      /\ ToSet(o) \subseteq ToSet(seen')
  <2>1. seen' = Remember(o)
    BY DEF Claim
  <2> HIDE DEF o
  <2> QED
    BY <1>1, <1>2, <2>1, RememberProperties
<1>4. /\ pending' = pending \cup NewAlerts(c)
      /\ claimed' = claimed \cup NewAlerts(c)
      /\ reclaimed' = reclaimed \cup (claimed \cap NewAlerts(c))
      /\ passed' = passed \cup (claimed \ ToSet(o))
      /\ UNCHANGED <<acked, history, today, newest, watchlist, tracked, windows, faults>>
      /\ NewAlerts(c) = candidates[c] \ (ToSet(seen) \cup pending \cup history)
  BY DEF Claim, NewAlerts, world, capacity
<1>5. history \subseteq claimed /\ pending \subseteq claimed /\ acked \subseteq claimed
  BY <1>1 DEF OldAreClaimed, IInv, HistoryHolds
<1>6. IInv'
  BY <1>1, ClaimIInv
<1>7. /\ check' \in [Checkers -> Requests]
      /\ candidates' \in [Checkers -> SUBSET Disclosures]
      /\ \A q \in Checkers : CheckOK(q)'
  BY <1>1, EndKeeps DEF Claim
<1> HIDE DEF o
<1>8. Remembered'
  BY <1>1, <1>2, <1>3, <1>4 DEF Remembered
<1>9. OldAreClaimed'
  BY <1>4, <1>5 DEF OldAreClaimed
<1>10. SeenIsClaimed'
  BY <1>1, <1>2, <1>3, <1>4, <1>5 DEF SeenIsClaimed
<1>11. TwiceOnlyIfPassedOver'
  <2>1. claimed \cap NewAlerts(c) \subseteq passed
    BY <1>1, <1>4 DEF Remembered
  <2> QED
    BY <1>1, <1>4, <2>1 DEF TwiceOnlyIfPassedOver
<1>12. TypeOK'
  <2>1. NewAlerts(c) \subseteq Disclosures
    BY <1>2, <1>4
  <2>2. passed' \subseteq claimed'
    BY <1>1, <1>4 DEF TypeOK
  <2>3. reclaimed' \subseteq claimed'
    BY <1>1, <1>4 DEF TypeOK
  <2> QED
    BY <1>1, <1>3, <1>4, <1>7, <2>1, <2>2, <2>3 DEF TypeOK
<1> QED
  BY <1>6, <1>7, <1>8, <1>9, <1>10, <1>11, <1>12 DEF SInv

\* An acknowledgement: the history keeps its limit.
LEMMA AcknowledgeKeeps ==
    ASSUME SInv, NEW delivered \in SUBSET pending, Acknowledge(delivered)
    PROVE  SInv'
<1>1. /\ TypeOK /\ IInv /\ Remembered /\ OldAreClaimed /\ SeenIsClaimed /\ TwiceOnlyIfPassedOver
      /\ newest \in Nat
  BY DisclosuresFinite DEF SInv, TypeOK
<1>2. /\ pending' = pending \ delivered /\ acked' = acked \cup delivered
      /\ history' = Best(history \cup delivered, HistoryLimit, Priority)
      /\ UNCHANGED <<today, newest, watchlist, seen, tracked, windows, check, candidates,
                     faults, claimed, reclaimed, passed>>
  BY DEF Acknowledge, world, capacity, locals
<1>3. history \cup delivered \in SUBSET Disclosures
  BY <1>1 DEF TypeOK
<1>4. history' \subseteq Disclosures /\ Cardinality(history') <= HistoryLimit
  <2>1. Cardinality(history') <= HistoryLimit
    BY <1>2, <1>3, BestFits, PriorityOrders, LimitsAssumption
  <2>2. history' \subseteq history \cup delivered
    BY <1>2 DEF Best
  <2> QED
    BY <1>3, <2>1, <2>2
<1>5. TypeOK'
  BY <1>1, <1>2, <1>3, <1>4 DEF TypeOK
<1>6. \A q \in Checkers : CheckOK(q)'
  BY <1>1, <1>2, ChecksStay DEF SInv, locals
<1>7. IInv'
  BY <1>1, AcknowledgeIInv
<1>8. OldAreClaimed'
  BY <1>1, <1>2 DEF OldAreClaimed
<1>9. Remembered' /\ SeenIsClaimed' /\ TwiceOnlyIfPassedOver'
  BY <1>1, <1>2 DEF Remembered, SeenIsClaimed, TwiceOnlyIfPassedOver
<1> QED
  BY <1>5, <1>6, <1>7, <1>8, <1>9 DEF SInv

\* Every other step leaves what the file and the observer hold.
LEMMA OthersKeep ==
    ASSUME SInv, IInv', UNCHANGED <<store, observer>>,
           today' \in 0..LastDay, newest' \in {0} \cup Disclosures, watchlist' \subseteq Tickers,
           tracked' \subseteq Tickers, windows' \in Windows, faults' \in 0..MaxFaults,
           check' \in [Checkers -> Requests], candidates' \in [Checkers -> SUBSET Disclosures],
           \A q \in Checkers : CheckOK(q)'
    PROVE  SInv'
<1>1. TypeOK'
  BY DEF SInv, TypeOK, store, observer
<1>2. Remembered' /\ OldAreClaimed' /\ SeenIsClaimed' /\ TwiceOnlyIfPassedOver'
  BY DEF SInv, store, observer, Remembered, OldAreClaimed, SeenIsClaimed, TwiceOnlyIfPassedOver
<1> QED
  BY <1>1, <1>2 DEF SInv

LEMMA InitSInv == Init => SInv
<1> SUFFICES ASSUME Init PROVE SInv
  OBVIOUS
<1>1. ToSet(<<>>) = {} /\ IsInjective(<<>>) /\ Len(<<>>) = 0 /\ <<>> \in Seq(Disclosures)
  BY EmptySeq DEF ToSet, IsInjective
<1>2. check = [c \in Checkers |-> NoCheck] /\ NoCheck \in Requests
  BY NoCheckType DEF Init
<1>3. windows \in Windows
  <2>1. NoCheck.fresh \in Windows
    BY <1>2 DEF Requests
  <2> QED
    BY <2>1 DEF Init, NoCheck
<1>4. check \in [Checkers -> Requests] /\ candidates \in [Checkers -> SUBSET Disclosures]
  BY <1>2 DEF Init
<1>5. TypeOK
  <2>1. Cardinality({}) = 0
    BY FS_EmptySet
  <2> QED
    BY <1>1, <1>3, <1>4, <2>1, LimitsAssumption DEF Init, TypeOK
<1>6. ASSUME NEW c \in Checkers PROVE CheckOK(c)
  <2>1. check[c] = NoCheck /\ candidates[c] = {}
    BY <1>2 DEF Init
  <2>2. Observed(c) = {}
    BY <1>1, <2>1 DEF Observed, NoCheck
  <2> QED
    BY <1>1, <2>1, <2>2 DEF CheckOK, NoCheck, Counted
<1>7. Remembered /\ OldAreClaimed /\ SeenIsClaimed /\ TwiceOnlyIfPassedOver
  BY <1>1 DEF Init, Remembered, OldAreClaimed, SeenIsClaimed, TwiceOnlyIfPassedOver
<1> QED
  BY <1>5, <1>6, <1>7, InitIInv DEF SInv

LEMMA NextSInv == SInv /\ [Next]_vars => SInv'
<1> SUFFICES ASSUME SInv, [Next]_vars PROVE SInv'
  OBVIOUS
<1>0. /\ TypeOK /\ IInv' /\ \A q \in Checkers : CheckOK(q)
      /\ today \in 0..LastDay /\ newest \in {0} \cup Disclosures /\ watchlist \subseteq Tickers
      /\ tracked \subseteq Tickers /\ windows \in Windows /\ faults \in 0..MaxFaults
      /\ check \in [Checkers -> Requests] /\ candidates \in [Checkers -> SUBSET Disclosures]
      /\ newest \in Nat /\ LastDay \in Nat /\ MaxFaults \in Nat
  BY NextIInv, DisclosuresFinite, LimitsAssumption DEF SInv, TypeOK
<1>f. Fault => faults' \in 0..MaxFaults
  BY <1>0 DEF Fault
<1>1. CASE Publish
  <2>1. newest' = newest + 1 /\ newest' \in Disclosures
    BY <1>1 DEF Publish
  <2>2. UNCHANGED <<today, watchlist, store, capacity, locals, faults, observer>>
    BY <1>1 DEF Publish
  <2>3. \A q \in Checkers : CheckOK(q)'
    BY <1>0, <2>1, <2>2, ChecksStay
  <2> QED
    BY <1>0, <2>1, <2>2, <2>3, OthersKeep DEF capacity, locals
<1>2. CASE Midnight
  <2>1. today' \in 0..LastDay
    BY <1>0, <1>2 DEF Midnight
  <2>2. UNCHANGED <<newest, watchlist, store, capacity, locals, faults, observer>>
    BY <1>2 DEF Midnight
  <2>3. \A q \in Checkers : CheckOK(q)'
    BY <1>0, <2>2, ChecksStay
  <2> QED
    BY <1>0, <2>1, <2>2, <2>3, OthersKeep DEF capacity, locals
<1>3. ASSUME NEW t \in Tickers, Watch(t) \/ Unwatch(t) PROVE SInv'
  <2>1. watchlist' \subseteq Tickers /\ faults' \in 0..MaxFaults
    BY <1>0, <1>f, <1>3 DEF Watch, Unwatch
  <2>2. UNCHANGED <<today, newest, store, capacity, locals, observer>>
    BY <1>3 DEF Watch, Unwatch
  <2>3. \A q \in Checkers : CheckOK(q)'
    BY <1>0, <2>2, ChecksStay
  <2> QED
    BY <1>0, <2>1, <2>2, <2>3, OthersKeep DEF capacity, locals
<1>4. ASSUME NEW delivered \in SUBSET pending, Acknowledge(delivered) PROVE SInv'
  BY <1>4, AcknowledgeKeeps
<1>5. ASSUME NEW c \in Checkers, CheckWatchlist(c) \/ CheckTickers(c) PROVE SInv'
  <2>1. PICK tickers \in SUBSET Tickers, retire \in BOOLEAN : Begin(c, tickers, retire)
    <3>1. CASE CheckWatchlist(c)
      BY <1>0, <3>1 DEF CheckWatchlist
    <3>2. CASE CheckTickers(c)
      BY <3>2, TickersAssumption DEF CheckTickers
    <3> QED
      BY <1>5, <3>1, <3>2
  <2>2. PICK r \in Requests : /\ r = [NoCheck EXCEPT
                                         !.at = "known", !.day = today, !.todo = tickers,
                                         !.active = IF retire THEN tickers ELSE {},
                                         !.retire = retire]
                              /\ r.at = "known" /\ r.observed = <<>>
    <3>1. PICK old \in Requests : old = NoCheck
      BY NoCheckType
    <3>2. [old EXCEPT !.at = "known", !.day = today, !.todo = tickers,
                      !.active = IF retire THEN tickers ELSE {}, !.retire = retire]
             \in Requests
      BY <1>0, <2>1 DEF Requests
    <3>3. old.observed = <<>>
      BY <3>1 DEF NoCheck
    <3> QED
      BY <3>1, <3>2, <3>3 DEF Requests
  <2>3. check' = [check EXCEPT ![c] = r] /\ check[c].at = "idle"
        /\ UNCHANGED <<world, store, capacity, candidates, faults, observer>>
    BY <2>1, <2>2 DEF Begin
  <2>4. candidates[c] = {}
    <3>1. CheckOK(c) /\ ToSet(<<>>) = {}
      BY <1>0 DEF ToSet
    <3> QED
      BY <2>3, <3>1 DEF CheckOK, Observed
  <2>5. /\ check' \in [Checkers -> Requests] /\ check'[c] = r
        /\ \A q \in Checkers \ {c} : check'[q] = check[q]
    BY <1>0, <2>3
  <2>6. CheckOK(c)'
    BY <2>2, <2>3, <2>4, <2>5, NoCheckOK
  <2>7. \A q \in Checkers : CheckOK(q)'
    BY <1>0, <2>3, <2>5, <2>6, OneCheckMoves DEF world
  <2> QED
    BY <1>0, <2>3, <2>5, <2>7, OthersKeep DEF world, capacity
<1>6. ASSUME NEW c \in Checkers, ReadKnown(c) PROVE SInv'
  <2>1. PICK r \in Requests : /\ r = [check[c] EXCEPT !.at = "fetch",
                                         !.known = ToSet(seen) \cup pending \cup history]
                              /\ r.at = "fetch" /\ r.observed = check[c].observed
                              /\ r.day = check[c].day /\ r.fresh = check[c].fresh
    <3>1. ToSet(seen) \cup pending \cup history \subseteq Disclosures
      BY <1>0, SeqFacts DEF TypeOK
    <3>2. PICK old \in Requests : old = check[c]
      BY <1>0
    <3>3. [old EXCEPT !.at = "fetch", !.known = ToSet(seen) \cup pending \cup history]
             \in Requests
      BY <3>1 DEF Requests
    <3> QED
      BY <3>2, <3>3 DEF Requests
  <2>2. check' = [check EXCEPT ![c] = r]
        /\ UNCHANGED <<world, store, capacity, candidates, faults, observer>>
    BY <1>6, <2>1 DEF ReadKnown
  <2>3. check' \in [Checkers -> Requests] /\ \A q \in Checkers : CheckOK(q)'
    BY <1>0, <2>1, <2>2, MoveKeeps DEF world
  <2> QED
    BY <1>0, <2>2, <2>3, OthersKeep DEF world, capacity
<1>7. ASSUME NEW c \in Checkers, NEW t \in Tickers, Fetch(c, t) PROVE SInv'
  <2>1. UNCHANGED <<world, store, capacity, faults, observer>>
    BY <1>7 DEF Fetch
  <2> QED
    BY <1>0, <1>7, <2>1, FetchKeeps, OthersKeep DEF world, capacity
<1>8. ASSUME NEW c \in Checkers, EnsureCapacity(c) PROVE SInv'
  <2>1. UNCHANGED <<world, store, faults, observer>>
    BY <1>8 DEF EnsureCapacity
  <2> QED
    BY <1>0, <1>8, <2>1, CapacityKeeps, OthersKeep DEF world
<1>9. ASSUME NEW c \in Checkers, Claim(c) PROVE SInv'
  BY <1>9, ClaimKeeps
<1>10. ASSUME NEW c \in Checkers, NEW t \in Tickers, FetchFails(c, t) PROVE SInv'
  <2>1. PICK r \in Requests : /\ r = [check[c] EXCEPT !.todo = @ \ {t}]
                              /\ r.at = check[c].at /\ r.observed = check[c].observed
                              /\ r.day = check[c].day /\ r.fresh = check[c].fresh
    <3>1. PICK old \in Requests : old = check[c]
      BY <1>0
    <3>2. [old EXCEPT !.todo = @ \ {t}] \in Requests
      BY DEF Requests
    <3> QED
      BY <3>1, <3>2 DEF Requests
  <2>2. check' = [check EXCEPT ![c] = r] /\ check[c].at = "fetch" /\ faults' \in 0..MaxFaults
        /\ UNCHANGED <<world, store, capacity, candidates, observer>>
    BY <1>f, <1>10, <2>1 DEF FetchFails
  <2>3. check' \in [Checkers -> Requests] /\ \A q \in Checkers : CheckOK(q)'
    BY <1>0, <2>1, <2>2, MoveKeeps DEF world
  <2> QED
    BY <1>0, <2>2, <2>3, OthersKeep DEF world, capacity
<1>11. ASSUME NEW c \in Checkers, Crash(c) \/ CrashInCapacity(c) PROVE SInv'
  <2>1. /\ End(c) /\ faults' \in 0..MaxFaults
        /\ UNCHANGED <<world, store, windows, observer>>
    BY <1>f, <1>11 DEF Crash, CrashInCapacity, capacity
  <2>2. tracked' \subseteq Tickers
    <3>1. check[c].fresh \in Windows /\ DOMAIN check[c].fresh \subseteq Tickers
      BY <1>0, CheckType
    <3> QED
      BY <1>0, <1>11, <3>1 DEF Crash, CrashInCapacity, capacity, Tracked
  <2>3. /\ check' \in [Checkers -> Requests]
        /\ candidates' \in [Checkers -> SUBSET Disclosures]
        /\ \A q \in Checkers : CheckOK(q)'
    BY <1>0, <2>1, EndKeeps DEF world
  <2> QED
    BY <1>0, <2>1, <2>2, <2>3, OthersKeep DEF world
<1>12. CASE UNCHANGED vars
  <2>1. UNCHANGED <<world, store, capacity, locals, faults, observer>>
    BY <1>12 DEF vars
  <2>2. \A q \in Checkers : CheckOK(q)'
    BY <1>0, <2>1, ChecksStay DEF world
  <2> QED
    BY <1>0, <2>1, <2>2, OthersKeep DEF world, capacity, locals
<1> QED
  BY <1>1, <1>2, <1>3, <1>4, <1>5, <1>6, <1>7, <1>8, <1>9, <1>10, <1>11, <1>12 DEF Next, Step

\* A disclosure is alerted a second time only if some check after its first alert
\* did not observe it: what the capacity rule demands of seen_limit is enough to
\* remember all that a check observes, for share classes of one company and for
\* publications, edits of the watchlist and other checks between its requests.
THEOREM SecondAlertWasPassedOver == Spec => []TwiceOnlyIfPassedOver
<1>1. SInv => TwiceOnlyIfPassedOver
  BY DEF SInv
<1> QED
  BY <1>1, InitSInv, NextSInv, PTL DEF Spec

\* No important disclosure is marked seen before it is in the outbox, none leaves
\* the outbox but by an acknowledgement, nothing is in the outbox and the history
\* at once, and the lists of the file keep their limits and hold no duplicate.
THEOREM NoAlertIsLost == Spec => []NothingLost
<1>1. SInv => NothingLost
  BY DEF SInv, IInv, NothingLost
<1> QED
  BY <1>1, InitSInv, NextSInv, PTL DEF Spec

=============================================================================
