---------------------------- MODULE AlertOutbox ----------------------------
(***************************************************************************)
(* The KAP watchlist alerts (src/tradingagents/alerts): periodic checks    *)
(* poll KAP for the disclosures of the watched tickers, claim the new      *)
(* important ones into an outbox, and a downstream consumer delivers and   *)
(* acknowledges them.  The outbox, the bounded list of seen identifiers    *)
(* and the bounded delivered history live in one JSON file; the capacity   *)
(* windows in a sidecar file; every access to them holds one file lock, so *)
(* each locked section is one action.  A check holds no lock between its   *)
(* sections: it may interleave with other checks, with acknowledgements,   *)
(* with publications and with midnight.                                    *)
(*                                                                         *)
(* The effective code is what the hardening rounds install: the check of   *)
(* round 15 wrapped by rounds 18 to 20, the capacity rule of round 18, the *)
(* load of phase 10 (whose repairs concern files of older versions: what   *)
(* this code writes it reads back unchanged, see PendingNotDelivered).     *)
(*                                                                         *)
(* Disclosures are numbered in order of publication.  Their classification *)
(* (semantic_*.py) is a constant score.  Operator faults (a dead process,  *)
(* an unanswered request, an edit of the watchlist) share one budget.      *)
(***************************************************************************)
EXTENDS Subsequences, SequencesExt

CONSTANTS
    Checkers,       \* processes that run check_watchlist
    Tickers,        \* watchable tickers
    Company,        \* [Tickers -> company]: share classes have one company
    Issuer,         \* a sequence: the company of each disclosure
    PublishedOn,    \* a sequence: the day each disclosure is published
    Score,          \* a sequence: its classified score, 0..100
    MinScore,       \* kap_alert_min_score
    MaxPerTicker,   \* kap_alert_max_disclosures
    SeenLimit,      \* alert_seen_limit
    HistoryLimit,   \* alert_history_limit
    Lookback,       \* kap_alert_lookback_days
    LastDay,        \* bound: the calendar stops here
    Explicit,       \* the ticker sets a caller passes to check_watchlist
    MaxFaults       \* bound: crashes, failed requests and watchlist edits

Disclosures == 1..Len(Issuer)

ASSUME LimitsAssumption ==
    /\ SeenLimit \in Nat \ {0} /\ HistoryLimit \in Nat \ {0}
    /\ MaxPerTicker \in Nat \ {0} /\ MaxFaults \in Nat
    /\ Lookback \in Nat /\ LastDay \in Nat /\ MinScore \in Nat
ASSUME DisclosuresAssumption ==
    /\ Issuer \in Seq({Company[t] : t \in Tickers})
    /\ Score \in [Disclosures -> Nat]
    /\ PublishedOn \in [Disclosures -> Nat]
ASSUME TickersAssumption == IsFiniteSet(Tickers) /\ Explicit \subseteq SUBSET Tickers

VARIABLES
    today,      \* the market date
    newest,     \* KAP: disclosures 1..newest are published
    watchlist,  \* watchlist.json
    seen,       \* state file: identifiers, least recently observed first
    pending,    \* state file: the outbox
    history,    \* state file: delivered alerts, the best HistoryLimit of them
    tracked,    \* state file: tracked_tickers
    windows,    \* sidecar file: reachable_count of each registered ticker
    check,      \* per process: the check it runs
    candidates, \* per process: the important disclosures that check returned
    faults,     \* environment: faults so far
    acked,      \* observer: disclosures ever acknowledged
    claimed,    \* observer: disclosures ever claimed
    reclaimed,  \* observer: disclosures claimed more than once
    passed      \* observer: claimed ones a later check did not observe

store == <<seen, pending, history>>
capacity == <<tracked, windows>>
world == <<today, newest, watchlist>>
observer == <<acked, claimed, reclaimed, passed>>
locals == <<check, candidates>>
vars == <<world, store, capacity, locals, faults, observer>>

----------------------------------------------------------------------------
(* Selection and ranking, over sets of disclosures. *)

IsImportant(d) == Score[d] >= MinScore

Band(d) == CASE Score[d] >= 95 -> 3
             [] Score[d] >= 85 /\ Score[d] < 95 -> 2
             [] Score[d] >= 70 /\ Score[d] < 85 -> 1
             [] OTHER -> 0

\* The n of S with the greatest keys.
Best(S, n, key) == {d \in S : Cardinality({e \in S : key[e] > key[d]}) < n}

\* A tuple that is compared from the left, as a number: the last component is
\* the order of publication, which has no ties.
Then(key, d) == key * (Len(Issuer) + 1) + d

\* _alert_dict_priority: the severity is a function of the score.
Priority == [d \in Disclosures |-> Then(Score[d], d)]

Newest == [d \in Disclosures |-> d]

Flag(b) == IF b THEN 1 ELSE 0

UnseenNewest(known) == [d \in Disclosures |-> Then(Flag(d \notin known), d)]

\* Unseen, important, significance band, recency (and the score, after it).
Rank(known) ==
    [d \in Disclosures |->
        Then(8 * Flag(d \notin known) + 4 * Flag(IsImportant(d)) + Band(d), d)]

\* Mutant: the newest important ones first, seen or not.
SelectNewest(pool, known) ==
    LET actionable == {d \in pool : IsImportant(d)}
    IN  IF actionable = {} THEN Best(pool, MaxPerTicker, Newest)
                           ELSE Best(actionable, MaxPerTicker, Newest)

\* Which MaxPerTicker of the pool a request returns: half of them are the
\* newest important ones, unseen first, the rest follow the ranking.
Select(pool, known) ==
    LET actionable == {d \in pool : IsImportant(d)}
        quota == (MaxPerTicker + 1) \div 2
        fresh == Best(actionable, quota, UnseenNewest(known))
        rest == Best(pool \ fresh, MaxPerTicker - Cardinality(fresh), Rank(known))
    IN  IF actionable = {} THEN Best(pool, MaxPerTicker, Newest) ELSE fresh \cup rest

\* What KAP publishes of a ticker between the dates of a request.
Pool(t, day) ==
    {d \in 1..newest : /\ Issuer[d] = Company[t]
                       /\ PublishedOn[d] <= day
                       /\ PublishedOn[d] + Lookback >= day}

----------------------------------------------------------------------------
NoCheck == [at |-> "idle", day |-> 0, active |-> {}, retire |-> FALSE,
            todo |-> {}, known |-> {}, observed |-> <<>>, fresh |-> <<>>]

\* The reachable counts of some tickers.
Windows == UNION {[T -> 0..Len(Issuer)] : T \in SUBSET Tickers}

\* active is None when the caller names the tickers: nothing is retired.
Requests == [at : {"idle", "known", "fetch", "claim"}, day : 0..LastDay,
             active : SUBSET Tickers, retire : BOOLEAN, todo : SUBSET Tickers,
             known : SUBSET Disclosures, observed : Seq(Disclosures),
             fresh : Windows]

\* One type invariant: the limits of the file, and what its lists may hold.
TypeOK ==
    /\ today \in 0..LastDay
    /\ newest \in {0} \cup Disclosures
    /\ watchlist \subseteq Tickers
    /\ seen \in Seq(Disclosures) /\ IsInjective(seen) /\ Len(seen) <= SeenLimit
    /\ pending \subseteq Disclosures
    /\ history \subseteq Disclosures /\ Cardinality(history) <= HistoryLimit
    /\ tracked \subseteq Tickers
    /\ windows \in Windows
    /\ check \in [Checkers -> Requests]
    /\ candidates \in [Checkers -> SUBSET Disclosures]
    /\ faults \in 0..MaxFaults
    /\ acked \subseteq Disclosures /\ claimed \subseteq Disclosures
    /\ reclaimed \subseteq claimed /\ passed \subseteq claimed

Init ==
    /\ today = 0
    /\ newest = 0
    /\ watchlist \in SUBSET Tickers
    /\ seen = <<>>
    /\ pending = {} /\ history = {}
    /\ tracked = {} /\ windows = <<>>
    /\ check = [c \in Checkers |-> NoCheck]
    /\ candidates = [c \in Checkers |-> {}]
    /\ faults = 0
    /\ acked = {} /\ claimed = {} /\ reclaimed = {} /\ passed = {}

----------------------------------------------------------------------------
(* The world: KAP publishes, the date moves on, the watchlist is edited. *)

Publish ==
    /\ newest + 1 \in Disclosures
    /\ PublishedOn[newest + 1] = today
    /\ newest' = newest + 1
    /\ UNCHANGED <<today, watchlist, store, capacity, locals, faults, observer>>

Midnight ==
    /\ today < LastDay
    /\ newest + 1 \in Disclosures => PublishedOn[newest + 1] > today
    /\ today' = today + 1
    /\ UNCHANGED <<newest, watchlist, store, capacity, locals, faults, observer>>

Fault == faults < MaxFaults /\ faults' = faults + 1

Watch(t) ==
    /\ Fault
    /\ t \notin watchlist
    /\ watchlist' = watchlist \cup {t}
    /\ UNCHANGED <<today, newest, store, capacity, locals, observer>>

Unwatch(t) ==
    /\ Fault
    /\ t \in watchlist
    /\ watchlist' = watchlist \ {t}
    /\ UNCHANGED <<today, newest, store, capacity, locals, observer>>

----------------------------------------------------------------------------
(* One check: dates and tickers, the known identifiers, one request per     *)
(* ticker, the capacity rule, the claim.                                    *)

Begin(c, tickers, retire) ==
    /\ check[c].at = "idle"
    /\ check' = [check EXCEPT ![c] =
                   [NoCheck EXCEPT !.at = "known", !.day = today, !.todo = tickers,
                                   !.active = IF retire THEN tickers ELSE {},
                                   !.retire = retire]]
    /\ UNCHANGED <<world, store, capacity, candidates, faults, observer>>

CheckWatchlist(c) == Begin(c, watchlist, TRUE)
CheckTickers(c) == \E T \in Explicit : Begin(c, T, FALSE)

ReadKnown(c) ==
    /\ check[c].at = "known"
    /\ check' = [check EXCEPT ![c].at = "fetch",
                              ![c].known = ToSet(seen) \cup pending \cup history]
    /\ UNCHANGED <<world, store, capacity, candidates, faults, observer>>

\* The newest first, without what the check has observed already.
Listing(S, observed) ==
    LET new == S \ ToSet(observed)
    IN  [n \in 1..Cardinality(new) |-> Nth(new, Cardinality(new) + 1 - n)]

Fetch(c, t) ==
    /\ check[c].at = "fetch"
    /\ t \in check[c].todo
    /\ LET pool == Pool(t, check[c].day)
           found == Select(pool, check[c].known)
           fresh == check[c].fresh
       IN /\ check' = [check EXCEPT
                ![c].todo = @ \ {t},
                ![c].known = @ \cup found,
                ![c].observed = @ \o Listing(found, @),
                ![c].fresh = [u \in DOMAIN fresh \cup {t} |->
                                 IF u = t THEN Cardinality(pool) ELSE fresh[u]]]
          /\ candidates' = [candidates EXCEPT
                ![c] = @ \cup {d \in found : IsImportant(d)}]
    /\ UNCHANGED <<world, store, capacity, faults, observer>>

\* rate_limited, timeout, unavailable: the ticker is skipped.
FetchFails(c, t) ==
    /\ Fault
    /\ check[c].at = "fetch"
    /\ t \in check[c].todo
    /\ check' = [check EXCEPT ![c].todo = @ \ {t}]
    /\ UNCHANGED <<world, store, capacity, candidates, observer>>

\* The windows a check leaves: active ones, refreshed by what it fetched.
Refreshed(c) ==
    LET kept == {t \in DOMAIN windows : check[c].retire => t \in check[c].active}
        fresh == check[c].fresh
    IN  [t \in kept \cup DOMAIN fresh |->
            IF t \in DOMAIN fresh THEN fresh[t] ELSE windows[t]]

\* Share classes of one company reach the same disclosures: the sum, over the
\* companies, of the largest count of a ticker of the company.
Required(w) == Cardinality(UNION {{Company[t]} \X (1..w[t]) : t \in DOMAIN w})

Tracked(c) == {t \in tracked : check[c].retire => t \in check[c].active}
                 \cup DOMAIN check[c].fresh

\* Mutant: validates the windows as they were before this check.
RetainedBefore(c) == Required(windows) <= SeenLimit

Retained(c) == Required(Refreshed(c)) <= SeenLimit

\* The check returns or raises: its locals are gone.
End(c) ==
    /\ check' = [check EXCEPT ![c] = NoCheck]
    /\ candidates' = [candidates EXCEPT ![c] = {}]

\* The capacity rule writes both files, and only then may refuse the check.
EnsureCapacity(c) ==
    /\ check[c].at = "fetch"
    /\ check[c].todo = {}
    /\ tracked' = Tracked(c)
    /\ windows' = Refreshed(c)
    /\ \/ /\ Retained(c)
          /\ check' = [check EXCEPT ![c].at = "claim"]
          /\ UNCHANGED candidates
       \/ ~Retained(c) /\ End(c)
    /\ UNCHANGED <<world, store, faults, observer>>

\* Mutant: trusts the snapshot the check ranked with.
NewAlertsOfSnapshot(c) == candidates[c] \ check[c].known

\* Mutant: forgets that what waits in the outbox is known.
NewAlertsOverPending(c) == candidates[c] \ (ToSet(seen) \cup history)

NewAlerts(c) == candidates[c] \ (ToSet(seen) \cup pending \cup history)

\* What was observed moves to the end; the front is forgotten.
Remember(observed) ==
    LET others == {i \in DOMAIN seen : seen[i] \notin ToSet(observed)}
        moved == ElementsAt(seen, others) \o observed
    IN  IF Len(moved) > SeenLimit
        THEN SubSeq(moved, Len(moved) - SeenLimit + 1, Len(moved))
        ELSE moved

Claim(c) ==
    /\ check[c].at = "claim"
    /\ pending' = pending \cup NewAlerts(c)
    /\ seen' = Remember(check[c].observed)
    /\ End(c)
    /\ claimed' = claimed \cup NewAlerts(c)
    /\ reclaimed' = reclaimed \cup (claimed \cap NewAlerts(c))
    /\ passed' = passed \cup (claimed \ ToSet(check[c].observed))
    /\ UNCHANGED <<world, history, capacity, faults, acked>>

\* The process dies: what it holds is lost, what it wrote stays.
Crash(c) ==
    /\ Fault
    /\ check[c].at # "idle"
    /\ End(c)
    /\ UNCHANGED <<world, store, capacity, observer>>

\* Between the two writes of the capacity rule.
CrashInCapacity(c) ==
    /\ Fault
    /\ check[c].at = "fetch"
    /\ check[c].todo = {}
    /\ tracked' = Tracked(c)
    /\ End(c)
    /\ UNCHANGED <<world, store, windows, observer>>

----------------------------------------------------------------------------
\* A consumer acknowledges alerts it delivered; others are ignored.
Acknowledge(delivered) ==
    /\ delivered # {}
    /\ pending' = pending \ delivered
    /\ history' = Best(history \cup delivered, HistoryLimit, Priority)
    /\ acked' = acked \cup delivered
    /\ UNCHANGED <<world, seen, capacity, locals, faults, claimed, reclaimed, passed>>

----------------------------------------------------------------------------
Step(c) ==
    \/ ReadKnown(c)
    \/ \E t \in Tickers : Fetch(c, t)
    \/ EnsureCapacity(c)
    \/ Claim(c)

Next ==
    \/ Publish \/ Midnight
    \/ \E t \in Tickers : Watch(t) \/ Unwatch(t)
    \/ \E delivered \in SUBSET pending : Acknowledge(delivered)
    \/ \E c \in Checkers :
          \/ CheckWatchlist(c) \/ CheckTickers(c) \/ Step(c)
          \/ \E t \in Tickers : FetchFails(c, t)
          \/ Crash(c) \/ CrashInCapacity(c)

Spec == Init /\ [][Next]_vars

----------------------------------------------------------------------------
(* What the outbox promises.                                                *)

\* The important disclosures KAP still offers for a watched ticker.
Due(d) ==
    /\ d <= newest /\ IsImportant(d)
    /\ PublishedOn[d] + Lookback >= today
    /\ \E t \in watchlist : Company[t] = Issuer[d]

\* An important disclosure is not marked seen before it is in the outbox, and
\* leaves the outbox only by an acknowledgement: no crash, refused check or
\* concurrent check between fetch and claim loses one (at-least-once delivery,
\* AlertStateStore.claim and acknowledge).  What is pending is not delivered, so
\* the load never drops it as a legacy duplicate.
SeenIsClaimed == \A d \in ToSet(seen) : IsImportant(d) => d \in claimed
ClaimedIsKept == claimed \subseteq pending \cup acked
PendingNotDelivered == pending \cap history = {}
NothingLost == TypeOK /\ SeenIsClaimed /\ ClaimedIsKept /\ PendingNotDelivered

\* Whatever seen_ids forgets, no disclosure is alerted twice, by checks that
\* overlap or follow each other, as long as no more alerts were ever acknowledged
\* than the history holds (the three membership tests of AlertStateStore.claim).
OnceWhileHistoryLasts == Cardinality(acked) <= HistoryLimit => reclaimed = {}

\* Beyond the history, a disclosure is alerted twice only if some check after
\* the first alert did not observe it: the seen_limit the capacity rule demands
\* is enough to remember all that each check observes (_commit_capacity_snapshot
\* and the trim of AlertStateStore.claim).
TwiceOnlyIfPassedOver == reclaimed \subseteq passed

\* "alert_seen_limit must be at least tracked_ticker_count *
\* kap_alert_max_disclosures to prevent duplicate alerts" (service.py:755), and
\* round 18's "must cover every unique disclosure reachable": the checks that
\* pass the capacity rule alert every disclosure at most once.
DuplicatesPrevented == reclaimed = {}

\* An important disclosure that stays reachable is put into the outbox, even
\* when each request returns fewer disclosures than KAP offers (the unseen-first
\* quota of _select_significant), unless the capacity rule refuses the checks.
EventuallyClaimed ==
    \A d \in Disclosures :
        Due(d) ~> (d \in claimed \/ ~Due(d) \/ Required(windows) > SeenLimit)

\* A check that has begun goes on; the scheduler that runs the checks (cron, or
\* an operator) starts a check of the watchlist again and again.
FairSpec ==
    /\ Spec
    /\ \A c \in Checkers : WF_vars(Step(c)) /\ SF_vars(CheckWatchlist(c))

=============================================================================
