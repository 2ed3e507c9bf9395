---------------------------- MODULE AnalysisHistory ----------------------------
(***************************************************************************)
(* The tables of history/store.py and the arithmetic of history/tracker.py *)
(* as operators: what each SQL statement leaves in the tables, which rows  *)
(* are pending, and which prices a performance point is computed from.     *)
(*                                                                         *)
(* A price is the close of a session, or what its bar shows while it is    *)
(* open.  A return is kept as the two prices it divides, so that           *)
(* properties can say which prices were compared; rounding plays no part.  *)
(***************************************************************************)
EXTENDS Subsequences

CONSTANTS
    Keys,       \* <<ticker, trade date>> of the analyses that may be run
    Horizons,   \* analysis_history_horizons, in sessions
    StockDays,  \* [ticker -> the sessions of its exchange]
    BenchDays   \* [ticker -> the sessions of its benchmark]

ASSUME HistoryAssumption == Horizons # {} /\ Horizons \subseteq Nat \ {0}

Price == [day : Nat, final : BOOLEAN]
NoPrice == [day |-> 0, final |-> FALSE]
NoPoint == [from |-> NoPrice, to |-> NoPrice, bfrom |-> NoPrice, bto |-> NoPrice]
NoRow == [id |-> 0, run |-> 0, entry |-> NoPrice, bentry |-> NoPrice]

CoalesceNew(old, new) == IF new # NoPrice THEN new ELSE old
Coalesce(old, new) == IF old # NoPrice THEN old ELSE new

(* ------------------------------ statements ----------------------------- *)
\* record_analysis: insert, or replace the decision and keep id and snapshots.
Recorded(rows, k, r) ==
    [rows EXCEPT ![k].run = r,
        ![k].id = IF @ # 0 THEN @ ELSE 1 + Cardinality({j \in Keys : rows[j].id # 0})]

Filled(rows, k, entry, bentry) ==
    [rows EXCEPT ![k].entry = Coalesce(@, entry), ![k].bentry = Coalesce(@, bentry)]

\* A point counts as complete once it has a benchmark and an alpha return.
Complete(point) == point.bto # NoPrice
MissingRaw(points) == {h \in Horizons : points[h] = NoPoint}
Missing(points) == {h \in Horizons : ~Complete(points[h])}

\* pending_analyses: oldest trade date first, then the lower id.
PendingRows(rows, perf, tickers, limit) ==
    LET due == {k \in Keys : rows[k].id # 0 /\ k[1] \in tickers /\ Missing(perf[k]) # {}}
        Older(j, k) == \/ j[2] < k[2]
                       \/ j[2] = k[2] /\ rows[j].id < rows[k].id
        all == Sorted(due, {e \in due \X due : Older(e[1], e[2])})
    IN SubSeq(all, 1, IF Len(all) < limit THEN Len(all) ELSE limit)

(* -------------------------------- points ------------------------------- *)
\* What a load of the series returns: m is the moment of the load, and bench
\* says whether the benchmark's series was available.
Stock(t, m) == {s \in StockDays[t] : s <= m.day}
Bench(t, m) == IF m.bench THEN {s \in BenchDays[t] : s <= m.day} ELSE {}
Close(s, m) == [day |-> s, final |-> s < m.day]

\* _baseline_index: the last session on or before the trade date.
Baseline(bars, d) == {s \in bars : s <= d /\ \A x \in bars : x <= d => x <= s}
SnapshotObserved(bars, d, m, stored) ==
    IF Baseline(bars, d) = {} THEN stored
    ELSE Close(CHOOSE s \in Baseline(bars, d) : TRUE, m)
Snapshot(bars, d, m, stored) ==
    IF stored # NoPrice THEN stored
    ELSE IF Baseline(bars, d) = {} THEN NoPrice
    ELSE Close(CHOOSE s \in Baseline(bars, d) : TRUE, m)

Target(t, d, h, m) == {s \in Stock(t, m) :
    Cardinality({x \in Stock(t, m) : d < x /\ x <= s}) = h /\ s > d}

\* _points_from_series for a row as it was read: w has its key, its stored
\* snapshots and the horizons asked for.
EntryOf(w, m) == IF Baseline(Stock(w.key[1], m), w.key[2]) = {} THEN NoPrice
                 ELSE Snapshot(Stock(w.key[1], m), w.key[2], m, w.entry)
BenchEntryOf(w, m) == IF EntryOf(w, m) = NoPrice THEN NoPrice
                      ELSE Snapshot(Bench(w.key[1], m), w.key[2], m, w.bentry)
PointOf(w, h, m) ==
    LET t == w.key[1]
        target == CHOOSE s \in Target(t, w.key[2], h, m) : TRUE
        alpha == BenchEntryOf(w, m) # NoPrice /\ target \in Bench(t, m)
    IN [from |-> EntryOf(w, m), to |-> Close(target, m),
        bfrom |-> IF alpha THEN BenchEntryOf(w, m) ELSE NoPrice,
        bto |-> IF alpha THEN Close(target, m) ELSE NoPrice]
Reached(w, m) == IF EntryOf(w, m) = NoPrice THEN {}
                 ELSE {h \in w.horizons : Target(w.key[1], w.key[2], h, m) # {}}

\* record_performance: each computed point replaces the stored one.
Measured(points, w, m) ==
    [h \in Horizons |-> IF h \in Reached(w, m) THEN PointOf(w, h, m) ELSE points[h]]

=============================================================================
