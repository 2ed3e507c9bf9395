---------------------------- MODULE RunRecords ----------------------------
(***************************************************************************)
(* What a run of the analysis leaves on disk (TradingAgentsGraph.propagate *)
(* and _run_graph, the Portfolio Manager node wrapped by the history       *)
(* tracker): the decision log with its outcomes, the state log, the        *)
(* history tables.  Several processes run analyses and the history         *)
(* module's resolve command on the same files; nothing locks the decision  *)
(* log, and a statement of the history store commits by itself, so every   *)
(* read and every write is a step.                                         *)
(*                                                                         *)
(* A run first resolves the ticker's pending log entries (collect, read,   *)
(* write, replace), runs the graph, whose last node records the analysis   *)
(* and backfills older rows of the ticker, then logs the state and stores  *)
(* the decision.  Any run may die between two steps: a crash, a failing    *)
(* model call and a failing file operation all leave the files as they     *)
(* are; only the first also stops the operating-system process.            *)
(***************************************************************************)
EXTENDS MemoryLog, AnalysisHistory, TLC

CONSTANTS
    Procs,        \* processes on the same data directory
    Operators,    \* those of them that also run the resolve command
    HoldDays,     \* _fetch_returns: holding_days (5)
    ResolveLimit, \* analysis_history_resolve_limit
    Checkpoints,  \* checkpoint_enabled
    PriorLog,     \* the decision log the behaviour starts with
    FirstDay,     \* the day it starts on
    LastDay,      \* bound: the calendar stops in this day's session
    MaxRuns,      \* bound: analyses begun
    MaxFaults     \* bound: dead runs, failed loads, failed history stores

ASSUME RecordsAssumption ==
    /\ ResolveLimit \in Nat \ {0} /\ HoldDays \in Nat \ {0} /\ Checkpoints \in BOOLEAN
    /\ FirstDay \in Nat /\ LastDay \in Nat /\ FirstDay <= LastDay
    /\ MaxRuns \in Nat /\ MaxFaults \in Nat

Tickers == {k[1] : k \in Keys}
Command == <<>>     \* the key of a resolve command

\* The analyses the log may name, and the entries an earlier program left.
LogKeys == Keys \cup {PriorLog[i].key : i \in DOMAIN PriorLog}

ASSUME KeysAssumption ==
    /\ IsFiniteSet(Keys) /\ Command \notin Keys
    /\ \A k \in LogKeys : /\ k[2] \in Nat
                         /\ StockDays[k[1]] \subseteq Nat /\ BenchDays[k[1]] \subseteq Nat

\* The log of a program with the same cap.
ASSUME PriorLogAssumption ==
    /\ PriorLog \in Seq([key : LogKeys, run : {0}, days : 0..HoldDays])
    /\ \A i, j \in DOMAIN PriorLog :
           IsPending(PriorLog[i]) /\ IsPending(PriorLog[j])
               /\ PriorLog[i].key = PriorLog[j].key => i = j
    /\ MaxEntries > 0 => Cardinality(Resolved(PriorLog)) <= MaxEntries

VARIABLES
    today,       \* the calendar; today's session is still open
    log,         \* the decision log
    tmp,         \* its temporary file: <<>> or <<text>>
    states,      \* full_states_log: [Keys -> run, 0 for no file]
    threads,     \* the analyses that have rows in a checkpoint database
    rows, perf,  \* the history tables
    run,         \* per process: where it is and what it holds
    runs,        \* analyses begun
    faults,      \* environment: faults so far
    raced,       \* observer: the log changed between a process's look and its write
    slept        \* observer: a session closed while loaded prices were unsaved

files == <<log, tmp, states, threads>>
history == <<rows, perf>>
vars == <<today, files, history, run, runs, faults, raced, slept>>

Idle == [pc |-> "idle", key |-> <<>>, id |-> 0, updates |-> <<>>, text |-> <<>>,
         work |-> <<>>, market |-> <<>>, own |-> FALSE]
Goto(p, pc) == run' = [run EXCEPT ![p].pc = pc]
At(p, pc) == run[p].pc = pc
Key(p) == run[p].key

Init ==
    /\ today = FirstDay
    /\ log = PriorLog /\ tmp = <<>> /\ states = [k \in Keys |-> 0] /\ threads = {}
    /\ rows = [k \in Keys |-> NoRow] /\ perf = [k \in Keys |-> [h \in Horizons |-> NoPoint]]
    /\ run = [p \in Procs |-> Idle] /\ runs = 0 /\ faults = 0
    /\ raced = FALSE /\ slept = FALSE

(* ------------------------------ environment ---------------------------- *)
\* The session closes and the next one opens.
Tick ==
    /\ today < LastDay /\ today' = today + 1
    /\ slept' = (slept \/ \E p \in Procs : run[p].work # <<>>)
    /\ UNCHANGED <<files, history, run, runs, faults, raced>>

Fault == faults < MaxFaults /\ faults' = faults + 1

\* Every superstep of the graph saves the thread of the ticker and the date.
Checkpointed(p) == threads' = IF Checkpoints THEN threads \cup {Key(p)} ELSE threads
GraphOver(p) == IF run'[p].pc = "log" THEN Checkpointed(p) ELSE UNCHANGED threads

Die(p) ==
    /\ ~At(p, "idle") /\ Fault
    /\ run' = [run EXCEPT ![p] = Idle]
    /\ \/ UNCHANGED threads
       \/ At(p, "graph") /\ Checkpointed(p)
    /\ UNCHANGED <<today, log, tmp, states, history, runs, raced, slept>>

(* ----------------- pending entries of the decision log ----------------- *)
\* _fetch_returns needs two sessions of both series since the trade date; an
\* unanswered request skips the entry.
Holding(k) ==
    LET Since(bars) == Cardinality({s \in bars : k[2] <= s /\ s <= today}) - 1
        least(a, b) == IF a < b THEN a ELSE b
    IN least(HoldDays, least(Since(StockDays[k[1]]), Since(BenchDays[k[1]])))
Resolvable(k) == Cardinality({s \in StockDays[k[1]] : k[2] <= s /\ s <= today}) >= 2
                 /\ Cardinality({s \in BenchDays[k[1]] : k[2] <= s /\ s <= today}) >= 2

\* _resolve_pending_entries: read the entries and fetch their outcomes.
Begin(p, k) ==
    /\ At(p, "idle") /\ runs < MaxRuns /\ k[2] <= today
    /\ LET updates == [j \in {x \in PendingOf(log, k[1]) : Resolvable(x)} |-> Holding(j)]
       IN run' = [run EXCEPT ![p] = [Idle EXCEPT !.key = k, !.id = runs + 1,
                     !.updates = updates,
                     !.pc = IF DOMAIN updates = {} THEN "graph" ELSE "rewrite"]]
    /\ runs' = runs + 1
    /\ UNCHANGED <<today, files, history, faults, raced, slept>>

\* batch_update_with_outcomes: read the log, write the new text beside it,
\* rename it over the log.
ReadLog(p) ==
    /\ At(p, "rewrite")
    /\ run' = [run EXCEPT ![p].pc = "write",
                          ![p].text = Rewritten(log, run[p].updates)]
    /\ UNCHANGED <<today, files, history, runs, faults, raced, slept>>
WriteTmp(p) ==
    /\ At(p, "write")
    /\ tmp' = <<run[p].text>> /\ Goto(p, "replace")
    /\ UNCHANGED <<today, log, states, threads, history, runs, faults, raced, slept>>

\* The log changes while another process is between its read and its rename,
\* or between its scan and its append for the same analysis.
LogChanged(p) ==
    raced' = (raced \/ \E q \in Procs \ {p} :
                  \/ run[q].pc \in {"write", "replace"}
                  \/ At(q, "append") /\ Key(q) = Key(p))

\* The temporary file is shared: its rename takes whatever was written last,
\* and raises when another process has already renamed it.
Replace(p) ==
    /\ At(p, "replace")
    /\ IF tmp = <<>>
       THEN run' = [run EXCEPT ![p] = Idle] /\ UNCHANGED <<log, raced>>
       ELSE log' = tmp[1] /\ LogChanged(p) /\ run' = [run EXCEPT ![p] =
                [Idle EXCEPT !.pc = "graph", !.key = Key(p), !.id = run[p].id]]
    /\ tmp' = <<>>
    /\ UNCHANGED <<today, states, threads, history, runs, faults, slept>>

(* ------------- the Portfolio Manager node and its wrapper -------------- *)
\* record_completed: the decision is committed before any price is looked up.
\* A failing store is logged and the run goes on without its row.
Record(p) ==
    /\ At(p, "graph")
    /\ rows' = Recorded(rows, Key(p), run[p].id)
    /\ run' = [run EXCEPT ![p].pc = "read", ![p].own = TRUE]
    /\ Checkpointed(p)
    /\ UNCHANGED <<today, log, tmp, states, perf, runs, faults, raced, slept>>
RecordFails(p) ==
    /\ At(p, "graph") /\ Fault
    /\ Goto(p, "pending") /\ Checkpointed(p)
    /\ UNCHANGED <<today, log, tmp, states, history, runs, raced, slept>>

Row(k, horizons) ==
    [key |-> k, entry |-> rows[k].entry, bentry |-> rows[k].bentry, horizons |-> horizons]

\* The stored snapshots are read back; a run computes every horizon of its own row.
ReadOwn(p) ==
    /\ At(p, "read")
    /\ run' = [run EXCEPT ![p].pc = "load", ![p].work = <<Row(Key(p), Horizons)>>]
    /\ UNCHANGED <<today, files, history, runs, faults, raced, slept>>

\* Where a process goes once resolve_pending, and once the rows it holds, are done.
DoneUnlogged(p) == IF Key(p) = Command THEN "idle" ELSE "scan"
Done(p) == IF Key(p) = Command THEN "idle" ELSE "log"
Continue(p, work) ==
    run' = [run EXCEPT ![p].work = work, ![p].market = IF work = <<>> THEN <<>> ELSE @,
        ![p].pc = IF work = <<>> THEN IF run[p].own THEN "pending" ELSE Done(p)
                  ELSE IF work[1].key[1] = run[p].work[1].key[1] THEN "fill" ELSE "load"]

\* resolve_pending: a run takes the rows of its ticker and leaves its own row
\* out, a command takes every ticker's.  Rows are worked off ticker by ticker.
Grouped(ks) ==
    LET First(t) == CHOOSE i \in DOMAIN ks : ks[i][1] = t /\ \A j \in 1..(i - 1) : ks[j][1] # t
        Before(i, j) == \/ First(ks[i][1]) < First(ks[j][1])
                        \/ ks[i][1] = ks[j][1] /\ i < j
        Positions == DOMAIN ks
        order == Sorted(Positions, {e \in Positions \X Positions : Before(e[1], e[2])})
    IN [n \in DOMAIN ks |-> ks[order[n]]]
UpTo(n, s) == SubSeq(s, 1, IF Len(s) < n THEN Len(s) ELSE n)
ReadPending(p) ==
    /\ At(p, "pending")
    /\ LET own == IF run[p].own THEN {Key(p)} ELSE {}
           tickers == IF Key(p) = Command THEN Tickers ELSE {Key(p)[1]}
           due == PendingRows(rows, perf, tickers, ResolveLimit + Cardinality(own))
           others == ElementsAt(due, {i \in DOMAIN due : due[i] \notin own})
           chosen == Grouped(UpTo(ResolveLimit, others))
       IN run' = [run EXCEPT ![p].own = FALSE,
             ![p].work = [i \in DOMAIN chosen |->
                             Row(chosen[i], Missing(perf[chosen[i]]))],
             ![p].pc = IF chosen # <<>> THEN "load" ELSE Done(p)]
    /\ GraphOver(p)
    /\ UNCHANGED <<today, log, tmp, states, history, runs, faults, raced, slept>>

\* One load of the stock's and the benchmark's series serves every row of the
\* ticker.  A missing benchmark series is survived, a missing stock series
\* ends the work.
Load(p, bench) ==
    /\ At(p, "load") /\ IF bench THEN UNCHANGED faults ELSE Fault
    /\ run' = [run EXCEPT ![p].pc = "fill",
                          ![p].market = [day |-> today, bench |-> bench]]
    /\ UNCHANGED <<today, files, history, runs, raced, slept>>
LoadFails(p) ==
    /\ At(p, "load") /\ Fault
    /\ LET work == run[p].work
           others == {i \in DOMAIN work : work[i].key[1] # work[1].key[1]}
       IN Continue(p, ElementsAt(work, others))
    /\ GraphOver(p)
    /\ UNCHANGED <<today, log, tmp, states, history, runs, raced, slept>>

\* update_price_snapshots, then record_performance in its own transaction.
Fill(p) ==
    /\ At(p, "fill")
    /\ LET w == Head(run[p].work) IN
       rows' = Filled(rows, w.key, EntryOf(w, run[p].market), BenchEntryOf(w, run[p].market))
    /\ Goto(p, "measure")
    /\ UNCHANGED <<today, files, perf, runs, faults, raced, slept>>
Measure(p) ==
    /\ At(p, "measure")
    /\ LET w == Head(run[p].work) IN
       perf' = [perf EXCEPT ![w.key] = Measured(@, w, run[p].market)]
    /\ Continue(p, Tail(run[p].work)) /\ GraphOver(p)
    /\ UNCHANGED <<today, log, tmp, states, rows, runs, faults, raced, slept>>

\* python -m tradingagents.history resolve
BeginResolve(p) ==
    /\ At(p, "idle") /\ p \in Operators
    /\ run' = [run EXCEPT ![p] = [Idle EXCEPT !.pc = "pending"]]
    /\ UNCHANGED <<today, files, history, runs, faults, raced, slept>>

(* ---------------------------- after the graph -------------------------- *)
LogState(p) ==
    /\ At(p, "log")
    /\ states' = [states EXCEPT ![Key(p)] = run[p].id] /\ Goto(p, "scan")
    /\ UNCHANGED <<today, log, tmp, threads, history, runs, faults, raced, slept>>

ScanLogAppends(p) ==
    /\ At(p, "scan") /\ Goto(p, "append")
    /\ UNCHANGED <<today, files, history, runs, faults, raced, slept>>

\* store_decision reads the log, then appends to it.
ScanLog(p) ==
    /\ At(p, "scan")
    /\ Goto(p, IF HasPending(log, Key(p)) THEN "clear" ELSE "append")
    /\ UNCHANGED <<today, files, history, runs, faults, raced, slept>>
AppendLog(p) ==
    /\ At(p, "append")
    /\ log' = Append(log, Entry(Key(p), run[p].id)) /\ LogChanged(p)
    /\ Goto(p, "clear")
    /\ UNCHANGED <<today, tmp, states, threads, history, runs, faults, slept>>

\* clear_checkpoint, the last step of a run.
ClearCheckpoint(p) ==
    /\ At(p, "clear")
    /\ threads' = threads \ {Key(p)} /\ run' = [run EXCEPT ![p] = Idle]
    /\ UNCHANGED <<today, log, tmp, states, history, runs, faults, raced, slept>>

Progress(p) ==
    \/ ReadLog(p) \/ WriteTmp(p) \/ Replace(p)
    \/ Record(p) \/ RecordFails(p) \/ ReadOwn(p) \/ ReadPending(p)
    \/ \E bench \in BOOLEAN : Load(p, bench)
    \/ LoadFails(p) \/ Fill(p) \/ Measure(p)
    \/ BeginResolve(p)
    \/ LogState(p) \/ ScanLog(p) \/ AppendLog(p) \/ ClearCheckpoint(p)
Next == Tick \/ \E p \in Procs : Progress(p) \/ Die(p) \/ \E k \in Keys : Begin(p, k)
Spec == Init /\ [][Next]_vars

\* Days pass, and whoever runs the resolve command keeps running it: an
\* operator always has a next step, so its weak fairness is that it takes one
\* again and again.  Nobody has to run an analysis, and the other processes
\* may hang at any step.
FairSpec == Spec /\ WF_vars(Tick) /\ \A p \in Operators : []<><<Progress(p)>>_vars

(* ------------------------------ properties ----------------------------- *)
TypeOK ==
    /\ today \in FirstDay..LastDay
    /\ \A i \in DOMAIN log : log[i].run \in 0..runs /\ log[i].days \in 0..HoldDays
    /\ tmp # <<>> => \A i \in DOMAIN tmp[1] : tmp[1][i].run \in 0..runs
    /\ threads \subseteq Keys /\ states \in [Keys -> 0..runs] /\ runs \in 0..MaxRuns /\ faults \in 0..MaxFaults
    /\ \A k \in Keys : rows[k].run \in 0..runs /\ rows[k].entry \in Price
    /\ \A k \in Keys, h \in Horizons : perf[k][h].to \in Price

\* The resolved entries never exceed the cap, whatever rewrites race
\* (memory.py _apply_rotation runs on every rewrite, appends add pending ones).
LogWithinCap == MaxEntries > 0 => Cardinality(Resolved(log)) <= MaxEntries

\* As long as no process writes the log between another's look and write, an
\* analysis has at most one pending entry, also when it is re-run after a
\* crash or after its first entry has been resolved (store_decision).
OnePendingEntry ==
    ~raced => \A i, j \in DOMAIN log :
        IsPending(log[i]) /\ IsPending(log[j]) /\ log[i].key = log[j].key => i = j
LogWellFormed == TypeOK /\ LogWithinCap /\ OnePendingEntry

\* Under the same condition a pending decision leaves the log only in a rewrite
\* that had its outcome: neither the rewrite nor the rotation drops one that
\* still waits (memory.py: "Pending blocks are always kept").  The rewrite is one
\* of the ticker, unless it is the text of a process that died beside a rename.
PendingSurvives ==
    [][~raced' => \A i \in DOMAIN log :
          IsPending(log[i]) =>
            \/ \E j \in DOMAIN log' : log'[j] = log[i]
            \/ \E p \in Procs :
                  /\ At(p, "replace") /\ Resolvable(log[i].key)
                  /\ faults = 0 => log[i].key[1] = Key(p)[1]]_log

\* The context of the next run holds, newest first, the latest resolved
\* entries of the ticker and of the others: get_past_context's single pass
\* with its two counters against the definition by position.
Latest(S, n) == {i \in S : Cardinality({j \in S : j > i}) < n}
NewestFirst(text, S, n) == Reverse(ElementsAt(text, Latest(S, n)))
ContextIsLatest ==
    \A t \in {log[i].key[1] : i \in DOMAIN log} :
        PastContext(log, t) =
          [same |-> NewestFirst(log, {i \in Resolved(log) : log[i].key[1] = t}, NSame),
           cross |-> NewestFirst(log, {i \in Resolved(log) : log[i].key[1] # t}, NCross)]

\* A decision that reached the log is on disk everywhere else: its state log
\* is written before it, and its row even earlier unless the store failed;
\* and a checkpoint that nobody is writing is one of an analysis that some
\* run left unfinished (trading_graph.py: "Clear checkpoint on successful
\* completion").
LoggedIsRecorded ==
    /\ \A i \in DOMAIN log : log[i].run > 0 =>
          states[log[i].key] > 0 /\ (faults = 0 => rows[log[i].key].run > 0)
    /\ faults = 0 => threads \subseteq {Key(p) : p \in Procs}

\* A price snapshot is never moved by a re-run, a backfill or another process
\* (store.py: "Snapshot columns are first-write-wins").
SnapshotsFixed ==
    [][\A k \in Keys : /\ rows[k].entry # NoPrice => rows'[k].entry = rows[k].entry
                       /\ rows[k].bentry # NoPrice => rows'[k].bentry = rows[k].bentry]_rows

\* Every return divides by the stored snapshots and measures stock and
\* benchmark on the same session, h sessions after the trade date: a row
\* captured intraday does not drift to the close.  A process that sleeps over
\* a close with prices in hand is the exception.
PointsMatchSnapshots ==
    ~slept => \A k \in Keys, h \in Horizons :
        LET point == perf[k][h] IN
        /\ point # NoPoint =>
              /\ point.from = rows[k].entry
              /\ Cardinality({s \in StockDays[k[1]] : k[2] < s /\ s <= point.to.day}) = h
        /\ Complete(point) => point.bfrom = rows[k].bentry /\ point.bto = point.to

\* Every recorded analysis whose horizons have been traded on both exchanges
\* gets all of them measured and keeps them, through failed loads, dead
\* processes and outages of the benchmark, provided fewer rows than the
\* resolve limit wait for a session the benchmark never has.
Measurable ==
    LET m == [day |-> LastDay, bench |-> TRUE]
        New(k) == [key |-> k, entry |-> NoPrice, bentry |-> NoPrice, horizons |-> Horizons]
    IN {k \in Keys : \A h \in Horizons :
            h \in Reached(New(k), m) /\ Complete(PointOf(New(k), h, m))}
Due == IF Cardinality(Keys \ Measurable) < ResolveLimit THEN Measurable ELSE {}
EventuallyMeasured ==
    <>[](\A k \in Due : rows[k].id # 0 => \A h \in Horizons : Complete(perf[k][h]))

=============================================================================
