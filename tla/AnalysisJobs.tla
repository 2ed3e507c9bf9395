------------------------------ MODULE AnalysisJobs ------------------------------
(***************************************************************************)
(* The analysis job service: the SQLite job table (service/jobs.py), the   *)
(* AnalysisService with its thread pool (service/core.py) and the submit   *)
(* endpoint in front of it (service/api.py).                               *)
(*                                                                         *)
(* The table survives a crash of a service process; its executor queue,    *)
(* its worker threads and its half-served requests do not.  Every call of  *)
(* the store is one SQLite transaction, and one action here.               *)
(*                                                                         *)
(* A job is named by the position of its INSERT: uuid4 names are unique    *)
(* and created_at orders rows as they were inserted, and nothing else      *)
(* about a name or a creation time is ever used.                           *)
(***************************************************************************)
EXTENDS Naturals, Sequences, FiniteSets

CONSTANTS
    Services,     \* service processes that open the same job database
    Threads,      \* worker threads of one service's executor (max_workers)
    Keys,         \* Idempotency-Key values the callers use
    NoKey,        \* the absent (or blank) key
    Requests,     \* request payloads, by their hash
    MaxPending,   \* max_pending_jobs
    MaxTerminal,  \* max_terminal_jobs
    MaxJobs,      \* bound: INSERTs in a behaviour
    MaxStops,     \* bound: crashes and shutdowns in a behaviour
    MaxFaults     \* bound: worker transactions that raise

\* The service clamps both limits with max(1, ...).
ASSUME LimitsAssumption ==
    /\ MaxPending \in Nat \ {0}
    /\ MaxTerminal \in Nat \ {0}

ASSUME BoundsAssumption ==
    /\ MaxJobs \in Nat
    /\ MaxStops \in Nat
    /\ MaxFaults \in Nat

ASSUME KeysAssumption == NoKey \notin Keys

VARIABLES
    inserted,  \* immutable columns of every row ever inserted, in order
    rows,      \* the rows now in the table: job -> status
    ended,     \* the jobs that became terminal, in order of their updated_at
    phase,     \* life cycle of each service process
    handed,    \* jobs whose request handler has not scheduled them yet
    backlog,   \* recovered jobs that startup has not scheduled yet
    queue,     \* the executor's FIFO queue
    worker,    \* what each worker thread is doing, and for which job
    reply,     \* the answer of the submit endpoint, in the step that gives it
    runs,      \* history: how many graph runs each job has had
    requeues,  \* history: how often recovery took the job back from running
    orphans,   \* history: jobs dropped by a worker whose transaction raised
    stops,     \* crashes and shutdowns so far
    faults     \* worker transactions that raised so far

table   == <<inserted, rows, ended>>
history == <<runs, requeues, orphans, stops, faults>>
vars    == <<table, phase, handed, backlog, queue, worker, reply, history>>

Ids      == 1 .. MaxJobs
NoJob    == 0
Terminal == {"succeeded", "failed"}
Statuses == {"queued", "running"} \cup Terminal
Phases   == {"down", "pruned", "booting", "up", "closing", "closed"}
\* "ok" and "err": the graph run has returned, or raised, its row is not written
Pcs      == {"idle", "claimed", "ready", "running", "ok", "err", "pruning"}
Idle     == [pc |-> "idle", job |-> NoJob]
Silence  == [code |-> "none", key |-> NoKey, req |-> NoKey, job |-> NoJob]

\* A worker of service s that is between claim and the finishing write of i.
WorksOn(s, t, i) ==
    worker[s][t].job = i /\ worker[s][t].pc \in Pcs \ {"idle", "pruning"}

TypeOK ==
    /\ inserted \in Seq([key : Keys \cup {NoKey}, req : Requests])
    /\ Len(inserted) <= MaxJobs
    /\ DOMAIN rows \subseteq DOMAIN inserted
    /\ rows \in [DOMAIN rows -> Statuses]
    /\ ended \in Seq(Ids)
    /\ phase \in [Services -> Phases]
    /\ handed \in [Services -> SUBSET Ids]
    /\ backlog \in [Services -> SUBSET Ids]
    /\ queue \in [Services -> Seq(Ids)]
    /\ worker \in [Services -> [Threads -> [pc : Pcs, job : Ids \cup {NoJob}]]]
    /\ reply \in [code : {"none", "202", "409", "429"},
                  key : Keys \cup {NoKey}, req : Requests \cup {NoKey},
                  job : Ids \cup {NoJob}]
    /\ runs \in [Ids -> Nat]
    /\ requeues \in [Ids -> Nat]
    /\ orphans \subseteq Ids
    /\ stops \in 0 .. MaxStops
    /\ faults \in 0 .. MaxFaults

Init ==
    /\ inserted = <<>>
    /\ rows = [i \in {} |-> "queued"]
    /\ ended = <<>>
    /\ phase = [s \in Services |-> "down"]
    /\ handed = [s \in Services |-> {}]
    /\ backlog = [s \in Services |-> {}]
    /\ queue = [s \in Services |-> <<>>]
    /\ worker = [s \in Services |-> [t \in Threads |-> Idle]]
    /\ reply = Silence
    /\ runs = [i \in Ids |-> 0]
    /\ requeues = [i \in Ids |-> 0]
    /\ orphans = {}
    /\ stops = 0
    /\ faults = 0

-----------------------------------------------------------------------------
(* The table's statements.                                                 *)

Having(S)  == {i \in DOMAIN rows : rows[i] \in S}
Pending    == Having({"queued", "running"})
FullOffByOne == Cardinality(Pending) > MaxPending  \* mutant: > for >=
Full       == Cardinality(Pending) >= MaxPending
\* mutant: the lookup sees pending rows only
HoldersPending(k) == {i \in Pending : inserted[i].key = k}
Holders(k) == {i \in DOMAIN rows : inserted[i].key = k}
\* No row stands in the way of a request with key k: it has none, or a free one.
Unheld(k)  == k = NoKey \/ Holders(k) = {}

\* UPDATE ... SET status = st WHERE id IN S
SetStatus(S, st) == rows' = [i \in DOMAIN rows |-> IF i \in S THEN st ELSE rows[i]]

\* The WHERE clauses of claim, of finish_* and of recovery's UPDATE, and what
\* recovery's SELECT returns after it.  Each mutant forgets part of its clause.
ClaimableAny(i) == i \in DOMAIN rows
Claimable(i) == i \in Having({"queued"})
Finishable(i) == i \in Having({"running"})
InterruptedOrFailed == Having({"running", "failed"})
Interrupted == Having({"running"})
RecoveredInterrupted == Interrupted
Recovered == Having({"queued"}) \cup Interrupted

\* j is after i in ORDER BY updated_at DESC, that is, i ended later.  The time is
\* read just before the write lock is waited for, so two jobs that end at once can
\* be ordered the other way round: which of the two is pruned first, no more.
EndedAfter(i, j) ==
    \E p, q \in DOMAIN ended : ended[p] = i /\ ended[q] = j /\ p > q
\* The terminal rows beyond the newest MaxTerminal.
SurplusOfAll ==  \* mutant: no status filter, oldest rows go first
    {i \in DOMAIN rows : Cardinality({j \in DOMAIN rows : j > i}) >= MaxTerminal}
Surplus ==
    {i \in Having(Terminal) :
        Cardinality({j \in Having(Terminal) : EndedAfter(j, i)}) >= MaxTerminal}
\* prune_terminal selects and deletes in two statements.  They are one here: an
\* ended row never changes, so what was selected is still surplus when it is
\* deleted, and the worker that adds to the surplus in between prunes as well.
PruneTerminal == rows' = [i \in DOMAIN rows \ Surplus |-> rows[i]]

-----------------------------------------------------------------------------
(* POST /api/v1/analyses: create_or_get in one write transaction, then     *)
(* _schedule if the row is new, then the answer.                           *)

Answer(code, k, r, i) == reply' = [code |-> code, key |-> k, req |-> r, job |-> i]

SubmitReplayAny(s, k, r) ==  \* mutant: request_hash is not compared
    /\ phase[s] = "up"
    /\ ~ Unheld(k)
    /\ \E i \in Holders(k) : Answer("202", k, r, i)
    /\ UNCHANGED <<table, phase, handed, backlog, queue, worker, history>>

SubmitReplay(s, k, r) ==
    /\ phase[s] = "up"
    /\ ~ Unheld(k)
    /\ \E i \in Holders(k) : inserted[i].req = r /\ Answer("202", k, r, i)
    /\ UNCHANGED <<table, phase, handed, backlog, queue, worker, history>>

SubmitConflict(s, k, r) ==
    /\ phase[s] = "up"
    /\ ~ Unheld(k)
    /\ \E i \in Holders(k) : inserted[i].req # r
    /\ Answer("409", k, r, NoJob)
    /\ UNCHANGED <<table, phase, handed, backlog, queue, worker, history>>

SubmitFull(s, k, r) ==
    /\ phase[s] = "up"
    /\ Unheld(k)
    /\ Full
    /\ Answer("429", k, r, NoJob)
    /\ UNCHANGED <<table, phase, handed, backlog, queue, worker, history>>

SubmitNew(s, k, r) ==
    /\ phase[s] = "up"
    /\ Unheld(k)
    /\ ~ Full
    /\ Len(inserted) < MaxJobs
    /\ LET i == Len(inserted) + 1
       IN  /\ inserted' = Append(inserted, [key |-> k, req |-> r])
           /\ rows' = [j \in DOMAIN rows \cup {i} |->
                          IF j = i THEN "queued" ELSE rows[j]]
           /\ handed' = [handed EXCEPT ![s] = @ \cup {i}]
    /\ reply' = Silence
    /\ UNCHANGED <<ended, phase, backlog, queue, worker, history>>

\* The handler of a new row: executor.submit, then 202.
Schedule(s, i) ==
    /\ i \in handed[s]
    /\ handed' = [handed EXCEPT ![s] = @ \ {i}]
    /\ queue' = [queue EXCEPT ![s] = Append(@, i)]
    /\ Answer("202", inserted[i].key, inserted[i].req, i)
    /\ UNCHANGED <<table, phase, backlog, worker, history>>

Submit(s) ==
    \E k \in Keys \cup {NoKey}, r \in Requests :
        \/ SubmitReplay(s, k, r)
        \/ SubmitConflict(s, k, r)
        \/ SubmitFull(s, k, r)
        \/ SubmitNew(s, k, r)

-----------------------------------------------------------------------------
(* AnalysisService._execute on a thread of the executor.                   *)

Alive(s) == phase[s] \in {"booting", "up", "closing"}

At(s, t, pc) == worker[s][t].pc = pc
Goto(s, t, pc) == worker' = [worker EXCEPT ![s][t].pc = pc]
Rest(s, t) == worker' = [worker EXCEPT ![s][t] = Idle]

\* The next queued future: claim, and stop there when the row was not queued.
Claim(s, t) ==
    /\ Alive(s)
    /\ At(s, t, "idle")
    /\ queue[s] # <<>>
    /\ LET i == Head(queue[s])
       IN  \/ /\ Claimable(i)
              /\ SetStatus({i}, "running")
              /\ worker' = [worker EXCEPT ![s][t] = [pc |-> "claimed", job |-> i]]
           \/ /\ ~ Claimable(i)
              /\ UNCHANGED <<rows, worker>>
    /\ queue' = [queue EXCEPT ![s] = Tail(@)]
    /\ reply' = Silence
    /\ UNCHANGED <<inserted, ended, phase, handed, backlog, history>>

\* store.get: the row is gone only if another process ran the job as well.
Load(s, t) ==
    /\ At(s, t, "claimed")
    /\ IF worker[s][t].job \in DOMAIN rows THEN Goto(s, t, "ready") ELSE Rest(s, t)
    /\ reply' = Silence
    /\ UNCHANGED <<table, phase, handed, backlog, queue, history>>

\* runtime.propagate takes the runtime's lock: one graph run per process.
RunLockFree(s) == \A t \in Threads : ~ At(s, t, "running")

BeginRun(s, t) ==
    /\ At(s, t, "ready")
    /\ RunLockFree(s)
    /\ Goto(s, t, "running")
    /\ runs' = [runs EXCEPT ![worker[s][t].job] = @ + 1]
    /\ reply' = Silence
    /\ UNCHANGED <<table, phase, handed, backlog, queue,
                   requeues, orphans, stops, faults>>

EndRun(s, t) ==
    /\ At(s, t, "running")
    /\ \E pc \in {"ok", "err"} : Goto(s, t, pc)
    /\ reply' = Silence
    /\ UNCHANGED <<table, phase, handed, backlog, queue, history>>

OutcomeUnmapped(pc) == pc  \* mutant
Outcome(pc) == IF pc = "ok" THEN "succeeded" ELSE "failed"

\* finish_success and finish_failure: nothing to update unless still running.
Finish(s, t) ==
    /\ worker[s][t].pc \in {"ok", "err"}
    /\ LET i == worker[s][t].job
       IN  \/ /\ Finishable(i)
              /\ SetStatus({i}, Outcome(worker[s][t].pc))
              /\ ended' = Append(ended, i)
           \/ /\ ~ Finishable(i)
              /\ UNCHANGED <<rows, ended>>
    /\ Goto(s, t, "pruning")
    /\ reply' = Silence
    /\ UNCHANGED <<inserted, phase, handed, backlog, queue, history>>

\* A transaction of the worker raises (a locked or full database).  The future
\* swallows the error: the row stays as it was, and no thread comes back to it.
\* A failed finish still prunes, in the finally clause.
StoreRaises(s, t) ==
    /\ faults < MaxFaults
    /\ faults' = faults + 1
    /\ \/ /\ Alive(s) /\ At(s, t, "idle") /\ queue[s] # <<>>
          /\ queue' = [queue EXCEPT ![s] = Tail(@)]
          /\ orphans' = orphans \cup {Head(queue[s])}
          /\ UNCHANGED worker
       \/ /\ At(s, t, "claimed")
          /\ Rest(s, t)
          /\ orphans' = orphans \cup {worker[s][t].job}
          /\ UNCHANGED queue
       \/ /\ worker[s][t].pc \in {"ok", "err"}
          /\ Goto(s, t, "pruning")
          /\ orphans' = orphans \cup {worker[s][t].job}
          /\ UNCHANGED queue
       \/ /\ At(s, t, "pruning")
          /\ Rest(s, t)
          /\ UNCHANGED <<queue, orphans>>
    /\ reply' = Silence
    /\ UNCHANGED <<table, phase, handed, backlog, runs, requeues, stops>>

Prune(s, t) ==
    /\ At(s, t, "pruning")
    /\ PruneTerminal
    /\ Rest(s, t)
    /\ reply' = Silence
    /\ UNCHANGED <<inserted, ended, phase, handed, backlog, queue, history>>

WorkerStep(s, t) ==
    \/ Claim(s, t)
    \/ Load(s, t)
    \/ BeginRun(s, t)
    \/ EndRun(s, t)
    \/ Finish(s, t)
    \/ StoreRaises(s, t)
    \/ Prune(s, t)

-----------------------------------------------------------------------------
(* Process life cycle: __init__ (prune, recover, schedule), close, crash.  *)

BootPrune(s) ==
    /\ phase[s] \in {"down", "closed"}
    /\ PruneTerminal
    /\ phase' = [phase EXCEPT ![s] = "pruned"]
    /\ reply' = Silence
    /\ UNCHANGED <<inserted, ended, handed, backlog, queue, worker, history>>

\* recover_incomplete: every running row is queued again, whoever runs it.
BootRecover(s) ==
    /\ phase[s] = "pruned"
    /\ SetStatus(Interrupted, "queued")
    /\ backlog' = [backlog EXCEPT ![s] = Recovered]
    /\ requeues' = [i \in Ids |->
                      IF i \in Having({"running"}) THEN requeues[i] + 1 ELSE requeues[i]]
    /\ orphans' = {}
    /\ phase' = [phase EXCEPT ![s] = "booting"]
    /\ reply' = Silence
    /\ UNCHANGED <<inserted, ended, handed, queue, worker, runs, stops, faults>>

\* The loop over the recovered ids, oldest first.
BootSchedule(s) ==
    /\ phase[s] = "booting"
    /\ \E i \in backlog[s] :
          /\ \A j \in backlog[s] : i <= j
          /\ queue' = [queue EXCEPT ![s] = Append(@, i)]
          /\ backlog' = [backlog EXCEPT ![s] = @ \ {i}]
    /\ reply' = Silence
    /\ UNCHANGED <<table, phase, handed, worker, history>>

BootReady(s) ==
    /\ phase[s] = "booting"
    /\ backlog[s] = {}
    /\ phase' = [phase EXCEPT ![s] = "up"]
    /\ reply' = Silence
    /\ UNCHANGED <<table, handed, backlog, queue, worker, history>>

\* The server drains its requests before the lifespan calls close().
BeginClose(s) ==
    /\ stops < MaxStops
    /\ phase[s] = "up"
    /\ handed[s] = {}
    /\ phase' = [phase EXCEPT ![s] = "closing"]
    /\ stops' = stops + 1
    /\ reply' = Silence
    /\ UNCHANGED <<table, handed, backlog, queue, worker,
                   runs, requeues, orphans, faults>>

\* shutdown(wait=True, cancel_futures=False) returns when the queued futures
\* have run, and the process exits with whatever its memory held.
DrainedIdle(s) == \A t \in Threads : At(s, t, "idle")  \* mutant: cancel_futures
Drained(s) == queue[s] = <<>> /\ \A t \in Threads : At(s, t, "idle")

EndClose(s) ==
    /\ phase[s] = "closing"
    /\ Drained(s)
    /\ phase' = [phase EXCEPT ![s] = "closed"]
    /\ queue' = [queue EXCEPT ![s] = <<>>]
    /\ worker' = [worker EXCEPT ![s] = [t \in Threads |-> Idle]]
    /\ reply' = Silence
    /\ UNCHANGED <<table, handed, backlog, history>>

Crash(s) ==
    /\ stops < MaxStops
    /\ phase[s] \notin {"down", "closed"}
    /\ phase' = [phase EXCEPT ![s] = "down"]
    /\ handed' = [handed EXCEPT ![s] = {}]
    /\ backlog' = [backlog EXCEPT ![s] = {}]
    /\ queue' = [queue EXCEPT ![s] = <<>>]
    /\ worker' = [worker EXCEPT ![s] = [t \in Threads |-> Idle]]
    /\ stops' = stops + 1
    /\ reply' = Silence
    /\ UNCHANGED <<table, runs, requeues, orphans, faults>>

Boot(s) == BootPrune(s) \/ BootRecover(s) \/ BootSchedule(s) \/ BootReady(s)

Next ==
    \E s \in Services :
        \/ Submit(s)
        \/ \E i \in Ids : Schedule(s, i)
        \/ \E t \in Threads : WorkerStep(s, t)
        \/ Boot(s)
        \/ BeginClose(s)
        \/ EndClose(s)
        \/ Crash(s)

Spec == Init /\ [][Next]_vars

\* A started handler runs on; executor threads take what is queued and a graph
\* run returns (its recursion limit bounds it); a stopped service is started
\* again.  Nothing is assumed of callers, crashes, shutdowns or store errors.
Fairness ==
    \A s \in Services :
        /\ WF_vars(Boot(s))
        /\ WF_vars(EndClose(s))
        /\ \A i \in Ids : WF_vars(Schedule(s, i))
        /\ \A t \in Threads :
              /\ WF_vars(Claim(s, t) \/ Load(s, t) \/ EndRun(s, t)
                         \/ Finish(s, t) \/ Prune(s, t))
              /\ SF_vars(BeginRun(s, t))

FairSpec == Spec /\ Fairness

-----------------------------------------------------------------------------
(* Safety.                                                                 *)

\* At most MaxPending jobs are queued or running, whatever requests race and
\* however often running jobs are taken back (jobs.py create_or_get's count).
PendingBound == Cardinality(Pending) <= MaxPending

\* Two rows never share an idempotency key, so a retry finds one job
\* (create_or_get's lookup inside the write transaction).
UniqueLiveKey ==
    \A i, j \in DOMAIN rows :
        inserted[i].key = inserted[j].key /\ inserted[i].key # NoKey => i = j

\* A 202 names a job of the very request that was sent: a caller never gets
\* the analysis of somebody else's request (the request_hash comparison).
ReplyNamesRequest ==
    reply.code = "202" => inserted[reply.job] = [key |-> reply.key, req |-> reply.req]

\* A job is run once, and once more for each time a starting service took it
\* back from "running" (claim's WHERE status = 'queued').
RunsBounded == \A i \in Ids : runs[i] <= 1 + requeues[i]

\* While every service is up, a queued job is in an executor queue or about to
\* be put there, and a running job has a worker, unless that worker's store
\* call raised: no accepted job waits for a restart that may never come.
NoJobStranded ==
    (\A s \in Services : phase[s] = "up") =>
        /\ \A i \in Having({"queued"}) \ orphans :
              \E s \in Services :
                  i \in handed[s] \/ \E p \in DOMAIN queue[s] : queue[s][p] = i
        /\ \A i \in Having({"running"}) \ orphans :
              \E s \in Services, t \in Threads : WorksOn(s, t, i)

\* A row that has left the table had ended: pruning never drops pending work.
NoJobLost ==
    \A i \in DOMAIN inserted \ DOMAIN rows : \E p \in DOMAIN ended : ended[p] = i

\* close() waits for the queue: after a clean shutdown of every service nothing
\* is left queued or running, except what a store error had stranded.
DrainedShutdown ==
    (\A s \in Services : phase[s] = "closed") => Pending \subseteq orphans

\* Accepted work only waits for a worker or for a restart that must come:
\* both of the above, whether the services are up or were all shut down.
NothingStranded == NoJobStranded /\ DrainedShutdown

(* Action properties.                                                      *)

\* An ended row keeps its status until it is pruned: a late worker, or a
\* second process, never overwrites a published result.
TerminalFinal ==
    [][\A i \in Having(Terminal) : i \in DOMAIN rows' => rows'[i] = rows[i]]_vars

(* Liveness.                                                               *)

\* Every job ever inserted ends, across crashes, restarts and shutdowns, when
\* the database does not fail.
EveryJobEnds ==
    \A i \in Ids : (i \in DOMAIN inserted) ~> (\E p \in DOMAIN ended : ended[p] = i)

-----------------------------------------------------------------------------
(* Refinement.                                                             *)

Ledger == INSTANCE JobLedger WITH
    accepted <- inserted,
    job <- [i \in Ids |-> CASE i \in DOMAIN rows -> rows[i]
                             [] i \in DOMAIN inserted \ DOMAIN rows -> "forgotten"
                             [] OTHER -> "unknown"]

\* The whole service, with its races, crashes and restarts, does to its callers'
\* jobs only what the ledger allows.
ImplementsLedger == Ledger!Spec

=============================================================================
