----------------------------- MODULE OperationalGuard -----------------------------
(***************************************************************************)
(* The pre-run gate of operations/guard.py: the sliding-window run limiter *)
(* and the daily cost ledger, two files shared by every process that runs  *)
(* analyses, and before_run, which reserves a slot in the first and an     *)
(* amount in the second, and gives the slot back when the second refuses.  *)
(*                                                                         *)
(* The read and the write of a file happen under its lock; here they are   *)
(* one action (StateLock says when the lock delivers that).  What is not   *)
(* under the lock is kept apart: acquire reads the clock, and reserve the  *)
(* date, before they wait for it.                                          *)
(***************************************************************************)
EXTENDS Integers, FiniteSets

CONSTANTS
    Procs,      \* processes, each one ProductionRuntime that runs serially
    Limited,    \* processes whose environment enables the run limiter
    Budgeted,   \* processes whose environment enables the cost ledger
    MaxRuns,    \* max_runs_per_minute
    Window,     \* window_seconds
    Limit,      \* daily_cost_limit_usd
    Amounts,    \* estimates of a run: the policy's floor or a caller's higher one
    DayLength,  \* seconds in a day
    MaxWait,    \* longest wait between reading the clock and having the lock
    MaxTime,    \* bound: last instant of a behaviour
    MaxAdmits,  \* bound: slots handed out in a behaviour
    MaxFaults   \* bound: lock timeouts and crashes in a behaviour

ASSUME GuardAssumption ==
    /\ Limited \subseteq Procs
    /\ Budgeted \subseteq Procs
    /\ MaxRuns \in Nat \ {0}
    /\ Window \in Nat \ {0}
    /\ Limit \in Nat \ {0}
    /\ Amounts \subseteq Nat
    /\ DayLength \in Nat \ {0}
    /\ MaxWait \in Nat

ASSUME GuardBounds ==
    /\ MaxTime \in Nat
    /\ MaxAdmits \in Nat
    /\ MaxFaults \in Nat

VARIABLES
    now,     \* the wall clock
    stamps,  \* run_rate.json: the recorded slots
    ledger,  \* daily_cost.json: a day and what is spent on it
    proc,    \* each process in before_run: step, slot, estimate, clock reading
    starts,  \* history: the slots of the runs let through within the last Window
    spent,   \* history: all that was reserved for each day
    late,    \* history: an amount was booked on a day already over
    admits,  \* slots handed out so far
    faults   \* lock timeouts and crashes so far

vars == <<now, stamps, ledger, proc, starts, spent, late, admits, faults>>

Times  == 0 .. MaxTime
Day(t) == t \div DayLength
Days   == {Day(t) : t \in Times}

\* The file holds only ts.  n tells equal timestamps apart and at is the instant
\* the slot was granted; neither is read by the code modelled here.
Slot   == [n : 1 .. MaxAdmits, ts : Times, at : Times]
\* "rate", "cost" and "rollback" wait for a lock; "run" is the graph run.
Pcs    == {"idle", "rate", "cost", "rollback", "run"}
\* seen: the clock as acquire or reserve read it; slot: the reservation's n, or 0
State  == [pc : Pcs, seen : Times, slot : 0 .. MaxAdmits, amount : Amounts \cup {0}]
Rest   == [pc |-> "idle", seen |-> 0, slot |-> 0, amount |-> 0]

TypeOK ==
    /\ now \in Times
    /\ stamps \in SUBSET Slot
    /\ ledger \in [day : Days, spent : Nat]
    /\ proc \in [Procs -> State]
    /\ starts \in SUBSET Slot
    /\ spent \in [Days -> Nat]
    /\ late \in BOOLEAN
    /\ admits \in 0 .. MaxAdmits
    /\ faults \in 0 .. MaxFaults

Init ==
    /\ now = 0
    /\ stamps = {}
    /\ ledger = [day |-> Day(0), spent |-> 0]
    /\ proc = [p \in Procs |-> Rest]
    /\ starts = {}
    /\ spent = [d \in Days |-> 0]
    /\ late = FALSE
    /\ admits = 0
    /\ faults = 0

-----------------------------------------------------------------------------

At(p, pc) == proc[p].pc = pc
Stop(p)   == proc' = [proc EXCEPT ![p] = Rest]
Mine(p)   == {e \in stamps : e.n = proc[p].slot}
\* The run of p does not happen.
Unstart(p) == starts' = {e \in starts : e.n # proc[p].slot}

\* before_run: an estimate of zero under a budget is an OperationalPolicyError;
\* without a budget nobody reads the estimate.
Estimates(p) == IF p \in Budgeted THEN Amounts \ {0} ELSE {0}

Begin(p) ==
    /\ At(p, "idle")
    /\ \E a \in Estimates(p) :
          proc' = [proc EXCEPT ![p] =
                      [pc |-> "rate", seen |-> now, slot |-> 0, amount |-> a]]
    /\ UNCHANGED <<now, stamps, ledger, starts, spent, late, admits, faults>>

\* The timestamps after cutoff = timestamp - window_seconds.
KeptWide(t) == {e \in stamps : e.ts + Window > t + 1}  \* mutant: cutoff too late
Kept(t)     == {e \in stamps : e.ts + Window > t}

CostNext(p) == [proc[p] EXCEPT !.pc = "cost", !.seen = now]

\* RunRateLimiter.acquire under its lock.
Acquire(p) ==
    /\ At(p, "rate")
    /\ p \in Limited
    /\ Cardinality(Kept(proc[p].seen)) < MaxRuns
    /\ admits < MaxAdmits
    /\ LET e == [n |-> admits + 1, ts |-> proc[p].seen, at |-> now]
       IN  /\ stamps' = Kept(proc[p].seen) \cup {e}
           /\ starts' = starts \cup {e}
    /\ admits' = admits + 1
    /\ proc' = [proc EXCEPT ![p] = [CostNext(p) EXCEPT !.slot = admits + 1]]
    /\ UNCHANGED <<now, ledger, spent, late, faults>>

\* RateLimitExceeded: the file is not written.
RateRefuses(p) ==
    /\ At(p, "rate")
    /\ p \in Limited
    /\ Cardinality(Kept(proc[p].seen)) >= MaxRuns
    /\ Stop(p)
    /\ UNCHANGED <<now, stamps, ledger, starts, spent, late, admits, faults>>

RateDisabled(p) ==
    /\ At(p, "rate")
    /\ p \notin Limited
    /\ proc' = [proc EXCEPT ![p] = CostNext(p)]
    /\ UNCHANGED <<now, stamps, ledger, starts, spent, late, admits, faults>>

\* What the ledger says is spent on day d: another day's file counts as nothing.
SpentOn(d) == IF ledger.day = d THEN ledger.spent ELSE 0
\* projected <= daily_limit_usd
FitsBefore(p) == SpentOn(Day(proc[p].seen)) < Limit  \* mutant: spent, not projected
Fits(p) == SpentOn(Day(proc[p].seen)) + proc[p].amount <= Limit

\* DailyCostLedger.reserve under its lock, for the day it saw before.
Reserve(p) ==
    /\ At(p, "cost")
    /\ p \in Budgeted
    /\ Fits(p)
    /\ LET d == Day(proc[p].seen)
       IN  /\ ledger' = [day |-> d, spent |-> SpentOn(d) + proc[p].amount]
           /\ spent' = [spent EXCEPT ![d] = @ + proc[p].amount]
           /\ late' = (late \/ d # Day(now))
    /\ proc' = [proc EXCEPT ![p].pc = "run"]
    /\ UNCHANGED <<now, stamps, starts, admits, faults>>

CostRefusesOnly(p) ==  \* mutant: no rollback of the slot
    /\ At(p, "cost")
    /\ p \in Budgeted
    /\ ~ Fits(p)
    /\ Stop(p)
    /\ Unstart(p)
    /\ UNCHANGED <<now, stamps, ledger, spent, late, admits, faults>>

\* CostBudgetExceeded: on to the rollback.
CostRefuses(p) ==
    /\ At(p, "cost")
    /\ p \in Budgeted
    /\ ~ Fits(p)
    /\ proc' = [proc EXCEPT ![p].pc = "rollback"]
    /\ Unstart(p)
    /\ UNCHANGED <<now, stamps, ledger, spent, late, admits, faults>>

CostDisabled(p) ==
    /\ At(p, "cost")
    /\ p \notin Budgeted
    /\ proc' = [proc EXCEPT ![p].pc = "run"]
    /\ UNCHANGED <<now, stamps, ledger, starts, spent, late, admits, faults>>

\* RunRateLimiter.release: one entry with the reservation's timestamp goes, if
\* there is one left.  Equal timestamps are alike, so let it be the caller's own.
Release(p) ==
    /\ At(p, "rollback")
    /\ stamps' = stamps \ Mine(p)
    /\ Stop(p)
    /\ UNCHANGED <<now, ledger, starts, spent, late, admits, faults>>

\* The graph run returns or raises; neither reservation is given back.
EndRun(p) ==
    /\ At(p, "run")
    /\ Stop(p)
    /\ UNCHANGED <<now, stamps, ledger, starts, spent, late, admits, faults>>

\* _state_lock raises TimeoutError: out of acquire to the caller, out of reserve
\* into the rollback, out of the rollback to the caller with the slot still taken.
LockTimeout(p) ==
    /\ faults < MaxFaults
    /\ faults' = faults + 1
    /\ \/ At(p, "rate") /\ p \in Limited /\ Stop(p) /\ UNCHANGED starts
       \/ At(p, "cost") /\ p \in Budgeted /\ Unstart(p)
          /\ proc' = [proc EXCEPT ![p].pc = "rollback"]
       \/ At(p, "rollback") /\ Stop(p) /\ UNCHANGED starts
    /\ UNCHANGED <<now, stamps, ledger, spent, late, admits>>

\* The process dies between two of its steps: what it reserved stays reserved.
Crash(p) ==
    /\ faults < MaxFaults
    /\ faults' = faults + 1
    /\ ~ At(p, "idle")
    /\ IF At(p, "run") THEN UNCHANGED starts ELSE Unstart(p)
    /\ Stop(p)
    /\ UNCHANGED <<now, stamps, ledger, spent, late, admits>>

\* A second passes, unless somebody has waited for a lock as long as it may.
Tick ==
    /\ now < MaxTime
    /\ \A p \in Procs : proc[p].pc \in {"rate", "cost"} => now < proc[p].seen + MaxWait
    /\ now' = now + 1
    /\ starts' = {e \in starts : e.at + Window > now + 1}
    /\ UNCHANGED <<stamps, ledger, proc, spent, late, admits, faults>>

Next ==
    \/ Tick
    \/ \E p \in Procs :
          \/ Begin(p)
          \/ Acquire(p)
          \/ RateRefuses(p)
          \/ RateDisabled(p)
          \/ Reserve(p)
          \/ CostRefuses(p)
          \/ CostDisabled(p)
          \/ Release(p)
          \/ EndRun(p)
          \/ LockTimeout(p)
          \/ Crash(p)

Spec == Init /\ [][Next]_vars

-----------------------------------------------------------------------------
(* Properties.                                                             *)

\* Measured over the window shortened by the longest lock wait, the limiter lets
\* through no more than MaxRuns runs: a timestamp is at most MaxWait older than
\* the instant its slot was granted, and pruning goes by timestamps.
RateHoldsUpToWait == Cardinality({e \in starts : e.at + Window > now + MaxWait}) <= MaxRuns

\* Every slot in the file that still counts belongs to a run let through or to a
\* process about to give it back: refused runs cost nobody their slot, as long as
\* no lock wait times out and nobody dies (before_run's rollback).
RefusalsLeaveNoSlot ==
    faults = 0 =>
        \A e \in stamps : e.at + Window > now =>
            \/ e \in starts
            \/ \E p \in Procs : At(p, "rollback") /\ proc[p].slot = e.n

\* What is reserved for a day never exceeds the limit, as long as no date was
\* computed before midnight and booked after it.
BudgetHoldsUntilLate == ~ late => \A d \in Days : spent[d] <= Limit

\* "fail-closed daily cost budget" (docs/ARVEN_PRODUCTION.md): the same, always.
BudgetHolds == \A d \in Days : spent[d] <= Limit

=============================================================================
