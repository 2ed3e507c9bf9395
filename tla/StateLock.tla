-------------------------------- MODULE StateLock --------------------------------
(***************************************************************************)
(* The lock file of operations/guard.py (_state_lock) that protects the    *)
(* run-rate file and the cost ledger: created with O_CREAT | O_EXCL,       *)
(* polled until a deadline, broken by a waiter that finds it old, removed  *)
(* by whoever leaves the critical section.                                 *)
(*                                                                         *)
(* Every file-system call is one action.  Time is relative: the age of the *)
(* file and the time each process has waited, both saturating, so that a   *)
(* behaviour may tick for ever in finitely many states.                    *)
(***************************************************************************)
EXTENDS Naturals, FiniteSets

CONSTANTS
    Procs,       \* processes that share the state directory
    Timeout,     \* timeout_seconds: a waiter gives up from then on
    StaleAfter,  \* max(30, 4 * timeout_seconds): an older file may be broken
    MaxCrashes   \* bound: crashes in a behaviour

ASSUME LockAssumption ==
    /\ Timeout \in Nat /\ StaleAfter \in Nat
    /\ Timeout < StaleAfter
    /\ MaxCrashes \in Nat

NoFile == "no file"
ASSUME NoFileAssumption == NoFile \notin Procs

VARIABLES
    file,     \* the lock file: NoFile, or the process that created it
    age,      \* seconds since the file was created
    pc,       \* where each process is in _state_lock
    waited,   \* seconds since each process computed its deadline
    robbed,   \* history: holders whose own file somebody else unlinked
    overran,  \* history: some holder's file has become stale while it held it
    crashes   \* crashes so far

vars == <<file, age, pc, waited, robbed, overran, crashes>>

\* open -> (exists) stat -> unlink_stale or poll -> open; open -> critical -> unlink
Pcs    == {"idle", "open", "stat", "unlink_stale", "poll", "critical", "unlink"}
InLoop == {"open", "stat", "unlink_stale", "poll"}
Holders == {p \in Procs : pc[p] = "critical"}

TypeOK ==
    /\ file \in Procs \cup {NoFile}
    /\ age \in 0 .. StaleAfter + 1
    /\ pc \in [Procs -> Pcs]
    /\ waited \in [Procs -> 0 .. Timeout]
    /\ robbed \subseteq Procs
    /\ overran \in BOOLEAN
    /\ crashes \in 0 .. MaxCrashes

Init ==
    /\ file = NoFile
    /\ age = 0
    /\ pc = [p \in Procs |-> "idle"]
    /\ waited = [p \in Procs |-> 0]
    /\ robbed = {}
    /\ overran = FALSE
    /\ crashes = 0

-----------------------------------------------------------------------------

Goto(p, l) == pc' = [pc EXCEPT ![p] = l]
At(p, l)   == pc[p] = l

\* unlink(missing_ok=True) by p removes whatever file is there now.
Unlink(p) ==
    /\ file' = NoFile
    /\ age' = 0
    /\ robbed' = IF file \in Holders \ {p} THEN robbed \cup {file} ELSE robbed

StaleSoon(a) == a > Timeout  \* mutant: the threshold is the waiter's timeout
NeverStale(a) == FALSE  \* mutant: nobody breaks a lock
Stale(a) == a > StaleAfter

Enter(p) ==
    /\ At(p, "idle")
    /\ Goto(p, "open")
    /\ waited' = [waited EXCEPT ![p] = 0]
    /\ UNCHANGED <<file, age, robbed, overran, crashes>>

CreateOver(p) ==  \* mutant: O_EXCL is missing
    /\ At(p, "open")
    /\ file' = p
    /\ age' = 0
    /\ Goto(p, "critical")
    /\ robbed' = robbed \ {p}
    /\ UNCHANGED <<waited, overran, crashes>>

\* os.open(O_CREAT | O_EXCL) succeeds.
Create(p) ==
    /\ At(p, "open")
    /\ file = NoFile
    /\ file' = p
    /\ age' = 0
    /\ Goto(p, "critical")
    /\ robbed' = robbed \ {p}
    /\ UNCHANGED <<waited, overran, crashes>>

\* ... or raises FileExistsError.
Exists(p) ==
    /\ At(p, "open")
    /\ file # NoFile
    /\ Goto(p, "stat")
    /\ UNCHANGED <<file, age, waited, robbed, overran, crashes>>

\* stat(): gone, so try again at once; old, so unlink; otherwise see the deadline.
Stat(p) ==
    /\ At(p, "stat")
    /\ \/ file = NoFile /\ Goto(p, "open")
       \/ file # NoFile /\ Stale(age) /\ Goto(p, "unlink_stale")
       \/ file # NoFile /\ ~ Stale(age) /\ Goto(p, "poll")
    /\ UNCHANGED <<file, age, waited, robbed, overran, crashes>>

BreakStale(p) ==
    /\ At(p, "unlink_stale")
    /\ Unlink(p)
    /\ Goto(p, "open")
    /\ UNCHANGED <<waited, overran, crashes>>

\* Past the deadline TimeoutError; before it sleep and try again.
Poll(p) ==
    /\ At(p, "poll")
    /\ IF waited[p] >= Timeout THEN Goto(p, "idle") ELSE Goto(p, "open")
    /\ UNCHANGED <<file, age, waited, robbed, overran, crashes>>

\* The body of the with statement ends.
Leave(p) ==
    /\ At(p, "critical")
    /\ Goto(p, "unlink")
    /\ UNCHANGED <<file, age, waited, robbed, overran, crashes>>

Release(p) ==
    /\ At(p, "unlink")
    /\ Unlink(p)
    /\ Goto(p, "idle")
    /\ UNCHANGED <<waited, overran, crashes>>

\* The process dies and is started again; its file stays.
Crash(p) ==
    /\ crashes < MaxCrashes
    /\ pc[p] # "idle"
    /\ Goto(p, "idle")
    /\ crashes' = crashes + 1
    /\ UNCHANGED <<file, age, waited, robbed, overran>>

\* A second passes.
Overdue == \E p \in Procs : pc[p] \in {"critical", "unlink"} /\ file = p /\ age >= StaleAfter
Tick ==
    /\ overran' = (overran \/ Overdue)
    /\ age' = IF file = NoFile \/ age > StaleAfter THEN age ELSE age + 1
    /\ waited' = [p \in Procs |->
                    IF pc[p] \in InLoop /\ waited[p] < Timeout THEN waited[p] + 1 ELSE waited[p]]
    /\ UNCHANGED <<file, pc, robbed, crashes>>

Step(p) ==
    \/ Create(p)
    \/ Exists(p)
    \/ Stat(p)
    \/ BreakStale(p)
    \/ Poll(p)
    \/ Leave(p)
    \/ Release(p)

Next ==
    \/ \E p \in Procs : Enter(p) \/ Step(p) \/ Crash(p)
    \/ Tick

Spec == Init /\ [][Next]_vars

\* Processes keep running and keep coming back, and time passes.
FairSpec == Spec /\ WF_vars(Tick) /\ \A p \in Procs : WF_vars(Step(p)) /\ WF_vars(Enter(p))

-----------------------------------------------------------------------------
(* Properties.                                                             *)

\* One process at a time reads and rewrites the state file, as long as every
\* holder left before its file was stale and nobody has crashed.
MutexUntilCrash == crashes = 0 /\ ~ overran => Cardinality(Holders) <= 1

\* Whatever crashes and however slow holders are, O_EXCL gives the lock to one
\* process whose file has not been unlinked under it.
OneRightfulHolder == Cardinality(Holders \ robbed) <= 1

\* With prompt holders the lock excludes ("Rate and cost ledgers use inter-process
\* lock files", docs/ARVEN_PRODUCTION.md).  The code does not deliver it after a
\* crash: two waiters may both find the dead process's file old, and the slower
\* one then unlinks the file the faster one has just created.
Mutex == ~ overran => Cardinality(Holders) <= 1

\* A file that no live process holds does not lock the ledgers for ever.
AbandonedFileGoes ==
    (file # NoFile /\ file \notin Holders) ~> (file = NoFile \/ file \in Holders)

=============================================================================
