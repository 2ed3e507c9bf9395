------------------------------- MODULE JobLedger -------------------------------
(***************************************************************************)
(* What the analysis job service promises its callers, without processes,  *)
(* threads, queues or crashes: a ledger of accepted requests in which every*)
(* job moves queued -> running -> succeeded or failed, may fall back from  *)
(* running to queued, and is forgotten only when it has ended and newer    *)
(* ended jobs fill the ledger.                                             *)
(***************************************************************************)
EXTENDS Naturals, Sequences, FiniteSets

CONSTANTS Keys, NoKey, Requests, MaxPending, MaxTerminal, MaxJobs

VARIABLES
    accepted,  \* the requests accepted so far, in order; a job is its position
    job        \* what has become of each job

vars == <<accepted, job>>

Ids      == 1 .. MaxJobs
Terminal == {"succeeded", "failed"}
With(S)  == {i \in Ids : job[i] \in S}
Known    == With({"queued", "running"} \cup Terminal)

Init ==
    /\ accepted = <<>>
    /\ job = [i \in Ids |-> "unknown"]

\* A request is accepted when fewer than MaxPending jobs are pending and its key
\* names no job that is still known.
Accept(k, r) ==
    /\ Len(accepted) < MaxJobs
    /\ Cardinality(With({"queued", "running"})) < MaxPending
    /\ k # NoKey => \A i \in Known : accepted[i].key # k
    /\ accepted' = Append(accepted, [key |-> k, req |-> r])
    /\ job' = [job EXCEPT ![Len(accepted) + 1] = "queued"]

Start(i) ==
    /\ job[i] = "queued"
    /\ job' = [job EXCEPT ![i] = "running"]
    /\ UNCHANGED accepted

\* Interrupted work goes back to the queue, all of it at once.
Requeue ==
    /\ job' = [i \in Ids |-> IF job[i] = "running" THEN "queued" ELSE job[i]]
    /\ UNCHANGED accepted

End(i) ==
    /\ job[i] = "running"
    /\ \E st \in Terminal : job' = [job EXCEPT ![i] = st]
    /\ UNCHANGED accepted

\* Ended jobs are forgotten as long as MaxTerminal of them are left.
Forget(S) ==
    /\ S \subseteq With(Terminal)
    /\ Cardinality(With(Terminal) \ S) >= MaxTerminal
    /\ job' = [i \in Ids |-> IF i \in S THEN "forgotten" ELSE job[i]]
    /\ UNCHANGED accepted

Next ==
    \/ \E k \in Keys \cup {NoKey}, r \in Requests : Accept(k, r)
    \/ \E i \in Ids : Start(i) \/ End(i)
    \/ Requeue
    \/ \E S \in SUBSET With(Terminal) : Forget(S)

Spec == Init /\ [][Next]_vars

=============================================================================
