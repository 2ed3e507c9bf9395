-------------------------- MODULE AnalysisJobs_proofs --------------------------
(***************************************************************************)
(* Theorems about AnalysisJobs, for every number of services, threads,     *)
(* jobs, crashes and store errors, and for all limits.                     *)
(***************************************************************************)
EXTENDS AnalysisJobs, Subsequences_proofs

\* What TypeOK needs to be inductive: a handler holds a row that was inserted,
\* and a thread that is not idle works for a job.
HandedOK == \A s \in Services : handed[s] \subseteq DOMAIN inserted
WorkerOK == \A s \in Services, t \in Threads :
                worker[s][t].pc # "idle" => worker[s][t].job \in Ids
IType == TypeOK /\ HandedOK /\ WorkerOK

-----------------------------------------------------------------------------
(* Facts about the operators.                                              *)

LEMMA InsertedDomain ==
    ASSUME TypeOK
    PROVE  /\ Len(inserted) \in Nat
           /\ DOMAIN inserted = 1 .. Len(inserted)
           /\ DOMAIN inserted \subseteq Ids
           /\ DOMAIN rows \subseteq Ids
BY BoundsAssumption DEF TypeOK, Ids

LEMMA HavingFinite ==
    ASSUME TypeOK, NEW S
    PROVE  /\ Having(S) \subseteq Ids
           /\ IsFiniteSet(Having(S))
           /\ Cardinality(Having(S)) \in Nat
<1>1. Having(S) \subseteq 1 .. MaxJobs
  BY InsertedDomain DEF Having, Ids
<1>2. IsFiniteSet(1 .. MaxJobs)
  BY FS_Interval, BoundsAssumption
<1> QED
  BY <1>1, <1>2, FS_Subset, FS_CardinalityType DEF Ids

WorkerType == [pc : Pcs, job : Ids \cup {NoJob}]

\* A thread that moves on keeps the type of the whole worker array.
LEMMA WorkerSet ==
    ASSUME IType, NEW s \in Services, NEW t \in Threads, NEW w \in WorkerType,
           w.pc # "idle" => w.job \in Ids,
           worker' = [worker EXCEPT ![s][t] = w]
    PROVE  /\ worker' \in [Services -> [Threads -> WorkerType]]
           /\ WorkerOK'
<1>1. worker \in [Services -> [Threads -> WorkerType]]
  BY DEF IType, TypeOK, WorkerType
<1>2. worker' \in [Services -> [Threads -> WorkerType]]
  BY <1>1
<1>3. \A x \in Services, y \in Threads :
         worker'[x][y] = IF x = s /\ y = t THEN w ELSE worker[x][y]
  BY <1>1
<1>4. WorkerOK'
  BY <1>3 DEF IType, WorkerOK
<1> QED
  BY <1>2, <1>4

LEMMA WorkerMoves ==
    ASSUME IType, NEW s \in Services, NEW t \in Threads, NEW pc \in Pcs,
           \/ Goto(s, t, pc) /\ worker[s][t].pc # "idle"
           \/ Rest(s, t)
    PROVE  /\ worker' \in [Services -> [Threads -> WorkerType]]
           /\ WorkerOK'
<1>1. worker[s][t] \in WorkerType
  BY DEF IType, TypeOK, WorkerType
<1>2. CASE Goto(s, t, pc) /\ worker[s][t].pc # "idle"
  <2> DEFINE w == [worker[s][t] EXCEPT !.pc = pc]
  <2>1. w \in WorkerType /\ w.job = worker[s][t].job
    BY <1>1 DEF WorkerType
  <2>2. w.job \in Ids
    BY <2>1, <1>2 DEF IType, WorkerOK
  <2>3. worker' = [worker EXCEPT ![s][t] = w]
    BY <1>2 DEF Goto
  <2> QED
    BY <2>1, <2>2, <2>3, WorkerSet
<1>3. CASE Rest(s, t)
  <2>1. Idle \in WorkerType /\ Idle.pc = "idle"
    BY DEF Idle, WorkerType, Pcs
  <2> QED
    BY <1>3, <2>1, WorkerSet DEF Rest
<1> QED
  BY <1>2, <1>3

\* Resetting the memory of a stopped service keeps the types.
LEMMA MemoryReset ==
    ASSUME IType, NEW s \in Services,
           worker' = [worker EXCEPT ![s] = [t \in Threads |-> Idle]],
           queue' = [queue EXCEPT ![s] = <<>>]
    PROVE  /\ worker' \in [Services -> [Threads -> [pc : Pcs, job : Ids \cup {NoJob}]]]
           /\ WorkerOK'
           /\ queue' \in [Services -> Seq(Ids)]
BY DEF IType, TypeOK, WorkerOK, Idle, Pcs

\* An UPDATE of rows that are in the table keeps its shape.
LEMMA UpdateType ==
    ASSUME TypeOK, NEW S, NEW st \in Statuses, SetStatus(S, st)
    PROVE  /\ DOMAIN rows' = DOMAIN rows
           /\ rows' \in [DOMAIN rows' -> Statuses]
BY DEF TypeOK, SetStatus

LEMMA PruneType ==
    ASSUME TypeOK, PruneTerminal
    PROVE  /\ DOMAIN rows' = DOMAIN rows \ Surplus
           /\ \A i \in DOMAIN rows' : rows'[i] = rows[i]
           /\ rows' \in [DOMAIN rows' -> Statuses]
BY DEF TypeOK, PruneTerminal

-----------------------------------------------------------------------------
LEMMA InitType == Init => IType
BY BoundsAssumption DEF Init, IType, TypeOK, HandedOK, WorkerOK, Idle, Silence,
       Ids, Phases, Pcs

LEMMA TypeStep ==
    ASSUME IType, [Next]_vars
    PROVE  IType'
<1> USE DEF IType
<1>0. /\ Ids \subseteq Nat
      /\ NoJob \notin Ids
      /\ DOMAIN inserted = 1 .. Len(inserted)
      /\ Len(inserted) \in Nat
      /\ DOMAIN rows \subseteq DOMAIN inserted
      /\ DOMAIN inserted \subseteq Ids
  BY InsertedDomain, BoundsAssumption DEF Ids, NoJob, TypeOK
<1>1. CASE UNCHANGED vars
  BY <1>1 DEF vars, table, history, TypeOK, HandedOK, WorkerOK
<1>2. ASSUME NEW s \in Services, Submit(s)
      PROVE  IType'
  <2> PICK k \in Keys \cup {NoKey}, r \in Requests :
           \/ SubmitReplay(s, k, r) \/ SubmitConflict(s, k, r)
           \/ SubmitFull(s, k, r) \/ SubmitNew(s, k, r)
    BY <1>2 DEF Submit
  <2>1. CASE SubmitReplay(s, k, r)
    BY <1>0, <2>1 DEF SubmitReplay, Answer, Holders, table, history, TypeOK, HandedOK, WorkerOK
  <2>2. CASE SubmitConflict(s, k, r)
    BY <1>0, <2>2 DEF SubmitConflict, Answer, table, history, TypeOK, HandedOK, WorkerOK
  <2>3. CASE SubmitFull(s, k, r)
    BY <1>0, <2>3 DEF SubmitFull, Answer, table, history, TypeOK, HandedOK, WorkerOK
  <2>4. CASE SubmitNew(s, k, r)
    <3> DEFINE i == Len(inserted) + 1
               e == [key |-> k, req |-> r]
               R == [key : Keys \cup {NoKey}, req : Requests]
    <3>1. /\ inserted' = Append(inserted, e)
          /\ rows' = [j \in DOMAIN rows \cup {i} |-> IF j = i THEN "queued" ELSE rows[j]]
          /\ handed' = [handed EXCEPT ![s] = @ \cup {i}]
          /\ Len(inserted) < MaxJobs
      BY <2>4 DEF SubmitNew
    <3>2. /\ inserted' \in Seq(R)
          /\ Len(inserted') = i
          /\ DOMAIN inserted' = 1 .. i
      <4>1. inserted \in Seq(R) /\ e \in R
        BY DEF TypeOK
      <4> QED
        BY <3>1, <4>1, AppendProperties, LenProperties
    <3>3. i \in Ids /\ i <= MaxJobs
      BY <1>0, <3>1, BoundsAssumption DEF Ids
    <3>4. /\ DOMAIN rows' \subseteq DOMAIN inserted'
          /\ rows' \in [DOMAIN rows' -> Statuses]
      BY <1>0, <3>1, <3>2 DEF TypeOK, Statuses
    <3>5. /\ handed' \in [Services -> SUBSET Ids]
          /\ HandedOK'
      BY <1>0, <3>1, <3>2, <3>3 DEF TypeOK, HandedOK
    <3>6. UNCHANGED <<ended, phase, backlog, queue, worker, history>> /\ reply' = Silence
      BY <2>4 DEF SubmitNew
    <3> QED
      BY <3>2, <3>3, <3>4, <3>5, <3>6 DEF TypeOK, WorkerOK, Silence, history
  <2> QED
    BY <2>1, <2>2, <2>3, <2>4
<1>3. ASSUME NEW s \in Services, NEW i \in Ids, Schedule(s, i)
      PROVE  IType'
  <2>1. i \in DOMAIN inserted
    BY <1>3 DEF Schedule, HandedOK
  <2>2. inserted[i] \in [key : Keys \cup {NoKey}, req : Requests]
    BY <2>1, <1>0, ElementOfSeq DEF TypeOK
  <2>3. reply' \in [code : {"none", "202", "409", "429"}, key : Keys \cup {NoKey},
                    req : Requests \cup {NoKey}, job : Ids \cup {NoJob}]
    BY <1>3, <2>2 DEF Schedule, Answer
  <2>4. queue' \in [Services -> Seq(Ids)]
    BY <1>3, AppendProperties DEF Schedule, TypeOK
  <2>5. handed' \in [Services -> SUBSET Ids] /\ HandedOK'
    BY <1>3 DEF Schedule, TypeOK, HandedOK, table
  <2> QED
    BY <1>3, <2>3, <2>4, <2>5 DEF Schedule, table, history, TypeOK, WorkerOK
<1>4. ASSUME NEW s \in Services, NEW t \in Threads, WorkerStep(s, t)
      PROVE  IType'
  <2>1. CASE Claim(s, t)
    <3>1. queue[s] \in Seq(Ids) /\ queue[s] # <<>>
      BY <2>1 DEF Claim, TypeOK
    <3>2. Head(queue[s]) \in Ids /\ Tail(queue[s]) \in Seq(Ids)
      BY <3>1, HeadTailProperties
    <3>3. queue' \in [Services -> Seq(Ids)]
      BY <2>1, <3>2 DEF Claim, TypeOK
    <3>4. UNCHANGED <<inserted, ended, phase, handed, backlog, history>>
          /\ reply' = Silence
      BY <2>1 DEF Claim
    <3>5. CASE UNCHANGED <<rows, worker>>
      BY <3>3, <3>4, <3>5 DEF TypeOK, HandedOK, WorkerOK, Silence, history
    <3>6. CASE /\ SetStatus({Head(queue[s])}, "running")
               /\ worker' = [worker EXCEPT ![s][t] =
                               [pc |-> "claimed", job |-> Head(queue[s])]]
      <4> DEFINE w == [pc |-> "claimed", job |-> Head(queue[s])]
      <4>1. w \in WorkerType /\ w.job \in Ids
        BY <3>2 DEF WorkerType, Pcs
      <4>2. worker' \in [Services -> [Threads -> WorkerType]] /\ WorkerOK'
        BY <3>6, <4>1, WorkerSet
      <4>3. DOMAIN rows' = DOMAIN rows /\ rows' \in [DOMAIN rows' -> Statuses]
        BY <3>6, UpdateType DEF Statuses
      <4> QED
        BY <3>3, <3>4, <4>2, <4>3 DEF TypeOK, HandedOK, Silence, history, WorkerType
    <3> QED
      BY <2>1, <3>5, <3>6 DEF Claim
  <2>2. CASE Load(s, t)
    <3>1. worker' \in [Services -> [Threads -> WorkerType]] /\ WorkerOK'
      BY <2>2, WorkerMoves DEF Load, At, Pcs
    <3> QED
      BY <2>2, <3>1 DEF Load, TypeOK, HandedOK, Silence, table, history, WorkerType
  <2>3. CASE BeginRun(s, t)
    <3>1. worker' \in [Services -> [Threads -> WorkerType]] /\ WorkerOK'
      BY <2>3, WorkerMoves DEF BeginRun, At, Pcs
    <3>2. runs' \in [Ids -> Nat]
      <4>1. worker[s][t].job \in Ids
        BY <2>3 DEF BeginRun, At, WorkerOK
      <4> QED
        BY <2>3, <4>1 DEF BeginRun, TypeOK
    <3>3. /\ UNCHANGED <<inserted, rows, ended, phase, handed, backlog, queue>>
          /\ UNCHANGED <<requeues, orphans, stops, faults>>
          /\ reply' = Silence
      BY <2>3 DEF BeginRun, table
    <3> QED
      BY <3>1, <3>2, <3>3 DEF TypeOK, HandedOK, Silence, WorkerType
  <2>4. CASE EndRun(s, t)
    <3>1. worker' \in [Services -> [Threads -> WorkerType]] /\ WorkerOK'
      BY <2>4, WorkerMoves DEF EndRun, At, Pcs
    <3> QED
      BY <2>4, <3>1 DEF EndRun, TypeOK, HandedOK, Silence, table, history, WorkerType
  <2>5. CASE Finish(s, t)
    <3> DEFINE i == worker[s][t].job
    <3>1. worker' \in [Services -> [Threads -> WorkerType]] /\ WorkerOK'
      BY <2>5, WorkerMoves DEF Finish, Pcs
    <3>2. /\ DOMAIN rows' \subseteq DOMAIN inserted'
          /\ rows' \in [DOMAIN rows' -> Statuses]
          /\ ended' \in Seq(Ids)
      <4>1. i \in Ids
        BY <2>5 DEF Finish, WorkerOK
      <4>2. CASE UNCHANGED <<rows, ended>>
        BY <2>5, <4>2 DEF Finish, TypeOK
      <4>3. CASE /\ SetStatus({i}, Outcome(worker[s][t].pc))
                 /\ ended' = Append(ended, i)
        BY <2>5, <4>1, <4>3, UpdateType, AppendProperties
        DEF Finish, TypeOK, Outcome, Statuses, Terminal
      <4> QED
        BY <2>5, <4>2, <4>3 DEF Finish
    <3> QED
      BY <2>5, <3>1, <3>2 DEF Finish, TypeOK, HandedOK, Silence, history, WorkerType
  <2>6. CASE StoreRaises(s, t)
    <3>1. /\ faults' \in 0 .. MaxFaults
          /\ UNCHANGED <<table, phase, handed, backlog, runs, requeues, stops>>
          /\ reply' = Silence
      BY <2>6, BoundsAssumption DEF StoreRaises, TypeOK
    <3>2. /\ worker' \in [Services -> [Threads -> WorkerType]]
          /\ WorkerOK'
          /\ queue' \in [Services -> Seq(Ids)]
          /\ orphans' \subseteq Ids
      <4>1. CASE /\ queue[s] # <<>>
                 /\ queue' = [queue EXCEPT ![s] = Tail(@)]
                 /\ orphans' = orphans \cup {Head(queue[s])}
                 /\ UNCHANGED worker
        <5>1. Head(queue[s]) \in Ids /\ Tail(queue[s]) \in Seq(Ids)
          BY <4>1, HeadTailProperties DEF TypeOK
        <5> QED
          BY <4>1, <5>1 DEF TypeOK, WorkerOK, WorkerType
      <4>2. CASE /\ worker[s][t].pc # "idle"
                 /\ Rest(s, t) \/ Goto(s, t, "pruning")
                 /\ orphans' \subseteq orphans \cup {worker[s][t].job}
                 /\ UNCHANGED queue
        <5>1. worker' \in [Services -> [Threads -> WorkerType]] /\ WorkerOK'
          BY <4>2, WorkerMoves DEF Pcs
        <5> QED
          BY <4>2, <5>1 DEF TypeOK, WorkerOK
      <4> QED
        BY <2>6, <4>1, <4>2 DEF StoreRaises, At
    <3> QED
      BY <3>1, <3>2 DEF TypeOK, HandedOK, Silence, table, WorkerType
  <2>7. CASE Prune(s, t)
    <3>1. worker' \in [Services -> [Threads -> WorkerType]] /\ WorkerOK'
      BY <2>7, WorkerMoves DEF Prune, Pcs
    <3>2. /\ DOMAIN rows' \subseteq DOMAIN inserted'
          /\ rows' \in [DOMAIN rows' -> Statuses]
      BY <2>7, PruneType DEF Prune, TypeOK
    <3> QED
      BY <2>7, <3>1, <3>2 DEF Prune, TypeOK, HandedOK, Silence, history, WorkerType
  <2> QED
    BY <1>4, <2>1, <2>2, <2>3, <2>4, <2>5, <2>6, <2>7 DEF WorkerStep
<1>5. ASSUME NEW s \in Services, Boot(s)
      PROVE  IType'
  <2>1. CASE BootPrune(s)
    <3>1. /\ DOMAIN rows' \subseteq DOMAIN inserted'
          /\ rows' \in [DOMAIN rows' -> Statuses]
      BY <2>1, PruneType DEF BootPrune, TypeOK
    <3> QED
      BY <2>1, <3>1 DEF BootPrune, TypeOK, HandedOK, WorkerOK, history, Silence, Phases
  <2>2. CASE BootRecover(s)
    <3>1. /\ DOMAIN rows' \subseteq DOMAIN inserted'
          /\ rows' \in [DOMAIN rows' -> Statuses]
      BY <2>2, UpdateType DEF BootRecover, TypeOK, Statuses
    <3>2. backlog' \in [Services -> SUBSET Ids]
      <4>1. Recovered \subseteq Ids
        BY <1>0, HavingFinite DEF Recovered, Interrupted
      <4> QED
        BY <2>2, <4>1 DEF BootRecover, TypeOK
    <3>3. requeues' \in [Ids -> Nat]
      BY <2>2 DEF BootRecover, TypeOK
    <3> QED
      BY <2>2, <3>1, <3>2, <3>3
      DEF BootRecover, TypeOK, HandedOK, WorkerOK, Silence, Phases
  <2>3. CASE BootSchedule(s)
    <3> PICK i \in backlog[s] :
             /\ queue' = [queue EXCEPT ![s] = Append(@, i)]
             /\ backlog' = [backlog EXCEPT ![s] = @ \ {i}]
      BY <2>3 DEF BootSchedule
    <3>1. i \in Ids
      BY DEF TypeOK
    <3>2. queue' \in [Services -> Seq(Ids)]
      BY <3>1, AppendProperties DEF TypeOK
    <3>3. backlog' \in [Services -> SUBSET Ids]
      BY DEF TypeOK
    <3>4. UNCHANGED <<table, phase, handed, worker, history>> /\ reply' = Silence
      BY <2>3 DEF BootSchedule
    <3> QED
      BY <3>2, <3>3, <3>4 DEF table, history, TypeOK, HandedOK, WorkerOK, Silence
  <2>4. CASE BootReady(s)
    BY <1>0, <2>4 DEF BootReady, table, history, TypeOK, HandedOK, WorkerOK, Silence, Phases
  <2> QED
    BY <1>5, <2>1, <2>2, <2>3, <2>4 DEF Boot
<1>6. ASSUME NEW s \in Services, BeginClose(s)
      PROVE  IType'
  BY <1>0, <1>6, BoundsAssumption
  DEF BeginClose, table, TypeOK, HandedOK, WorkerOK, Silence, Phases
<1>7. ASSUME NEW s \in Services, EndClose(s)
      PROVE  IType'
  <2>1. /\ worker' \in [Services -> [Threads -> [pc : Pcs, job : Ids \cup {NoJob}]]]
        /\ WorkerOK'
        /\ queue' \in [Services -> Seq(Ids)]
    BY <1>7, MemoryReset DEF EndClose
  <2> QED
    BY <1>7, <2>1 DEF EndClose, table, history, TypeOK, HandedOK, Silence, Phases
<1>8. ASSUME NEW s \in Services, Crash(s)
      PROVE  IType'
  <2>1. /\ worker' \in [Services -> [Threads -> [pc : Pcs, job : Ids \cup {NoJob}]]]
        /\ WorkerOK'
        /\ queue' \in [Services -> Seq(Ids)]
    BY <1>8, MemoryReset DEF Crash
  <2>2. /\ handed' \in [Services -> SUBSET Ids]
        /\ backlog' \in [Services -> SUBSET Ids]
        /\ HandedOK'
        /\ stops' \in 0 .. MaxStops
    BY <1>8, BoundsAssumption DEF Crash, TypeOK, HandedOK, table
  <2> QED
    BY <1>8, <2>1, <2>2 DEF Crash, table, TypeOK, Silence, Phases
<1> QED
  BY <1>1, <1>2, <1>3, <1>4, <1>5, <1>6, <1>7, <1>8 DEF Next

\* Every variable keeps its type in every behaviour of the service: in
\* particular threads and handlers only ever refer to inserted jobs.
THEOREM TypeCorrect == Spec => []TypeOK
<1>1. Init => IType
  BY InitType
<1>2. IType /\ [Next]_vars => IType'
  BY TypeStep
<1>3. IType => TypeOK
  BY DEF IType
<1> QED
  BY <1>1, <1>2, <1>3, PTL DEF Spec

LEMMA IsType == Spec => []IType
<1>1. Init => IType
  BY InitType
<1>2. IType /\ [Next]_vars => IType'
  BY TypeStep
<1> QED
  BY <1>1, <1>2, PTL DEF Spec

-----------------------------------------------------------------------------
(* What a step does to the table: nothing, or one of the store's five      *)
(* statements.  The safety theorems below only look at these.              *)

Inserts(k, r) ==
    /\ Unheld(k) /\ ~ Full /\ Len(inserted) < MaxJobs
    /\ inserted' = Append(inserted, [key |-> k, req |-> r])
    /\ rows' = [j \in DOMAIN rows \cup {Len(inserted) + 1} |->
                   IF j = Len(inserted) + 1 THEN "queued" ELSE rows[j]]
    /\ ended' = ended
Claims(i)    == Claimable(i) /\ SetStatus({i}, "running") /\ UNCHANGED <<inserted, ended>>
Ends(i, st)  == /\ Finishable(i) /\ SetStatus({i}, st)
                /\ inserted' = inserted /\ ended' = Append(ended, i)
TakesBack    == SetStatus(Interrupted, "queued") /\ UNCHANGED <<inserted, ended>>
Forgets      == PruneTerminal /\ UNCHANGED <<inserted, ended>>

TableStep ==
    \/ UNCHANGED table
    \/ \E k \in Keys \cup {NoKey}, r \in Requests : Inserts(k, r)
    \/ \E i \in Ids : Claims(i)
    \/ \E i \in Ids, st \in Terminal : Ends(i, st)
    \/ TakesBack
    \/ Forgets

LEMMA EveryTableStep ==
    ASSUME IType, [Next]_vars
    PROVE  TableStep
<1>1. CASE UNCHANGED vars
  BY <1>1 DEF vars, TableStep
<1>2. ASSUME NEW s \in Services, Submit(s)
      PROVE  TableStep
  BY <1>2 DEF Submit, SubmitReplay, SubmitConflict, SubmitFull, SubmitNew, Inserts, TableStep
<1>3. ASSUME NEW s \in Services, NEW t \in Threads, WorkerStep(s, t)
      PROVE  TableStep
  <2>1. CASE Load(s, t) \/ BeginRun(s, t) \/ EndRun(s, t) \/ StoreRaises(s, t)
    BY <2>1 DEF Load, BeginRun, EndRun, StoreRaises, TableStep
  <2>2. CASE Claim(s, t)
    <3>1. Head(queue[s]) \in Ids
      BY <2>2, HeadTailProperties DEF Claim, IType, TypeOK
    <3> QED
      BY <2>2, <3>1 DEF Claim, Claims, TableStep, table
  <2>3. CASE Finish(s, t)
    <3>1. worker[s][t].job \in Ids
      BY <2>3 DEF Finish, IType, WorkerOK
    <3>2. Outcome(worker[s][t].pc) \in Terminal
      BY DEF Outcome, Terminal
    <3> QED
      BY <2>3, <3>1, <3>2 DEF Finish, Ends, TableStep, table
  <2>4. CASE Prune(s, t)
    BY <2>4 DEF Prune, Forgets, TableStep
  <2> QED
    BY <1>3, <2>1, <2>2, <2>3, <2>4 DEF WorkerStep
<1>4. ASSUME NEW s \in Services, Boot(s)
      PROVE  TableStep
  BY <1>4 DEF Boot, BootPrune, BootRecover, BootSchedule, BootReady,
              Forgets, TakesBack, TableStep
<1>5. ASSUME NEW s \in Services,
             \/ \E i \in Ids : Schedule(s, i)
             \/ BeginClose(s) \/ EndClose(s) \/ Crash(s)
      PROVE  TableStep
  BY <1>5 DEF Schedule, BeginClose, EndClose, Crash, TableStep
<1> QED
  BY <1>1, <1>2, <1>3, <1>4, <1>5 DEF Next

-----------------------------------------------------------------------------
(* The pending bound.                                                      *)

\* Only an INSERT adds a pending row, and only when there is room.
LEMMA PendingStep ==
    ASSUME IType, [Next]_vars
    PROVE  \/ Pending' \subseteq Pending
           \/ \E i \in Ids : Pending' \subseteq Pending \cup {i} /\ ~ Full
<1>1. CASE UNCHANGED table
  BY <1>1 DEF table, Pending, Having
<1>2. ASSUME NEW k, NEW r, Inserts(k, r)
      PROVE  \E i \in Ids : Pending' \subseteq Pending \cup {i} /\ ~ Full
  <2>1. Len(inserted) + 1 \in Ids
    BY <1>2, InsertedDomain, BoundsAssumption DEF Inserts, Ids, IType
  <2>2. Pending' \subseteq Pending \cup {Len(inserted) + 1}
    BY <1>2 DEF Inserts, Pending, Having
  <2> QED
    BY <1>2, <2>1, <2>2 DEF Inserts
<1>3. ASSUME NEW i, Claims(i) \/ \E st \in Terminal : Ends(i, st)
      PROVE  Pending' \subseteq Pending
  BY <1>3 DEF Claims, Ends, Claimable, Finishable, SetStatus, Pending, Having
<1>4. CASE TakesBack
  BY <1>4 DEF TakesBack, Interrupted, SetStatus, Pending, Having
<1>5. CASE Forgets
  BY <1>5, PruneType DEF Forgets, Pending, Having, IType
<1> QED
  BY <1>1, <1>2, <1>3, <1>4, <1>5, EveryTableStep DEF TableStep

\* However requests race and services crash, restart and take work back, no more
\* than MaxPending jobs are queued or running.
THEOREM PendingIsBounded == Spec => []PendingBound
<1>1. Init => PendingBound
  <2> SUFFICES ASSUME Init PROVE PendingBound
    OBVIOUS
  <2>1. Pending = {}
    BY DEF Init, Pending, Having
  <2> QED
    BY <2>1, FS_EmptySet, LimitsAssumption DEF PendingBound
<1>2. IType /\ PendingBound /\ [Next]_vars => PendingBound'
  <2> SUFFICES ASSUME IType, PendingBound, [Next]_vars
               PROVE  PendingBound'
    OBVIOUS
  <2>1. IsFiniteSet(Pending) /\ Cardinality(Pending) \in Nat
    BY HavingFinite DEF Pending, IType
  <2>2. CASE Pending' \subseteq Pending
    <3>1. Cardinality(Pending') <= Cardinality(Pending) /\ IsFiniteSet(Pending')
      BY <2>1, <2>2, FS_Subset
    <3>2. Cardinality(Pending') \in Nat
      BY <3>1, FS_CardinalityType
    <3> QED
      BY <2>1, <3>1, <3>2, LimitsAssumption DEF PendingBound
  <2>3. ASSUME NEW i \in Ids, Pending' \subseteq Pending \cup {i}, ~ Full
        PROVE  PendingBound'
    <3>1. /\ IsFiniteSet(Pending \cup {i})
          /\ Cardinality(Pending \cup {i}) <= Cardinality(Pending) + 1
      <4>1. /\ IsFiniteSet(Pending \cup {i})
            /\ Cardinality(Pending \cup {i}) =
                 IF i \in Pending THEN Cardinality(Pending) ELSE Cardinality(Pending) + 1
        BY <2>1, FS_AddElement, Zenon
      <4> QED
        BY <2>1, <4>1
    <3>2. /\ IsFiniteSet(Pending')
          /\ Cardinality(Pending') <= Cardinality(Pending \cup {i})
      BY <2>3, <3>1, FS_Subset
    <3>3. Cardinality(Pending') \in Nat /\ Cardinality(Pending \cup {i}) \in Nat
      BY <3>1, <3>2, FS_CardinalityType
    <3>4. Cardinality(Pending) < MaxPending
      BY <2>1, <2>3, LimitsAssumption DEF Full
    <3> QED
      BY <2>1, <3>1, <3>2, <3>3, <3>4, LimitsAssumption DEF PendingBound
  <2> QED
    BY <2>2, <2>3, PendingStep
<1> QED
  BY <1>1, <1>2, IsType, PTL DEF Spec

-----------------------------------------------------------------------------
(* Keys, pruning and ended rows.                                           *)

\* The idempotency lookup and the INSERT share a write transaction: two rows
\* never hold the same key, for any number of racing requests and services.
THEOREM KeysAreUnique == Spec => []UniqueLiveKey
<1>1. Init => UniqueLiveKey
  BY DEF Init, UniqueLiveKey
<1>2. IType /\ UniqueLiveKey /\ [Next]_vars => UniqueLiveKey'
  <2> SUFFICES ASSUME IType, UniqueLiveKey, [Next]_vars
               PROVE  UniqueLiveKey'
    OBVIOUS
  <2>1. ASSUME inserted' = inserted, DOMAIN rows' \subseteq DOMAIN rows
        PROVE  UniqueLiveKey'
    BY <2>1 DEF UniqueLiveKey
  <2>2. ASSUME NEW k \in Keys \cup {NoKey}, NEW r \in Requests, Inserts(k, r)
        PROVE  UniqueLiveKey'
    <3> DEFINE n == Len(inserted) + 1
               e == [key |-> k, req |-> r]
    <3>1. /\ inserted \in Seq([key : Keys \cup {NoKey}, req : Requests])
          /\ e \in [key : Keys \cup {NoKey}, req : Requests]
          /\ inserted' = Append(inserted, e)
      BY <2>2 DEF IType, TypeOK, Inserts
    <3>2. /\ inserted'[n] = e
          /\ \A i \in 1 .. Len(inserted) : inserted'[i] = inserted[i]
      BY <3>1, AppendProperties
    <3>3. \A i \in DOMAIN rows : i \in 1 .. Len(inserted)
      BY InsertedDomain DEF IType, TypeOK
    <3>4. DOMAIN rows' = DOMAIN rows \cup {n}
      BY <2>2 DEF Inserts
    <3>5. \A i \in DOMAIN rows : inserted'[i].key = inserted[i].key
      BY <3>2, <3>3
    <3>6. \A i \in DOMAIN rows : k # NoKey => inserted[i].key # k
      BY <2>2 DEF Inserts, Unheld, Holders
    <3>7. inserted'[n].key = k
      BY <3>2
    <3> QED
      BY <3>4, <3>5, <3>6, <3>7 DEF UniqueLiveKey
  <2>3. CASE UNCHANGED table
    BY <2>1, <2>3 DEF table
  <2>4. ASSUME NEW i, Claims(i) \/ \E st \in Terminal : Ends(i, st)
        PROVE  UniqueLiveKey'
    BY <2>1, <2>4 DEF Claims, Ends, SetStatus
  <2>5. CASE TakesBack
    BY <2>1, <2>5 DEF TakesBack, SetStatus
  <2>6. CASE Forgets
    BY <2>1, <2>6 DEF Forgets, PruneTerminal
  <2> QED
    BY <2>2, <2>3, <2>4, <2>5, <2>6, EveryTableStep DEF TableStep
<1> QED
  BY <1>1, <1>2, IsType, PTL DEF Spec

\* A row that ended keeps its status until it is pruned, whichever worker or
\* process writes late.
THEOREM EndedRowsAreFinal == Spec => TerminalFinal
<1>1. IType /\ [Next]_vars =>
        [\A i \in Having(Terminal) : i \in DOMAIN rows' => rows'[i] = rows[i]]_vars
  <2> SUFFICES ASSUME IType, [Next]_vars, NEW i \in Having(Terminal), i \in DOMAIN rows'
               PROVE  rows'[i] = rows[i]
    OBVIOUS
  <2>1. /\ i \in DOMAIN rows /\ rows[i] \in Terminal
        /\ rows[i] # "queued" /\ rows[i] # "running"
    BY DEF Having, Terminal
  <2>2. CASE UNCHANGED table
    BY <2>2 DEF table
  <2>3. ASSUME NEW k, NEW r, Inserts(k, r)
        PROVE  rows'[i] = rows[i]
    <3>1. i # Len(inserted) + 1
      BY <2>1, InsertedDomain DEF IType, TypeOK
    <3> QED
      BY <2>1, <2>3, <3>1 DEF Inserts
  <2>4. ASSUME NEW j, Claims(j) \/ \E st \in Terminal : Ends(j, st)
        PROVE  rows'[i] = rows[i]
    BY <2>1, <2>4 DEF Claims, Ends, Claimable, Finishable, SetStatus, Having
  <2>5. CASE TakesBack
    BY <2>1, <2>5 DEF TakesBack, Interrupted, SetStatus, Having
  <2>6. CASE Forgets
    BY <2>6, PruneType DEF Forgets, IType
  <2> QED
    BY <2>2, <2>3, <2>4, <2>5, <2>6, EveryTableStep DEF TableStep
<1> QED
  BY <1>1, IsType, PTL DEF Spec, TerminalFinal

\* Strengthening of NoJobLost: the rows that pruning may take have ended too.
EndedOK ==
    \A i \in (DOMAIN inserted \ DOMAIN rows) \cup Having(Terminal) :
        \E p \in DOMAIN ended : ended[p] = i

LEMMA EndedStep ==
    ASSUME IType, EndedOK, [Next]_vars
    PROVE  EndedOK'
<1> DEFINE Gone == (DOMAIN inserted \ DOMAIN rows) \cup Having(Terminal)
<1>1. ASSUME ended' = ended, Gone' \subseteq Gone
      PROVE  EndedOK'
  BY <1>1 DEF EndedOK
<1>2. CASE UNCHANGED table
  BY <1>1, <1>2 DEF table, Having
<1>3. ASSUME NEW k \in Keys \cup {NoKey}, NEW r \in Requests, Inserts(k, r)
      PROVE  EndedOK'
  <2>1. DOMAIN inserted' = 1 .. Len(inserted) + 1
    BY <1>3, AppendProperties, LenProperties DEF Inserts, IType, TypeOK
  <2>2. DOMAIN inserted = 1 .. Len(inserted) /\ Len(inserted) \in Nat
        /\ DOMAIN rows \subseteq DOMAIN inserted
    BY InsertedDomain DEF IType, TypeOK
  <2>3. Gone' \subseteq Gone
    BY <1>3, <2>1, <2>2 DEF Inserts, Having, Terminal
  <2> QED
    BY <1>1, <1>3, <2>3 DEF Inserts
<1>4. ASSUME NEW i, Claims(i)
      PROVE  EndedOK'
  BY <1>1, <1>4 DEF Claims, SetStatus, Having, Terminal
<1>5. ASSUME NEW i \in Ids, NEW st \in Terminal, Ends(i, st)
      PROVE  EndedOK'
  <2>1. ended \in Seq(Ids) /\ ended' = Append(ended, i)
    BY <1>5 DEF Ends, IType, TypeOK
  <2>2. /\ DOMAIN ended = 1 .. Len(ended) /\ Len(ended) \in Nat
        /\ DOMAIN ended' = 1 .. Len(ended) + 1
        /\ ended'[Len(ended) + 1] = i
        /\ \A p \in 1 .. Len(ended) : ended'[p] = ended[p]
    BY <2>1, AppendProperties, LenProperties
  <2>3. Gone' \subseteq Gone \cup {i}
    BY <1>5 DEF Ends, SetStatus, Having
  <2>4. ASSUME NEW j \in Gone PROVE \E p \in DOMAIN ended' : ended'[p] = j
    BY <2>2 DEF EndedOK
  <2>5. \E p \in DOMAIN ended' : ended'[p] = i
    BY <2>2
  <2> QED
    BY <2>3, <2>4, <2>5 DEF EndedOK
<1>6. CASE TakesBack
  BY <1>1, <1>6 DEF TakesBack, SetStatus, Having, Terminal
<1>7. CASE Forgets
  <2>1. Surplus \subseteq Having(Terminal)
    BY DEF Surplus
  <2>2. Gone' \subseteq Gone
    BY <1>7, <2>1, PruneType DEF Forgets, Having, IType
  <2> QED
    BY <1>1, <1>7, <2>2 DEF Forgets
<1> QED
  BY <1>2, <1>3, <1>4, <1>5, <1>6, <1>7, EveryTableStep DEF TableStep

LEMMA IsEnded == Spec => []EndedOK
<1>1. Init => EndedOK
  BY DEF Init, EndedOK, Having
<1>2. IType /\ EndedOK /\ [Next]_vars => EndedOK'
  BY EndedStep
<1> QED
  BY <1>1, <1>2, IsType, PTL DEF Spec

\* A job leaves the table only after it ended: no crash, restart or prune drops
\* accepted work.
THEOREM AcceptedJobsAreKept == Spec => []NoJobLost
<1>1. EndedOK => NoJobLost
  BY DEF EndedOK, NoJobLost
<1> QED
  BY <1>1, IsEnded, PTL

-----------------------------------------------------------------------------
(* Answers.                                                                *)

\* What a step says to a caller: nothing, a refusal by key or by capacity, or
\* 202 for a row that is there and holds the request of the answer.
Says ==
    \/ reply' = Silence
    \/ reply'.code = "409"
    \/ reply'.code = "429"
    \/ /\ reply'.code = "202"
       /\ inserted' = inserted
       /\ inserted[reply'.job] = [key |-> reply'.key, req |-> reply'.req]

LEMMA EveryAnswer ==
    ASSUME IType, [Next]_vars
    PROVE  (reply' = reply /\ inserted' = inserted) \/ Says
<1>1. CASE UNCHANGED vars
  BY <1>1 DEF vars, table
<1>2. ASSUME NEW s \in Services, Submit(s)
      PROVE  Says
  <2> PICK k \in Keys \cup {NoKey}, r \in Requests :
           \/ SubmitReplay(s, k, r) \/ SubmitConflict(s, k, r)
           \/ SubmitFull(s, k, r) \/ SubmitNew(s, k, r)
    BY <1>2 DEF Submit
  <2>1. CASE SubmitReplay(s, k, r)
    <3> PICK i \in Holders(k) : inserted[i].req = r /\ Answer("202", k, r, i)
      BY <2>1 DEF SubmitReplay
    <3>1. inserted[i].key = k /\ i \in DOMAIN inserted
      BY DEF Holders, IType, TypeOK
    <3>2. inserted[i] \in [key : Keys \cup {NoKey}, req : Requests]
      BY <3>1, InsertedDomain, ElementOfSeq DEF IType, TypeOK
    <3> QED
      BY <2>1, <3>1, <3>2 DEF SubmitReplay, Answer, Says, table
  <2>2. CASE SubmitConflict(s, k, r)
    BY <2>2 DEF SubmitConflict, Answer, Says
  <2>3. CASE SubmitFull(s, k, r)
    BY <2>3 DEF SubmitFull, Answer, Says
  <2>4. CASE SubmitNew(s, k, r)
    BY <2>4 DEF SubmitNew, Says
  <2> QED
    BY <2>1, <2>2, <2>3, <2>4
<1>3. ASSUME NEW s \in Services, NEW i \in Ids, Schedule(s, i)
      PROVE  Says
  <2>1. i \in DOMAIN inserted
    BY <1>3 DEF Schedule, IType, HandedOK
  <2>2. inserted[i] \in [key : Keys \cup {NoKey}, req : Requests]
    BY <2>1, InsertedDomain, ElementOfSeq DEF IType, TypeOK
  <2> QED
    BY <1>3, <2>2 DEF Schedule, Answer, Says, table
<1>4. ASSUME NEW s \in Services,
             \/ \E t \in Threads : WorkerStep(s, t)
             \/ Boot(s) \/ BeginClose(s) \/ EndClose(s) \/ Crash(s)
      PROVE  Says
  BY <1>4 DEF WorkerStep, Claim, Load, BeginRun, EndRun, Finish, StoreRaises, Prune,
              Boot, BootPrune, BootRecover, BootSchedule, BootReady,
              BeginClose, EndClose, Crash, Says
<1> QED
  BY <1>1, <1>2, <1>3, <1>4 DEF Next

\* A 202 names a job of the very request that was sent, for any race of
\* requests: the hash comparison and the lookup see one row.
THEOREM RepliesNameTheirRequest == Spec => []ReplyNamesRequest
<1>1. Init => ReplyNamesRequest
  BY DEF Init, Silence, ReplyNamesRequest
<1>2. IType /\ ReplyNamesRequest /\ [Next]_vars => ReplyNamesRequest'
  BY EveryAnswer DEF Says, Silence, ReplyNamesRequest
<1> QED
  BY <1>1, <1>2, IsType, PTL DEF Spec

-----------------------------------------------------------------------------
(* How often a job runs.                                                   *)

\* The threads that have claimed i and not begun its run.
Opening(i) == {w \in Services \X Threads :
                  /\ worker[w[1]][w[2]].job = i
                  /\ worker[w[1]][w[2]].pc \in {"claimed", "ready"}}
\* A job that is queued, or not there yet, may still be claimed once.
Claimings(i) == IF i \in DOMAIN inserted /\ i \notin Having({"queued"}) THEN 0 ELSE 1

\* Strengthening of RunsBounded: the runs to come count as well.
RunsPaidFor ==
    \A i \in Ids :
        /\ IsFiniteSet(Opening(i))
        /\ runs[i] + Cardinality(Opening(i)) + Claimings(i) <= 1 + requeues[i]

\* A step that opens no run keeps the balance of a job.
LEMMA BalanceKept ==
    ASSUME IType, IType', NEW i \in Ids, RunsPaidFor,
           Opening(i)' \subseteq Opening(i), runs'[i] = runs[i],
           \/ Claimings(i)' <= Claimings(i) /\ requeues'[i] = requeues[i]
           \/ requeues'[i] = requeues[i] + 1
    PROVE  /\ IsFiniteSet(Opening(i)')
           /\ runs'[i] + Cardinality(Opening(i)') + Claimings(i)' <= 1 + requeues'[i]
<1>1. IsFiniteSet(Opening(i)) /\ Cardinality(Opening(i)) \in Nat
  BY FS_CardinalityType DEF RunsPaidFor
<1>2. IsFiniteSet(Opening(i)') /\ Cardinality(Opening(i)') <= Cardinality(Opening(i))
  BY <1>1, FS_Subset
<1>3. Cardinality(Opening(i)') \in Nat
  BY <1>2, FS_CardinalityType
<1>4. Claimings(i) \in {0, 1} /\ Claimings(i)' \in {0, 1}
  BY DEF Claimings
<1>5. runs[i] \in Nat /\ requeues[i] \in Nat
  BY DEF IType, TypeOK
<1> QED
  BY <1>1, <1>2, <1>3, <1>4, <1>5 DEF RunsPaidFor

LEMMA RunsStep ==
    ASSUME IType, IType', RunsPaidFor, [Next]_vars
    PROVE  RunsPaidFor'
<1> DEFINE Balanced(i) ==
             /\ IsFiniteSet(Opening(i)')
             /\ runs'[i] + Cardinality(Opening(i)') + Claimings(i)' <= 1 + requeues'[i]
<1> SUFFICES ASSUME NEW i \in Ids PROVE Balanced(i)
  BY DEF RunsPaidFor
<1>a. /\ i \in Nat /\ DOMAIN inserted = 1 .. Len(inserted) /\ Len(inserted) \in Nat
      /\ DOMAIN rows \subseteq DOMAIN inserted
  <2>1. TypeOK /\ DOMAIN rows \subseteq DOMAIN inserted
    BY DEF IType, TypeOK
  <2>2. i \in Nat
    BY BoundsAssumption DEF Ids
  <2> QED
    BY <2>1, <2>2, InsertedDomain
<1>b. worker \in [Services -> [Threads -> WorkerType]]
  BY DEF IType, TypeOK, WorkerType
<1>1. ASSUME UNCHANGED <<worker, runs, requeues>>,
             Claimings(i)' <= Claimings(i)
      PROVE  Balanced(i)
  BY <1>1, BalanceKept DEF Opening
<1>2. CASE UNCHANGED vars
  BY <1>1, <1>2 DEF vars, table, history, Claimings, Having
<1>3. ASSUME NEW s \in Services, Submit(s)
      PROVE  Balanced(i)
  <2> PICK k \in Keys \cup {NoKey}, r \in Requests :
           \/ SubmitReplay(s, k, r) \/ SubmitConflict(s, k, r)
           \/ SubmitFull(s, k, r) \/ SubmitNew(s, k, r)
    BY <1>3 DEF Submit
  <2>1. CASE UNCHANGED <<table, worker, history>>
    BY <1>1, <2>1 DEF table, history, Claimings, Having
  <2>2. CASE SubmitNew(s, k, r)
    <3>1. DOMAIN inserted' = 1 .. Len(inserted) + 1
      BY <2>2, AppendProperties, LenProperties DEF SubmitNew, IType, TypeOK
    <3>2. Claimings(i)' <= Claimings(i)
      BY <1>a, <2>2, <3>1 DEF SubmitNew, Claimings, Having
    <3> QED
      BY <1>1, <2>2, <3>2 DEF SubmitNew, history
  <2> QED
    BY <2>1, <2>2 DEF SubmitReplay, SubmitConflict, SubmitFull
<1>4. ASSUME NEW s \in Services,
             \/ \E j \in Ids : Schedule(s, j)
             \/ BootSchedule(s) \/ BootReady(s) \/ BeginClose(s)
      PROVE  Balanced(i)
  BY <1>1, <1>4 DEF Schedule, BootSchedule, BootReady, BeginClose,
                    table, history, Claimings, Having
<1>5. ASSUME NEW s \in Services, BootPrune(s)
      PROVE  Balanced(i)
  <2>1. Claimings(i)' <= Claimings(i)
    BY <1>5, PruneType DEF BootPrune, Claimings, Having, IType
  <2> QED
    BY <1>1, <1>5, <2>1 DEF BootPrune, history
<1>6. ASSUME NEW s \in Services, BootRecover(s)
      PROVE  Balanced(i)
  <2>1. UNCHANGED <<worker, runs, inserted>> /\ SetStatus(Interrupted, "queued")
        /\ requeues'[i] = IF i \in Having({"running"}) THEN requeues[i] + 1 ELSE requeues[i]
    BY <1>6 DEF BootRecover
  <2>2. i \notin Having({"running"}) => Claimings(i)' <= Claimings(i)
    BY <2>1 DEF SetStatus, Interrupted, Claimings, Having
  <2> QED
    BY <2>1, <2>2, BalanceKept DEF Opening
<1>7. ASSUME NEW s \in Services, EndClose(s) \/ Crash(s)
      PROVE  Balanced(i)
  <2>1. /\ worker' = [worker EXCEPT ![s] = [t \in Threads |-> Idle]]
        /\ UNCHANGED <<inserted, rows, runs, requeues>>
    BY <1>7 DEF EndClose, Crash, table, history
  <2>2. \A x \in Services, y \in Threads :
           worker'[x][y] = IF x = s THEN Idle ELSE worker[x][y]
    BY <1>b, <2>1
  <2>3. Opening(i)' \subseteq Opening(i)
    BY <2>2 DEF Opening, Idle
  <2>4. Claimings(i)' <= Claimings(i)
    BY <2>1 DEF Claimings, Having
  <2> QED
    BY <2>1, <2>3, <2>4, BalanceKept
<1>8. ASSUME NEW s \in Services, NEW t \in Threads, WorkerStep(s, t)
      PROVE  Balanced(i)
  <2>a. ASSUME NEW w, worker' = [worker EXCEPT ![s][t] = w]
        PROVE  \A x \in Services, y \in Threads :
                  worker'[x][y] = IF x = s /\ y = t THEN w ELSE worker[x][y]
    BY <1>b, <2>a
  <2>b. ASSUME NEW pc \in Pcs, Goto(s, t, pc) \/ Rest(s, t),
               pc \in {"claimed", "ready"} => At(s, t, "claimed") \/ At(s, t, "ready")
        PROVE  Opening(i)' \subseteq Opening(i)
    <3>1. PICK w : /\ worker' = [worker EXCEPT ![s][t] = w]
                   /\ w = Idle \/ w = [worker[s][t] EXCEPT !.pc = pc]
      BY <2>b DEF Goto, Rest
    <3>2. worker[s][t] \in WorkerType
      BY <1>b
    <3>3. w.pc \in {"claimed", "ready"} =>
             w.job = worker[s][t].job /\ worker[s][t].pc \in {"claimed", "ready"}
      BY <2>b, <3>1, <3>2 DEF Idle, WorkerType, At
    <3> QED
      BY <2>a, <3>1, <3>3 DEF Opening
  <2>1. CASE Claim(s, t)
    <3> DEFINE j == Head(queue[s])
               w == [pc |-> "claimed", job |-> j]
    <3>1. CASE UNCHANGED <<rows, worker>>
      BY <1>1, <2>1, <3>1 DEF Claim, history, Claimings, Having
    <3>2. CASE /\ Claimable(j) /\ SetStatus({j}, "running")
               /\ worker' = [worker EXCEPT ![s][t] = w]
      <4>1. UNCHANGED <<inserted, runs, requeues>> /\ At(s, t, "idle")
        BY <2>1 DEF Claim, history
      <4>2. CASE i = j
        <5>1. <<s, t>> \notin Opening(i) /\ Opening(i)' \subseteq Opening(i) \cup {<<s, t>>}
          BY <2>a, <3>2, <4>1, <4>2 DEF Opening, At
        <5>2. IsFiniteSet(Opening(i)) /\ Cardinality(Opening(i)) \in Nat
          BY FS_CardinalityType DEF RunsPaidFor
        <5>3. /\ IsFiniteSet(Opening(i) \cup {<<s, t>>})
              /\ Cardinality(Opening(i) \cup {<<s, t>>}) = Cardinality(Opening(i)) + 1
          BY <5>1, <5>2, FS_AddElement
        <5>4. /\ IsFiniteSet(Opening(i)')
              /\ Cardinality(Opening(i)') <= Cardinality(Opening(i)) + 1
          BY <5>1, <5>3, FS_Subset
        <5>5. Cardinality(Opening(i)') \in Nat
          BY <5>4, FS_CardinalityType
        <5>6. Claimings(i) = 1 /\ Claimings(i)' = 0
          BY <1>a, <3>2, <4>1, <4>2 DEF Claimable, SetStatus, Claimings, Having
        <5>7. runs[i] \in Nat /\ requeues[i] \in Nat
          BY DEF IType, TypeOK
        <5> QED
          BY <4>1, <5>2, <5>4, <5>5, <5>6, <5>7 DEF RunsPaidFor
      <4>3. CASE i # j
        <5>1. Opening(i)' \subseteq Opening(i)
          BY <2>a, <3>2, <4>3 DEF Opening
        <5>2. Claimings(i)' <= Claimings(i)
          BY <3>2, <4>1, <4>3 DEF SetStatus, Claimings, Having
        <5> QED
          BY <4>1, <5>1, <5>2, BalanceKept
      <4> QED
        BY <4>2, <4>3
    <3> QED
      BY <2>1, <3>1, <3>2 DEF Claim
  <2>2. CASE Load(s, t)
    <3>1. Opening(i)' \subseteq Opening(i)
      BY <2>2, <2>b DEF Load, Pcs
    <3> QED
      BY <2>2, <3>1, BalanceKept DEF Load, table, history, Claimings, Having
  <2>3. CASE BeginRun(s, t)
    <3> DEFINE j == worker[s][t].job
    <3>1. /\ UNCHANGED <<inserted, rows, requeues>>
          /\ runs' = [runs EXCEPT ![j] = @ + 1]
          /\ Goto(s, t, "running") /\ At(s, t, "ready")
      BY <2>3 DEF BeginRun, table
    <3>2. Opening(i)' \subseteq Opening(i)
      BY <2>3, <2>b DEF BeginRun, Pcs
    <3>3. Claimings(i)' = Claimings(i)
      BY <3>1 DEF Claimings, Having
    <3>4. CASE i # j
      <4>1. runs'[i] = runs[i] /\ requeues'[i] = requeues[i]
        BY <3>1, <3>4 DEF IType, TypeOK
      <4>2. Claimings(i)' <= Claimings(i)
        BY <3>3 DEF Claimings
      <4> QED
        BY <3>2, <4>1, <4>2, BalanceKept
    <3>5. CASE i = j
      <4>1. worker[s][t] \in WorkerType
        BY <1>b
      <4>2. worker'[s][t].pc = "running"
        BY <1>b, <3>1, <4>1 DEF Goto, WorkerType
      <4>3. <<s, t>> \in Opening(i) /\ <<s, t>> \notin Opening(i)'
        BY <3>1, <3>5, <4>2 DEF Opening, At
      <4>4. IsFiniteSet(Opening(i)) /\ Cardinality(Opening(i)) \in Nat
        BY FS_CardinalityType DEF RunsPaidFor
      <4>5. /\ IsFiniteSet(Opening(i) \ {<<s, t>>})
            /\ Cardinality(Opening(i) \ {<<s, t>>}) = Cardinality(Opening(i)) - 1
        BY <4>3, <4>4, FS_RemoveElement
      <4>6. /\ IsFiniteSet(Opening(i)')
            /\ Cardinality(Opening(i)') <= Cardinality(Opening(i)) - 1
        BY <3>2, <4>3, <4>5, FS_Subset
      <4>7. Cardinality(Opening(i)') \in Nat
        BY <4>6, FS_CardinalityType
      <4>8. /\ runs[i] \in Nat /\ requeues[i] \in Nat /\ runs'[i] = runs[i] + 1
            /\ requeues'[i] = requeues[i]
        BY <3>1, <3>5 DEF IType, TypeOK
      <4>9. Claimings(i) \in {0, 1}
        BY DEF Claimings
      <4> QED
        BY <3>3, <4>4, <4>6, <4>7, <4>8, <4>9 DEF RunsPaidFor
    <3> QED
      BY <3>4, <3>5
  <2>4. CASE EndRun(s, t)
    <3>1. Opening(i)' \subseteq Opening(i)
      BY <2>4, <2>b DEF EndRun, Pcs
    <3> QED
      BY <2>4, <3>1, BalanceKept DEF EndRun, table, history, Claimings, Having
  <2>5. CASE Finish(s, t)
    <3>1. Opening(i)' \subseteq Opening(i)
      BY <2>5, <2>b DEF Finish, Pcs
    <3>2. UNCHANGED <<inserted, runs, requeues>>
      BY <2>5 DEF Finish, history
    <3>3. CASE rows' = rows
      BY <3>1, <3>2, <3>3, BalanceKept DEF Claimings, Having
    <3>4. CASE SetStatus({worker[s][t].job}, Outcome(worker[s][t].pc))
               /\ Finishable(worker[s][t].job)
      <4>1. Claimings(i)' <= Claimings(i)
        BY <3>2, <3>4 DEF SetStatus, Outcome, Finishable, Claimings, Having
      <4> QED
        BY <3>1, <3>2, <4>1, BalanceKept
    <3> QED
      BY <2>5, <3>3, <3>4 DEF Finish
  <2>6. CASE StoreRaises(s, t)
    <3>1. Opening(i)' \subseteq Opening(i)
      <4>1. CASE UNCHANGED worker
        BY <4>1 DEF Opening
      <4>2. CASE Rest(s, t) \/ Goto(s, t, "pruning")
        BY <4>2, <2>b DEF Pcs
      <4> QED
        BY <2>6, <4>1, <4>2 DEF StoreRaises
    <3> QED
      BY <2>6, <3>1, BalanceKept DEF StoreRaises, table, Claimings, Having
  <2>7. CASE Prune(s, t)
    <3>1. Opening(i)' \subseteq Opening(i)
      BY <2>7, <2>b DEF Prune, Pcs
    <3>2. Claimings(i)' <= Claimings(i)
      BY <2>7, PruneType DEF Prune, Claimings, Having, IType
    <3> QED
      BY <2>7, <3>1, <3>2, BalanceKept DEF Prune, history
  <2> QED
    BY <1>8, <2>1, <2>2, <2>3, <2>4, <2>5, <2>6, <2>7 DEF WorkerStep
<1> QED
  BY <1>2, <1>3, <1>4, <1>5, <1>6, <1>7, <1>8 DEF Next, Boot

\* No job runs twice unless a starting service took it back in between, for
\* any number of services, threads, duplicated schedules and crashes: every run
\* is paid for by one claim of a queued row.
THEOREM RunsAreBounded == Spec => []RunsBounded
<1>1. Init => RunsPaidFor
  <2> SUFFICES ASSUME Init, NEW i \in Ids
               PROVE  /\ IsFiniteSet(Opening(i))
                      /\ runs[i] + Cardinality(Opening(i)) + Claimings(i) <= 1 + requeues[i]
    BY DEF RunsPaidFor
  <2>1. Opening(i) = {}
    BY DEF Init, Opening, Idle
  <2> QED
    BY <2>1, FS_EmptySet DEF Init, Claimings
<1>2. IType /\ IType' /\ RunsPaidFor /\ [Next]_vars => RunsPaidFor'
  BY RunsStep
<1>3. IType /\ RunsPaidFor => RunsBounded
  <2> SUFFICES ASSUME IType, RunsPaidFor, NEW i \in Ids
               PROVE  runs[i] <= 1 + requeues[i]
    BY DEF RunsBounded
  <2>1. Cardinality(Opening(i)) \in Nat
    BY FS_CardinalityType DEF RunsPaidFor
  <2>2. Claimings(i) \in {0, 1} /\ runs[i] \in Nat /\ requeues[i] \in Nat
    BY DEF Claimings, IType, TypeOK
  <2> QED
    BY <2>1, <2>2 DEF RunsPaidFor
<1> QED
  BY <1>1, <1>2, <1>3, IsType, PTL DEF Spec

-----------------------------------------------------------------------------
(* Whether accepted work is in hand.                                       *)

InQueue(s, i) == \E p \in DOMAIN queue[s] : queue[s][p] = i
Waits(i)  == \E s \in Services : i \in handed[s] \/ i \in backlog[s] \/ InQueue(s, i)
Worked(i) == \E s \in Services, t \in Threads : WorksOn(s, t, i)

\* What a service can hold in each phase of its life.
MemoryOK ==
    \A s \in Services :
        /\ phase[s] # "booting" => backlog[s] = {}
        /\ phase[s] # "up" => handed[s] = {}
        /\ phase[s] \in {"down", "pruned", "closed"} =>
              queue[s] = <<>> /\ \A t \in Threads : At(s, t, "idle")

\* No service died, or is starting and has not recovered yet.
Settled == \A s \in Services : phase[s] \notin {"down", "pruned"}

\* Strengthening of NothingStranded: it also holds while services drain, and
\* while one that starts still has recovered jobs to schedule.
WorkInHand ==
    Settled => /\ \A i \in Having({"queued"}) \ orphans : Waits(i)
               /\ \A i \in Having({"running"}) \ orphans : Worked(i)

LEMMA TailKeeps ==
    ASSUME NEW q \in Seq(Ids), q # <<>>, NEW p \in DOMAIN q, q[p] # Head(q)
    PROVE  \E r \in DOMAIN Tail(q) : Tail(q)[r] = q[p]
<1>1. /\ Len(q) \in Nat /\ DOMAIN q = 1 .. Len(q)
      /\ Tail(q) \in Seq(Ids) /\ Len(Tail(q)) = Len(q) - 1
      /\ \A r \in 1 .. Len(Tail(q)) : Tail(q)[r] = q[r + 1]
  BY LenProperties, HeadTailProperties
<1>2. DOMAIN Tail(q) = 1 .. Len(q) - 1
  BY <1>1, LenProperties
<1>3. p # 1
  OBVIOUS
<1>4. p - 1 \in 1 .. Len(q) - 1 /\ Tail(q)[p - 1] = q[p]
  BY <1>1, <1>3
<1> QED
  BY <1>2, <1>4

LEMMA AppendKeeps ==
    ASSUME NEW q \in Seq(Ids), NEW i \in Ids
    PROVE  /\ \A p \in DOMAIN q : \E r \in DOMAIN Append(q, i) : Append(q, i)[r] = q[p]
           /\ \E r \in DOMAIN Append(q, i) : Append(q, i)[r] = i
<1>1. /\ Len(q) \in Nat /\ DOMAIN q = 1 .. Len(q)
      /\ DOMAIN Append(q, i) = 1 .. Len(q) + 1
      /\ \A p \in 1 .. Len(q) : Append(q, i)[p] = q[p]
      /\ Append(q, i)[Len(q) + 1] = i
  BY LenProperties, AppendProperties
<1> QED
  BY <1>1

LEMMA MemoryStep ==
    ASSUME IType, IType', MemoryOK, [Next]_vars
    PROVE  MemoryOK'
<1>a. /\ phase \in [Services -> Phases]
      /\ handed \in [Services -> SUBSET Ids] /\ backlog \in [Services -> SUBSET Ids]
      /\ queue \in [Services -> Seq(Ids)]
      /\ worker \in [Services -> [Threads -> WorkerType]]
  BY DEF IType, TypeOK, WorkerType
<1>1. CASE UNCHANGED <<phase, handed, backlog, queue, worker>>
  BY <1>1 DEF MemoryOK, At
<1>2. ASSUME NEW s \in Services, Submit(s)
      PROVE  MemoryOK'
  <2> PICK k \in Keys \cup {NoKey}, r \in Requests :
           \/ SubmitReplay(s, k, r) \/ SubmitConflict(s, k, r)
           \/ SubmitFull(s, k, r) \/ SubmitNew(s, k, r)
    BY <1>2 DEF Submit
  <2>1. CASE SubmitNew(s, k, r)
    BY <1>a, <2>1 DEF SubmitNew, MemoryOK, At
  <2> QED
    BY <1>1, <2>1 DEF SubmitReplay, SubmitConflict, SubmitFull
<1>3. ASSUME NEW s \in Services, NEW i \in Ids, Schedule(s, i)
      PROVE  MemoryOK'
  <2>1. phase[s] = "up"
    BY <1>3 DEF Schedule, MemoryOK
  <2> QED
    BY <1>a, <1>3, <2>1 DEF Schedule, MemoryOK, At
<1>4. ASSUME NEW s \in Services, NEW t \in Threads, WorkerStep(s, t)
      PROVE  MemoryOK'
  <2>1. UNCHANGED <<phase, handed, backlog>>
    BY <1>4 DEF WorkerStep, Claim, Load, BeginRun, EndRun, Finish, StoreRaises, Prune
  <2>2. phase[s] \notin {"down", "pruned", "closed"}
    BY <1>4 DEF WorkerStep, Claim, Load, BeginRun, EndRun, Finish, StoreRaises, Prune,
                Alive, At, MemoryOK
  <2>3. /\ queue' = queue \/ \E q : queue' = [queue EXCEPT ![s] = q]
        /\ worker' = worker \/ \E w : worker' = [worker EXCEPT ![s][t] = w]
    BY <1>4 DEF WorkerStep, Claim, Load, BeginRun, EndRun, Finish, StoreRaises, Prune,
                Goto, Rest
  <2>4. \A x \in Services \ {s} : queue'[x] = queue[x] /\ worker'[x] = worker[x]
    BY <1>a, <2>3
  <2> QED
    BY <2>1, <2>2, <2>4 DEF MemoryOK, At
<1>5. ASSUME NEW s \in Services, Boot(s)
      PROVE  MemoryOK'
  BY <1>a, <1>5 DEF Boot, BootPrune, BootRecover, BootSchedule, BootReady, MemoryOK, At
<1>6. ASSUME NEW s \in Services, BeginClose(s)
      PROVE  MemoryOK'
  BY <1>a, <1>6 DEF BeginClose, MemoryOK, At
<1>7. ASSUME NEW s \in Services, EndClose(s) \/ Crash(s)
      PROVE  MemoryOK'
  <2>1. /\ worker' = [worker EXCEPT ![s] = [t \in Threads |-> Idle]]
        /\ queue' = [queue EXCEPT ![s] = <<>>]
        /\ handed'[s] = {} /\ backlog'[s] = {}
    BY <1>a, <1>7 DEF EndClose, Crash, MemoryOK
  <2>2. \A x \in Services \ {s} :
           /\ phase'[x] = phase[x] /\ handed'[x] = handed[x] /\ backlog'[x] = backlog[x]
           /\ queue'[x] = queue[x] /\ worker'[x] = worker[x]
    BY <1>a, <1>7 DEF EndClose, Crash
  <2>3. queue'[s] = <<>> /\ \A t \in Threads : worker'[s][t].pc = "idle"
    BY <1>a, <2>1 DEF Idle
  <2> QED
    BY <2>1, <2>2, <2>3 DEF MemoryOK, At
<1> QED
  BY <1>1, <1>2, <1>3, <1>4, <1>5, <1>6, <1>7 DEF Next, vars

\* What a step has to keep for accepted work to stay in hand.
WaitersKept ==
    \A i \in (Having({"queued"}) \ orphans)' :
        i \in Having({"queued"}) \ orphans /\ (Waits(i) => Waits(i)')
WorkersKept ==
    \A i \in (Having({"running"}) \ orphans)' :
        i \in Having({"running"}) \ orphans /\ (Worked(i) => Worked(i)')

LEMMA HandStep ==
    ASSUME IType, IType', MemoryOK, WorkInHand, [Next]_vars
    PROVE  WorkInHand'
<1> SUFFICES ASSUME Settled'
             PROVE  /\ \A i \in (Having({"queued"}) \ orphans)' : Waits(i)'
                    /\ \A i \in (Having({"running"}) \ orphans)' : Worked(i)'
  BY DEF WorkInHand
<1> DEFINE Goal == /\ \A i \in (Having({"queued"}) \ orphans)' : Waits(i)'
                   /\ \A i \in (Having({"running"}) \ orphans)' : Worked(i)'
<1>a. /\ phase \in [Services -> Phases]
      /\ handed \in [Services -> SUBSET Ids] /\ backlog \in [Services -> SUBSET Ids]
      /\ queue \in [Services -> Seq(Ids)]
      /\ worker \in [Services -> [Threads -> WorkerType]]
      /\ DOMAIN inserted \subseteq Ids /\ DOMAIN rows \subseteq DOMAIN inserted
  BY InsertedDomain DEF IType, TypeOK, WorkerType
<1>0. ASSUME Settled, WaitersKept, WorkersKept
      PROVE  Goal
  BY <1>0 DEF WorkInHand, WaitersKept, WorkersKept
<1>1. CASE UNCHANGED <<rows, orphans, phase, handed, backlog, queue, worker>>
  BY <1>0, <1>1 DEF Settled, WaitersKept, WorkersKept, Having, Waits, Worked, InQueue, WorksOn
<1>2. ASSUME NEW s \in Services, Submit(s)
      PROVE  Goal
  <2> PICK k \in Keys \cup {NoKey}, r \in Requests :
           \/ SubmitReplay(s, k, r) \/ SubmitConflict(s, k, r)
           \/ SubmitFull(s, k, r) \/ SubmitNew(s, k, r)
    BY <1>2 DEF Submit
  <2>1. CASE SubmitNew(s, k, r)
    <3> PICK n : n = Len(inserted) + 1
      OBVIOUS
    <3>1. /\ UNCHANGED <<phase, backlog, queue, worker, orphans>>
          /\ handed' = [handed EXCEPT ![s] = @ \cup {n}]
          /\ rows' = [j \in DOMAIN rows \cup {n} |-> IF j = n THEN "queued" ELSE rows[j]]
      BY <2>1 DEF SubmitNew, history
    <3>2. Settled
      BY <3>1 DEF Settled
    <3>3. \A i : Waits(i) => Waits(i)'
      BY <1>a, <3>1 DEF Waits, InQueue
    <3>4. Waits(n)'
      BY <1>a, <3>1 DEF Waits
    <3>5. \A i : Worked(i) => Worked(i)'
      BY <3>1 DEF Worked, WorksOn
    <3>6. \A i \in (Having({"queued"}) \ orphans)' : i = n \/ i \in Having({"queued"}) \ orphans
      BY <3>1 DEF Having
    <3>7. \A i \in (Having({"running"}) \ orphans)' : i \in Having({"running"}) \ orphans
      BY <3>1 DEF Having
    <3> QED
      BY <3>2, <3>3, <3>4, <3>5, <3>6, <3>7 DEF WorkInHand
  <2> QED
    BY <1>1, <2>1 DEF SubmitReplay, SubmitConflict, SubmitFull, table, history
<1>3. ASSUME NEW s \in Services, NEW i \in Ids, Schedule(s, i)
      PROVE  Goal
  <2>1. /\ UNCHANGED <<rows, orphans, phase, backlog, worker>>
        /\ handed' = [handed EXCEPT ![s] = @ \ {i}]
        /\ queue' = [queue EXCEPT ![s] = Append(@, i)]
    BY <1>3 DEF Schedule, table, history
  <2>2. ASSUME NEW j, Waits(j)
        PROVE  Waits(j)'
    <3>0. queue'[s] = Append(queue[s], i) /\ queue[s] \in Seq(Ids) /\ i \in Ids
      BY <1>a, <1>3, <2>1
    <3>1. InQueue(s, i)' /\ (InQueue(s, j) => InQueue(s, j)')
      <4>1. /\ \A p \in DOMAIN queue[s] : \E r \in DOMAIN queue'[s] : queue'[s][r] = queue[s][p]
            /\ \E r \in DOMAIN queue'[s] : queue'[s][r] = i
        <5>1. /\ \A p \in DOMAIN queue[s] :
                    \E r \in DOMAIN Append(queue[s], i) : Append(queue[s], i)[r] = queue[s][p]
              /\ \E r \in DOMAIN Append(queue[s], i) : Append(queue[s], i)[r] = i
          BY <3>0, AppendKeeps
        <5> QED
          BY <3>0, <5>1
      <4> QED
        BY <4>1 DEF InQueue
    <3>2. \A x \in Services \ {s} : handed'[x] = handed[x] /\ queue'[x] = queue[x]
      BY <1>a, <2>1
    <3>3. j \in handed[s] => j = i \/ j \in handed'[s]
      BY <1>a, <2>1
    <3> QED
      BY <2>1, <2>2, <3>1, <3>2, <3>3 DEF Waits, InQueue
  <2> QED
    BY <1>0, <2>1, <2>2 DEF Settled, WaitersKept, WorkersKept, Having, Worked, WorksOn
<1>4. ASSUME NEW s \in Services, NEW t \in Threads, WorkerStep(s, t)
      PROVE  Goal
  <2>a. ASSUME NEW w, worker' = [worker EXCEPT ![s][t] = w]
        PROVE  \A x \in Services, y \in Threads :
                  worker'[x][y] = IF x = s /\ y = t THEN w ELSE worker[x][y]
    BY <1>a, <2>a
  <2>b. UNCHANGED <<phase, handed, backlog>> /\ Settled
    BY <1>4 DEF WorkerStep, Claim, Load, BeginRun, EndRun, Finish, StoreRaises, Prune, Settled
  <2>c. ASSUME NEW pc, Goto(s, t, pc) \/ Rest(s, t), NEW i \in Ids, Worked(i),
               i # worker[s][t].job
        PROVE  Worked(i)'
    <3>1. PICK w : worker' = [worker EXCEPT ![s][t] = w]
      BY <2>c DEF Goto, Rest
    <3>2. PICK x \in Services, y \in Threads : WorksOn(x, y, i)
      BY <2>c DEF Worked
    <3>3. worker'[x][y] = worker[x][y]
      BY <2>a, <2>c, <3>1, <3>2 DEF WorksOn
    <3> QED
      BY <3>2, <3>3 DEF Worked, WorksOn
  <2>d. ASSUME NEW pc \in Pcs \ {"idle", "pruning"}, Goto(s, t, pc),
               worker[s][t].pc \in Pcs \ {"idle", "pruning"}, NEW i, Worked(i)
        PROVE  Worked(i)'
    <3>1. PICK x \in Services, y \in Threads : WorksOn(x, y, i)
      BY <2>d DEF Worked
    <3>2. worker' = [worker EXCEPT ![s][t] = [worker[s][t] EXCEPT !.pc = pc]]
      BY <2>d DEF Goto
    <3>3. worker[s][t] \in WorkerType
      BY <1>a
    <3>4. worker'[x][y].job = worker[x][y].job
          /\ worker'[x][y].pc \in Pcs \ {"idle", "pruning"}
      BY <2>a, <2>d, <3>1, <3>2, <3>3 DEF WorksOn, WorkerType
    <3> QED
      BY <3>1, <3>4 DEF Worked, WorksOn
  <2>e. ASSUME queue' = [queue EXCEPT ![s] = Tail(@)], queue[s] # <<>>,
               NEW i, Waits(i), i # Head(queue[s])
        PROVE  Waits(i)'
    <3>1. InQueue(s, i) => InQueue(s, i)'
      BY <1>a, <2>e, TailKeeps DEF InQueue
    <3>2. \A x \in Services \ {s} : queue'[x] = queue[x]
      BY <1>a, <2>e
    <3> QED
      BY <2>b, <2>e, <3>1, <3>2 DEF Waits, InQueue
  <2>f. queue' = queue => \A i : Waits(i) => Waits(i)'
    BY <2>b DEF Waits, InQueue
  <2>1. CASE Claim(s, t)
    <3> PICK j : j = Head(queue[s])
      OBVIOUS
    <3>1. /\ orphans' = orphans /\ queue[s] # <<>> /\ At(s, t, "idle")
          /\ queue' = [queue EXCEPT ![s] = Tail(@)]
      BY <2>1 DEF Claim, history
    <3>2. CASE ~ Claimable(j) /\ UNCHANGED <<rows, worker>>
      <4>1. WaitersKept
        BY <2>e, <3>1, <3>2 DEF WaitersKept, Claimable, Having
      <4>2. WorkersKept
        BY <3>1, <3>2 DEF WorkersKept, Having, Worked, WorksOn
      <4> QED
        BY <1>0, <2>b, <4>1, <4>2
    <3>3. CASE /\ Claimable(j) /\ SetStatus({j}, "running")
               /\ worker' = [worker EXCEPT ![s][t] = [pc |-> "claimed", job |-> j]]
      <4>1. WaitersKept
        BY <2>e, <3>1, <3>3 DEF WaitersKept, SetStatus, Having
      <4>2. ASSUME NEW i, Worked(i)
            PROVE  Worked(i)'
        <5>1. PICK x \in Services, y \in Threads : WorksOn(x, y, i)
          BY <4>2 DEF Worked
        <5>2. worker'[x][y] = worker[x][y]
          BY <2>a, <3>1, <3>3, <5>1 DEF WorksOn, At
        <5> QED
          BY <5>1, <5>2 DEF Worked, WorksOn
      <4>3. Worked(j)'
        <5>1. worker'[s][t] = [pc |-> "claimed", job |-> j]
          BY <2>a, <3>3
        <5> QED
          BY <5>1 DEF Worked, WorksOn, Pcs
      <4>4. \A i \in (Having({"running"}) \ orphans)' :
               i = j \/ i \in Having({"running"}) \ orphans
        BY <3>1, <3>3 DEF SetStatus, Having
      <4> QED
        BY <2>b, <4>1, <4>2, <4>3, <4>4 DEF WorkInHand, WaitersKept
    <3> QED
      BY <2>1, <3>2, <3>3 DEF Claim
  <2>2. CASE Load(s, t)
    <3>1. UNCHANGED <<rows, orphans, queue>>
      BY <2>2 DEF Load, table, history
    <3>2. WaitersKept
      BY <2>f, <3>1 DEF WaitersKept, Having
    <3>3. CASE worker[s][t].job \in DOMAIN rows /\ Goto(s, t, "ready")
      BY <1>0, <2>2, <2>b, <2>d, <3>1, <3>2, <3>3 DEF Load, At, Pcs, WorkersKept, Having
    <3>4. CASE worker[s][t].job \notin DOMAIN rows /\ Rest(s, t)
      BY <1>0, <1>a, <2>b, <2>c, <3>1, <3>2, <3>4 DEF WorkersKept, Having
    <3> QED
      BY <2>2, <3>3, <3>4 DEF Load
  <2>3. CASE BeginRun(s, t) \/ EndRun(s, t)
    <3>1. UNCHANGED <<rows, orphans, queue>>
      BY <2>3 DEF BeginRun, EndRun, table, history
    <3>2. WaitersKept
      BY <2>f, <3>1 DEF WaitersKept, Having
    <3>3. \A i : Worked(i) => Worked(i)'
      BY <2>3, <2>d DEF BeginRun, EndRun, At, Pcs
    <3> QED
      BY <1>0, <2>b, <3>1, <3>2, <3>3 DEF WorkersKept, Having
  <2>4. CASE Finish(s, t)
    <3> DEFINE j == worker[s][t].job
    <3>1. UNCHANGED <<orphans, queue>> /\ Goto(s, t, "pruning")
      BY <2>4 DEF Finish, history
    <3>2. \/ Finishable(j) /\ SetStatus({j}, Outcome(worker[s][t].pc))
          \/ ~ Finishable(j) /\ rows' = rows
      BY <2>4 DEF Finish
    <3>3. WaitersKept
      BY <2>f, <3>1, <3>2 DEF WaitersKept, SetStatus, Outcome, Having
    <3>4. \A i \in (Having({"running"}) \ orphans)' :
             i # j /\ i \in Ids /\ i \in Having({"running"}) \ orphans
      BY <1>a, <3>1, <3>2 DEF SetStatus, Outcome, Finishable, Having
    <3> QED
      BY <1>0, <2>b, <2>c, <3>1, <3>3, <3>4 DEF WorkersKept
  <2>5. CASE StoreRaises(s, t)
    <3>1. rows' = rows
      BY <2>5 DEF StoreRaises, table
    <3>2. CASE /\ queue[s] # <<>> /\ queue' = [queue EXCEPT ![s] = Tail(@)]
               /\ orphans' = orphans \cup {Head(queue[s])} /\ UNCHANGED worker
      <4>1. WaitersKept
        BY <2>e, <3>1, <3>2 DEF WaitersKept, Having
      <4>2. WorkersKept
        BY <3>1, <3>2 DEF WorkersKept, Having, Worked, WorksOn
      <4> QED
        BY <1>0, <2>b, <4>1, <4>2
    <3>3. CASE /\ Rest(s, t) \/ Goto(s, t, "pruning")
               /\ orphans' = orphans \cup {worker[s][t].job} /\ UNCHANGED queue
      <4>1. WaitersKept
        BY <2>f, <3>1, <3>3 DEF WaitersKept, Having
      <4>2. \A i \in (Having({"running"}) \ orphans)' :
               i # worker[s][t].job /\ i \in Ids /\ i \in Having({"running"}) \ orphans
        BY <1>a, <3>1, <3>3 DEF Having
      <4> QED
        BY <1>0, <2>b, <2>c, <3>3, <4>1, <4>2 DEF WorkersKept
    <3>4. CASE At(s, t, "pruning") /\ Rest(s, t) /\ UNCHANGED <<queue, orphans>>
      <4>1. WaitersKept
        BY <2>f, <3>1, <3>4 DEF WaitersKept, Having
      <4>2. ASSUME NEW i, Worked(i)
            PROVE  Worked(i)'
        <5>1. PICK x \in Services, y \in Threads : WorksOn(x, y, i)
          BY <4>2 DEF Worked
        <5>2. worker'[x][y] = worker[x][y]
          BY <2>a, <3>4, <5>1 DEF WorksOn, At, Rest
        <5> QED
          BY <5>1, <5>2 DEF Worked, WorksOn
      <4> QED
        BY <1>0, <2>b, <3>1, <3>4, <4>1, <4>2 DEF WorkersKept, Having
    <3> QED
      BY <2>5, <3>2, <3>3, <3>4 DEF StoreRaises
  <2>6. CASE Prune(s, t)
    <3>1. PruneTerminal /\ Rest(s, t) /\ UNCHANGED <<orphans, queue>> /\ At(s, t, "pruning")
      BY <2>6 DEF Prune, history
    <3>2. DOMAIN rows' \subseteq DOMAIN rows /\ \A i \in DOMAIN rows' : rows'[i] = rows[i]
      BY <3>1, PruneType DEF IType
    <3>3. WaitersKept
      BY <2>f, <3>1, <3>2 DEF WaitersKept, Having
    <3>4. ASSUME NEW i, Worked(i)
          PROVE  Worked(i)'
      <4>1. PICK x \in Services, y \in Threads : WorksOn(x, y, i)
        BY <3>4 DEF Worked
      <4>2. worker'[x][y] = worker[x][y]
        BY <2>a, <3>1, <4>1 DEF WorksOn, At, Rest
      <4> QED
        BY <4>1, <4>2 DEF Worked, WorksOn
    <3> QED
      BY <1>0, <2>b, <3>1, <3>2, <3>3, <3>4 DEF WorkersKept, Having
  <2> QED
    BY <1>4, <2>1, <2>2, <2>3, <2>4, <2>5, <2>6 DEF WorkerStep
<1>5. ASSUME NEW s \in Services, BootPrune(s)
      PROVE  Goal
  BY <1>a, <1>5 DEF BootPrune, Settled
<1>6. ASSUME NEW s \in Services, BootRecover(s)
      PROVE  Goal
  <2>1. SetStatus(Interrupted, "queued") /\ backlog'[s] = Recovered
    BY <1>a, <1>6 DEF BootRecover
  <2>2. Having({"running"})' = {} /\ Having({"queued"})' \subseteq Recovered
    BY <2>1 DEF SetStatus, Interrupted, Recovered, Having
  <2> QED
    BY <2>1, <2>2 DEF Waits
<1>7. ASSUME NEW s \in Services, BootSchedule(s)
      PROVE  Goal
  <2> PICK i \in backlog[s] : /\ queue' = [queue EXCEPT ![s] = Append(@, i)]
                              /\ backlog' = [backlog EXCEPT ![s] = @ \ {i}]
    BY <1>7 DEF BootSchedule
  <2>1. UNCHANGED <<rows, orphans, phase, handed, worker>>
    BY <1>7 DEF BootSchedule, table, history
  <2>2. ASSUME NEW j, Waits(j)
        PROVE  Waits(j)'
    <3>0. queue'[s] = Append(queue[s], i) /\ queue[s] \in Seq(Ids) /\ i \in Ids
      BY <1>a
    <3>1. InQueue(s, i)' /\ (InQueue(s, j) => InQueue(s, j)')
      <4>1. /\ \A p \in DOMAIN queue[s] : \E r \in DOMAIN queue'[s] : queue'[s][r] = queue[s][p]
            /\ \E r \in DOMAIN queue'[s] : queue'[s][r] = i
        BY <3>0, AppendKeeps
      <4> QED
        BY <4>1 DEF InQueue
    <3>2. \A x \in Services \ {s} : backlog'[x] = backlog[x] /\ queue'[x] = queue[x]
      BY <1>a
    <3>3. j \in backlog[s] => j = i \/ j \in backlog'[s]
      BY <1>a
    <3> QED
      BY <2>1, <2>2, <3>1, <3>2, <3>3 DEF Waits, InQueue
  <2> QED
    BY <1>0, <2>1, <2>2 DEF Settled, WaitersKept, WorkersKept, Having, Worked, WorksOn
<1>8. ASSUME NEW s \in Services, BootReady(s) \/ BeginClose(s)
      PROVE  Goal
  <2>1. UNCHANGED <<rows, orphans, handed, backlog, queue, worker>>
    BY <1>8 DEF BootReady, BeginClose, table, history
  <2>2. Settled
    BY <1>a, <1>8 DEF BootReady, BeginClose, Settled
  <2> QED
    BY <1>0, <2>1, <2>2 DEF WaitersKept, WorkersKept, Having, Waits, Worked, InQueue, WorksOn
<1>9. ASSUME NEW s \in Services, EndClose(s)
      PROVE  Goal
  <2>1. /\ UNCHANGED <<rows, orphans, handed, backlog>>
        /\ queue' = [queue EXCEPT ![s] = <<>>] /\ queue[s] = <<>>
        /\ worker' = [worker EXCEPT ![s] = [t \in Threads |-> Idle]]
        /\ \A t \in Threads : worker[s][t].pc = "idle"
    BY <1>9 DEF EndClose, Drained, At, table, history
  <2>2. Settled
    BY <1>a, <1>9 DEF EndClose, Settled
  <2>3. queue' = queue
    BY <1>a, <2>1
  <2>4. \A i : \A x \in Services, y \in Threads :
           WorksOn(x, y, i) => worker'[x][y] = worker[x][y]
    BY <1>a, <2>1 DEF WorksOn
  <2> QED
    BY <1>0, <2>1, <2>2, <2>3, <2>4
    DEF WaitersKept, WorkersKept, Having, Waits, Worked, InQueue, WorksOn
<1>10. ASSUME NEW s \in Services, Crash(s)
       PROVE  Goal
  BY <1>a, <1>10 DEF Crash, Settled
<1> QED
  BY <1>1, <1>2, <1>3, <1>4, <1>5, <1>6, <1>7, <1>8, <1>9, <1>10
  DEF Next, Boot, vars, table, history

\* Accepted work never waits for a start that may never come: while every
\* service is up, or once all have shut down cleanly, each queued job waits in
\* some service's memory and each running one has a worker, but for the jobs
\* whose store call failed.
THEOREM NothingIsStranded == Spec => []NothingStranded
<1>1. Init => MemoryOK /\ WorkInHand
  BY DEF Init, MemoryOK, WorkInHand, Having, At, Idle
<1>2. IType /\ IType' /\ MemoryOK /\ WorkInHand /\ [Next]_vars => MemoryOK' /\ WorkInHand'
  BY MemoryStep, HandStep
<1>3. IType /\ MemoryOK /\ WorkInHand => NothingStranded
  <2> SUFFICES ASSUME IType, MemoryOK, WorkInHand
               PROVE  NoJobStranded /\ DrainedShutdown
    BY DEF NothingStranded
  <2>1. NoJobStranded
    BY DEF NoJobStranded, MemoryOK, WorkInHand, Settled, Waits, Worked, InQueue
  <2>2. DrainedShutdown
    <3> SUFFICES ASSUME \A s \in Services : phase[s] = "closed"
                 PROVE  Pending \subseteq orphans
      BY DEF DrainedShutdown
    <3>1. \A i : ~ Waits(i) /\ ~ Worked(i)
      <4>1. \A s \in Services : /\ handed[s] = {} /\ backlog[s] = {} /\ queue[s] = <<>>
                                /\ \A t \in Threads : worker[s][t].pc = "idle"
        BY DEF MemoryOK, At
      <4>2. \A s \in Services : DOMAIN queue[s] = {}
        BY <4>1
      <4> QED
        BY <4>1, <4>2 DEF Waits, Worked, InQueue, WorksOn
    <3>2. Settled
      BY DEF Settled
    <3> QED
      BY <3>1, <3>2 DEF WorkInHand, Pending, Having
  <2> QED
    BY <2>1, <2>2
<1> QED
  BY <1>1, <1>2, <1>3, IsType, PTL DEF Spec

-----------------------------------------------------------------------------
(* The analysis job service implements the ledger of JobLedger: every step *)
(* of every service, worker, crash and restart is one ledger operation or  *)
(* none.                                                                   *)

\* What the mapping of AnalysisJobs makes of a job.
Fate(i) == CASE i \in DOMAIN rows -> rows[i]
             [] i \in DOMAIN inserted \ DOMAIN rows -> "forgotten"
             [] OTHER -> "unknown"
Fates == [i \in Ids |-> Fate(i)]

\* A job ends once: its row is terminal or gone from then on.
EndedOnce ==
    /\ \A p, q \in DOMAIN ended : ended[p] = ended[q] => p = q
    /\ \A p \in DOMAIN ended :
          /\ ended[p] \in DOMAIN inserted
          /\ ended[p] \in DOMAIN rows => rows[ended[p]] \in Terminal

-----------------------------------------------------------------------------
(* Facts about the operators.                                              *)

LEMMA FateOf ==
    ASSUME NEW i \in Ids
    PROVE  /\ Fates[i] = Fate(i)
           /\ i \in DOMAIN rows => Fate(i) = rows[i]
           /\ i \in DOMAIN inserted \ DOMAIN rows => Fate(i) = "forgotten"
           /\ i \notin DOMAIN inserted /\ i \notin DOMAIN rows => Fate(i) = "unknown"
BY DEF Fates, Fate

\* The ledger's jobs in a set of statuses are the table's rows in it.
LEMMA WithIsHaving ==
    ASSUME IType, NEW S \in SUBSET Statuses
    PROVE  Ledger!With(S) = Having(S)
<1>1. "forgotten" \notin S /\ "unknown" \notin S
  BY DEF Statuses, Terminal
<1>2. Ledger!With(S) = {i \in Ids : Fates[i] \in S}
  BY DEF Ledger!With, Ledger!Ids, Fates, Fate, Ids
<1>3. \A i \in Ids : Fates[i] \in S <=> i \in DOMAIN rows /\ rows[i] \in S
  BY <1>1, FateOf
<1>4. DOMAIN rows \subseteq Ids
  BY InsertedDomain DEF IType
<1> QED
  BY <1>2, <1>3, <1>4 DEF Having

\* The ledger counts with its own instance of FiniteSets.
LEMMA SameCount ==
    ASSUME NEW S
    PROVE  Ledger!Cardinality(S) = Cardinality(S)
BY DEF Cardinality, Ledger!Cardinality

-----------------------------------------------------------------------------
LEMMA OnceStep ==
    ASSUME IType, EndedOnce, [Next]_vars
    PROVE  EndedOnce'
<1>a. DOMAIN inserted = 1 .. Len(inserted) /\ Len(inserted) \in Nat
      /\ DOMAIN rows \subseteq DOMAIN inserted
  BY InsertedDomain DEF IType, TypeOK
<1>1. ASSUME ended' = ended, inserted' = inserted,
             \A i \in DOMAIN rows' : i \in DOMAIN rows
                 /\ (rows[i] \in Terminal => rows'[i] = rows[i])
      PROVE  EndedOnce'
  BY <1>1 DEF EndedOnce
<1>2. CASE UNCHANGED table
  BY <1>1, <1>2 DEF table
<1>3. ASSUME NEW k \in Keys \cup {NoKey}, NEW r \in Requests, Inserts(k, r)
      PROVE  EndedOnce'
  <2>1. DOMAIN inserted' = 1 .. Len(inserted) + 1
    BY <1>3, AppendProperties, LenProperties DEF Inserts, IType, TypeOK
  <2>2. \A i \in DOMAIN inserted :
           /\ i \in DOMAIN inserted'
           /\ i \in DOMAIN rows' => i \in DOMAIN rows /\ rows'[i] = rows[i]
    BY <1>a, <1>3, <2>1 DEF Inserts
  <2>3. ended' = ended
    BY <1>3 DEF Inserts
  <2> QED
    BY <2>2, <2>3 DEF EndedOnce
<1>4. ASSUME NEW i, Claims(i)
      PROVE  EndedOnce'
  BY <1>1, <1>4 DEF Claims, Claimable, SetStatus, Having, Terminal
<1>5. ASSUME NEW i \in Ids, NEW st \in Terminal, Ends(i, st)
      PROVE  EndedOnce'
  <2>1. ended \in Seq(Ids) /\ ended' = Append(ended, i)
    BY <1>5 DEF Ends, IType, TypeOK
  <2>2. /\ DOMAIN ended = 1 .. Len(ended) /\ Len(ended) \in Nat
        /\ DOMAIN ended' = 1 .. Len(ended) + 1
        /\ ended'[Len(ended) + 1] = i
        /\ \A p \in 1 .. Len(ended) : ended'[p] = ended[p]
    BY <2>1, AppendProperties, LenProperties
  <2>3. \A p \in DOMAIN ended : ended[p] # i
    BY <1>5 DEF Ends, Finishable, Having, Terminal, EndedOnce
  <2>4. \A p, q \in DOMAIN ended' : ended'[p] = ended'[q] => p = q
    BY <2>2, <2>3 DEF EndedOnce
  <2>5. /\ i \in DOMAIN inserted /\ DOMAIN rows' = DOMAIN rows
        /\ inserted' = inserted /\ rows'[i] = st
        /\ \A j \in DOMAIN rows : j # i => rows'[j] = rows[j]
    BY <1>a, <1>5 DEF Ends, Finishable, SetStatus, Having
  <2>6. \A p \in DOMAIN ended : /\ ended[p] \in DOMAIN inserted'
                                /\ ended[p] \in DOMAIN rows' => rows'[ended[p]] \in Terminal
    BY <2>3, <2>5 DEF EndedOnce
  <2>7. \A p \in DOMAIN ended' : /\ ended'[p] \in DOMAIN inserted'
                                 /\ ended'[p] \in DOMAIN rows' => rows'[ended'[p]] \in Terminal
    BY <2>2, <2>5, <2>6
  <2> QED
    BY <2>4, <2>7 DEF EndedOnce
<1>6. CASE TakesBack
  BY <1>1, <1>6 DEF TakesBack, Interrupted, SetStatus, Having, Terminal
<1>7. CASE Forgets
  BY <1>1, <1>7, PruneType DEF Forgets, IType
<1> QED
  BY <1>2, <1>3, <1>4, <1>5, <1>6, <1>7, EveryTableStep DEF TableStep

LEMMA IsEndedOnce == Spec => []EndedOnce
<1>1. Init => EndedOnce
  BY DEF Init, EndedOnce
<1>2. IType /\ EndedOnce /\ [Next]_vars => EndedOnce'
  BY OnceStep
<1> QED
  BY <1>1, <1>2, IsType, PTL DEF Spec

\* Pruning leaves MaxTerminal ended rows: those that ended after the newest row
\* it takes are not surplus themselves.
LEMMA EnoughAreKept ==
    ASSUME IType, EndedOK, EndedOnce, Surplus # {}
    PROVE  Cardinality(Having(Terminal) \ Surplus) >= MaxTerminal
<1> DEFINE T == {p \in DOMAIN ended : ended[p] \in Surplus}
<1>1. DOMAIN ended = 1 .. Len(ended) /\ Len(ended) \in Nat
  BY LenProperties DEF IType, TypeOK
<1>2. T # {}
  BY DEF EndedOK, Surplus
<1>3. PICK p \in T : \A q \in T : q <= p
  BY <1>1, <1>2, GreatestOf
<1> DEFINE Later == {j \in Having(Terminal) : EndedAfter(j, ended[p])}
<1>4. Cardinality(Later) >= MaxTerminal
  BY <1>3 DEF Surplus
<1>5. Later \subseteq Having(Terminal) \ Surplus
  <2> SUFFICES ASSUME NEW j \in Later, j \in Surplus
               PROVE  FALSE
    OBVIOUS
  <2>1. PICK x, y \in DOMAIN ended : ended[x] = j /\ ended[y] = ended[p] /\ x > y
    BY DEF EndedAfter
  <2>2. y = p
    BY <1>3, <2>1 DEF EndedOnce
  <2>3. x \in T
    BY <2>1
  <2> QED
    BY <1>1, <1>3, <2>1, <2>2, <2>3
<1>6. IsFiniteSet(Having(Terminal))
  BY HavingFinite DEF IType
<1>7. /\ IsFiniteSet(Having(Terminal) \ Surplus)
      /\ Cardinality(Later) <= Cardinality(Having(Terminal) \ Surplus)
  <2>1. IsFiniteSet(Having(Terminal) \ Surplus)
    BY <1>6, FS_Subset
  <2> QED
    BY <1>5, <2>1, FS_Subset
<1>8. /\ Cardinality(Later) \in Nat
      /\ Cardinality(Having(Terminal) \ Surplus) \in Nat
  <2>1. IsFiniteSet(Later)
    BY <1>5, <1>7, FS_Subset
  <2> QED
    BY <1>7, <2>1, FS_CardinalityType
<1> QED
  BY <1>4, <1>7, <1>8, LimitsAssumption

-----------------------------------------------------------------------------
(* Each statement of the store is a ledger operation.                      *)

LEMMA InsertAccepts ==
    ASSUME IType, NEW k \in Keys \cup {NoKey}, NEW r \in Requests, Inserts(k, r)
    PROVE  Ledger!Accept(k, r)
<1> PICK n : n = Len(inserted) + 1
  OBVIOUS
<1>a. DOMAIN inserted = 1 .. Len(inserted) /\ Len(inserted) \in Nat
      /\ DOMAIN rows \subseteq DOMAIN inserted
  BY InsertedDomain DEF IType, TypeOK
<1>1. Cardinality(Ledger!With({"queued", "running"})) < MaxPending
  <2>1. Ledger!With({"queued", "running"}) = Pending
    BY WithIsHaving DEF Pending, Statuses
  <2>2. Cardinality(Pending) \in Nat /\ ~ Full
    BY <1>a, HavingFinite DEF Pending, IType, Inserts
  <2> QED
    BY <2>1, <2>2, LimitsAssumption DEF Full
<1>2. k # NoKey => \A i \in Ledger!Known : inserted[i].key # k
  <2>1. Ledger!Known = Having(Statuses)
    BY WithIsHaving DEF Ledger!Known, Ledger!Terminal, Statuses, Terminal
  <2>2. k # NoKey => Holders(k) = {}
    BY DEF Inserts, Unheld
  <2> QED
    BY <2>1, <2>2 DEF Having, Holders
<1>3. Fates' = [Fates EXCEPT ![n] = "queued"]
  <2>1. DOMAIN inserted' = 1 .. Len(inserted) + 1
    BY AppendProperties, LenProperties DEF Inserts, IType, TypeOK
  <2>2. n \in DOMAIN rows' /\ rows'[n] = "queued"
    BY DEF Inserts
  <2>3. \A i \in Ids \ {n} : Fate(i)' = Fate(i)
    BY <1>a, <2>1 DEF Fate, Inserts
  <2>4. Fate(n)' = "queued"
    BY <2>1, <2>2 DEF Fate
  <2> QED
    BY <2>3, <2>4 DEF Fates
<1> QED
  BY <1>1, <1>2, <1>3, SameCount DEF Ledger!Accept, Inserts, Fates, Fate

LEMMA ClaimStarts ==
    ASSUME IType, NEW i \in Ids, Claims(i)
    PROVE  Ledger!Start(i)
<1>1. Fates[i] = "queued"
  BY FateOf DEF Claims, Claimable, Having
<1>2. Fates' = [Fates EXCEPT ![i] = "running"]
  BY DEF Fates, Fate, Claims, Claimable, SetStatus, Having
<1> QED
  BY <1>1, <1>2 DEF Ledger!Start, Claims, Fates, Fate

LEMMA FinishEnds ==
    ASSUME IType, NEW i \in Ids, NEW st \in Terminal, Ends(i, st)
    PROVE  Ledger!End(i)
<1>1. Fates[i] = "running"
  BY FateOf DEF Ends, Finishable, Having
<1>2. Fates' = [Fates EXCEPT ![i] = st]
  BY DEF Fates, Fate, Ends, Finishable, SetStatus, Having
<1> QED
  BY <1>1, <1>2 DEF Ledger!End, Ledger!Terminal, Terminal, Ends, Fates, Fate

LEMMA RecoveryRequeues ==
    ASSUME IType, TakesBack
    PROVE  Ledger!Requeue
<1>1. \A i \in Ids : Fate(i)' = IF Fate(i) = "running" THEN "queued" ELSE Fate(i)
  BY DEF Fate, TakesBack, Interrupted, SetStatus, Having
<1>2. Fates' = [i \in Ids |-> IF Fates[i] = "running" THEN "queued" ELSE Fates[i]]
  BY <1>1 DEF Fates
<1> QED
  BY <1>2 DEF Ledger!Requeue, Ledger!Ids, Ids, TakesBack, Fates, Fate

LEMMA PruningForgets ==
    ASSUME IType, EndedOK, EndedOnce, Forgets, NEW S, S = Surplus, S # {}
    PROVE  S \in SUBSET Ledger!With(Ledger!Terminal) /\ Ledger!Forget(S)
<1>1. Ledger!With(Terminal) = Having(Terminal)
  BY WithIsHaving DEF Statuses
<1>2. S \subseteq Having(Terminal)
  BY DEF Surplus
<1>3. Cardinality(Having(Terminal) \ S) >= MaxTerminal
  BY EnoughAreKept
<1>4. \A i \in Ids : Fate(i)' = IF i \in S THEN "forgotten" ELSE Fate(i)
  <2>1. /\ DOMAIN rows' = DOMAIN rows \ S
        /\ \A i \in DOMAIN rows' : rows'[i] = rows[i]
        /\ inserted' = inserted
    BY PruneType DEF Forgets, IType
  <2>2. S \subseteq DOMAIN rows /\ DOMAIN rows \subseteq DOMAIN inserted
    BY <1>2 DEF Having, IType, TypeOK
  <2> QED
    BY <2>1, <2>2 DEF Fate
<1>5. Fates' = [i \in Ids |-> IF i \in S THEN "forgotten" ELSE Fates[i]]
  BY <1>4 DEF Fates
<1>6. Ledger!Terminal = Terminal
  BY DEF Ledger!Terminal, Terminal
<1>7. /\ S \subseteq Ledger!With(Ledger!Terminal)
      /\ Cardinality(Ledger!With(Ledger!Terminal) \ S) >= MaxTerminal
  BY <1>1, <1>2, <1>3, <1>6
<1>8. Ledger!Forget(S)
  BY <1>5, <1>7, SameCount DEF Ledger!Forget, Ledger!Ids, Ids, Forgets, Fates, Fate
<1> QED
  BY <1>7, <1>8

LEMMA LedgerStep ==
    ASSUME IType, EndedOK, EndedOnce, [Next]_vars
    PROVE  [Ledger!Next]_Ledger!vars
<1>1. ASSUME UNCHANGED <<inserted, rows>>
      PROVE  UNCHANGED Ledger!vars
  BY <1>1 DEF Ledger!vars
<1>2. ASSUME NEW k \in Keys \cup {NoKey}, NEW r \in Requests, Inserts(k, r)
      PROVE  Ledger!Next
  BY <1>2, InsertAccepts DEF Ledger!Next
<1>3. ASSUME NEW i \in Ids, Claims(i) \/ \E st \in Terminal : Ends(i, st)
      PROVE  Ledger!Next
  BY <1>3, ClaimStarts, FinishEnds DEF Ledger!Next, Ledger!Ids, Ids
<1>4. CASE TakesBack
  BY <1>4, RecoveryRequeues DEF Ledger!Next
<1>5. CASE Forgets
  <2>1. CASE Surplus = {}
    <3>1. DOMAIN rows' = DOMAIN rows /\ \A i \in DOMAIN rows' : rows'[i] = rows[i]
      BY <1>5, <2>1, PruneType DEF Forgets, IType
    <3>2. rows' = rows
      BY <1>5, <2>1, <3>1 DEF Forgets, PruneTerminal, IType, TypeOK
    <3> QED
      BY <1>1, <1>5, <3>2 DEF Forgets
  <2>2. CASE Surplus # {}
    <3> PICK S : S = Surplus
      OBVIOUS
    <3>1. S \in SUBSET Ledger!With(Ledger!Terminal) /\ Ledger!Forget(S)
      BY <1>5, <2>2, PruningForgets
    <3> QED
      BY <3>1 DEF Ledger!Next
  <2> QED
    BY <2>1, <2>2
<1> QED
  BY <1>1, <1>2, <1>3, <1>4, <1>5, EveryTableStep DEF TableStep, table

\* The service implements the ledger, for any number of processes, threads,
\* requests, crashes and store errors: a caller who only sees the table cannot
\* tell the racing services from one sequential ledger.
THEOREM ServiceIsALedger == Spec => ImplementsLedger
<1>1. Init => Ledger!Init
  BY DEF Init, Ledger!Init, Ledger!Ids, Ids
<1>2. IType /\ EndedOK /\ EndedOnce /\ [Next]_vars => [Ledger!Next]_Ledger!vars
  BY LedgerStep
<1> QED
  BY <1>1, <1>2, IsType, IsEnded, IsEndedOnce, PTL DEF Spec, Ledger!Spec, ImplementsLedger

=============================================================================
