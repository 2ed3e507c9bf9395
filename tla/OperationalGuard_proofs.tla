------------------------- MODULE OperationalGuard_proofs -------------------------
(***************************************************************************)
(* Theorems about OperationalGuard, for any number of processes, any       *)
(* limits, window and day length, and any number of timeouts and crashes.  *)
(***************************************************************************)
EXTENDS OperationalGuard, FiniteSetTheorems, TLAPS

\* A process that waits for a lock read the clock at most MaxWait seconds ago.
Waiting == {p \in Procs : proc[p].pc \in {"rate", "cost"}}
ClockOK == \A p \in Waiting : proc[p].seen <= now /\ now <= proc[p].seen + MaxWait

LEMMA StateType ==
    /\ Rest \in State
    /\ \A w \in State : /\ w.pc \in Pcs /\ w.seen \in 0 .. MaxTime
                        /\ w.slot \in 0 .. MaxAdmits /\ w.amount \in Nat
<1>1. Rest \in State
  BY GuardBounds DEF Rest, State, Pcs, Times
<1>2. ASSUME NEW w \in State
      PROVE  /\ w.pc \in Pcs /\ w.seen \in 0 .. MaxTime
             /\ w.slot \in 0 .. MaxAdmits /\ w.amount \in Amounts \cup {0}
  BY DEF State, Times
<1>3. Amounts \cup {0} \subseteq Nat
  BY GuardAssumption
<1> QED
  BY <1>1, <1>2, <1>3, Zenon

LEMMA CostNextType ==
    ASSUME TypeOK, NEW p \in Procs
    PROVE  /\ CostNext(p) \in State
           /\ CostNext(p).pc = "cost"
           /\ CostNext(p).seen = now
           /\ CostNext(p).slot = proc[p].slot
<1>1. proc[p] \in State /\ now \in Times
  BY DEF TypeOK
<1> QED
  BY <1>1 DEF CostNext, State, Pcs

LEMMA DayType == \A t \in Times : Day(t) \in Days /\ Day(t) \in Nat
BY GuardAssumption, GuardBounds DEF Day, Days, Times

LEMMA InitType == Init => TypeOK /\ ClockOK
<1> SUFFICES ASSUME Init
             PROVE  TypeOK /\ ClockOK
  OBVIOUS
<1>1. 0 \in Times
  BY GuardBounds DEF Times
<1>2. TypeOK
  <2>1. late \in BOOLEAN
    BY DEF Init
  <2> QED
    BY <1>1, <2>1, StateType, DayType, GuardBounds DEF Init, TypeOK
<1>3. ClockOK
  BY DEF Init, ClockOK, Waiting, Rest
<1> QED
  BY <1>2, <1>3

LEMMA TypeStep == TypeOK /\ [Next]_vars => TypeOK'
<1> SUFFICES ASSUME TypeOK, [Next]_vars
             PROVE  TypeOK'
  OBVIOUS
<1> USE GuardAssumption, GuardBounds DEF At, Stop, Unstart
<1>1. ASSUME NEW p \in Procs, Begin(p)
      PROVE  TypeOK'
  BY <1>1 DEF TypeOK, Begin, Estimates, State, Pcs, Times
<1>2. ASSUME NEW p \in Procs, Acquire(p)
      PROVE  TypeOK'
  <2> DEFINE e == [n |-> admits + 1, ts |-> proc[p].seen, at |-> now]
             w == [CostNext(p) EXCEPT !.slot = admits + 1]
  <2>1. admits + 1 \in 1 .. MaxAdmits
    BY <1>2 DEF TypeOK, Acquire
  <2>2. proc[p] \in State
    BY DEF TypeOK
  <2>3. e \in Slot
    BY <2>1, <2>2, StateType DEF TypeOK, Slot, Times
  <2>4. w \in State
    BY <2>1, CostNextType DEF State
  <2>5. stamps' \in SUBSET Slot /\ starts' \in SUBSET Slot
    BY <1>2, <2>3 DEF TypeOK, Acquire, Kept
  <2>6. proc' \in [Procs -> State]
    BY <1>2, <2>4 DEF TypeOK, Acquire
  <2> QED
    BY <1>2, <2>1, <2>5, <2>6 DEF TypeOK, Acquire
<1>3. ASSUME NEW p \in Procs, RateRefuses(p) \/ EndRun(p)
      PROVE  TypeOK'
  BY <1>3, StateType DEF TypeOK, RateRefuses, EndRun
<1>4. ASSUME NEW p \in Procs, RateDisabled(p)
      PROVE  TypeOK'
  BY <1>4, CostNextType DEF TypeOK, RateDisabled
<1>5. ASSUME NEW p \in Procs, Reserve(p)
      PROVE  TypeOK'
  <2>1. proc[p] \in State /\ proc[p].amount \in Nat /\ proc[p].seen \in Times
    BY StateType DEF TypeOK, Times
  <2>2. Day(proc[p].seen) \in Days /\ SpentOn(Day(proc[p].seen)) \in Nat
    BY <2>1, DayType DEF TypeOK, SpentOn
  <2>3. ledger' \in [day : Days, spent : Nat]
    BY <1>5, <2>1, <2>2 DEF Reserve
  <2>4. spent' \in [Days -> Nat]
    BY <1>5, <2>1, <2>2 DEF TypeOK, Reserve
  <2>5. [proc[p] EXCEPT !.pc = "run"] \in State
    BY <2>1 DEF State, Pcs
  <2> QED
    BY <1>5, <2>3, <2>4, <2>5 DEF TypeOK, Reserve
<1>6. ASSUME NEW p \in Procs, CostRefuses(p) \/ CostDisabled(p)
      PROVE  TypeOK'
  <2>1. \A pc \in Pcs : [proc[p] EXCEPT !.pc = pc] \in State
    BY DEF TypeOK, State
  <2> QED
    BY <1>6, <2>1 DEF TypeOK, CostRefuses, CostDisabled, Pcs
<1>7. ASSUME NEW p \in Procs, Release(p)
      PROVE  TypeOK'
  BY <1>7, StateType DEF TypeOK, Release
<1>8. ASSUME NEW p \in Procs, LockTimeout(p)
      PROVE  TypeOK'
  <2>1. [proc[p] EXCEPT !.pc = "rollback"] \in State
    BY DEF TypeOK, State, Pcs
  <2> QED
    BY <1>8, <2>1, StateType DEF TypeOK, LockTimeout
<1>9. ASSUME NEW p \in Procs, Crash(p)
      PROVE  TypeOK'
  BY <1>9, StateType DEF TypeOK, Crash
<1>10. CASE Tick
  BY <1>10 DEF TypeOK, Tick, Times
<1>11. CASE UNCHANGED vars
  BY <1>11 DEF TypeOK, vars
<1> QED
  BY <1>1, <1>2, <1>3, <1>4, <1>5, <1>6, <1>7, <1>8, <1>9, <1>10, <1>11 DEF Next

\* Type correctness of the guard's two files and of every process in before_run.
THEOREM TypeCorrect == Spec => []TypeOK
<1>1. TypeOK /\ [Next]_vars => TypeOK'
  BY TypeStep
<1> QED
  BY <1>1, InitType, PTL DEF Spec

LEMMA ClockStep == TypeOK /\ ClockOK /\ [Next]_vars => ClockOK'
<1> SUFFICES ASSUME TypeOK, ClockOK, [Next]_vars
             PROVE  ClockOK'
  OBVIOUS
<1> USE GuardAssumption, GuardBounds DEF At, Stop, Rest, Waiting, ClockOK, TypeOK
<1>1. now \in Nat /\ \A p \in Procs : proc[p] \in State
  BY DEF Times
<1>2. ASSUME NEW p \in Procs, Begin(p)
      PROVE  ClockOK'
  BY <1>1, <1>2 DEF Begin
<1>3. ASSUME NEW p \in Procs, Acquire(p) \/ RateDisabled(p)
      PROVE  ClockOK'
  <2>1. proc'[p].seen = now /\ now' = now
    <3>1. [CostNext(p) EXCEPT !.slot = admits + 1].seen = now
      BY CostNextType DEF State
    <3> QED
      BY <1>3, <3>1, CostNextType DEF Acquire, RateDisabled
  <2>2. \A q \in Procs \ {p} : proc'[q] = proc[q]
    BY <1>3 DEF Acquire, RateDisabled
  <2> QED
    BY <1>1, <2>1, <2>2
<1>4. ASSUME NEW p \in Procs,
             RateRefuses(p) \/ Release(p) \/ EndRun(p) \/ Crash(p)
      PROVE  ClockOK'
  BY <1>4 DEF RateRefuses, Release, EndRun, Crash
<1>5. ASSUME NEW p \in Procs, Reserve(p) \/ CostRefuses(p) \/ CostDisabled(p)
      PROVE  ClockOK'
  <2>1. proc'[p].pc \notin {"rate", "cost"} /\ now' = now
    BY <1>1, <1>5 DEF Reserve, CostRefuses, CostDisabled, State
  <2>2. \A q \in Procs \ {p} : proc'[q] = proc[q]
    BY <1>5 DEF Reserve, CostRefuses, CostDisabled
  <2> QED
    BY <2>1, <2>2
<1>6. ASSUME NEW p \in Procs, LockTimeout(p)
      PROVE  ClockOK'
  <2>1. proc'[p].pc \notin {"rate", "cost"} /\ now' = now
    BY <1>1, <1>6 DEF LockTimeout, State
  <2>2. \A q \in Procs \ {p} : proc'[q] = proc[q]
    BY <1>6 DEF LockTimeout
  <2> QED
    BY <2>1, <2>2
<1>7. CASE Tick
  <2>1. \A p \in Procs : proc[p].seen \in Nat
    BY <1>1, StateType
  <2> QED
    BY <1>1, <1>7, <2>1 DEF Tick
<1>8. CASE UNCHANGED vars
  BY <1>8 DEF vars
<1> QED
  BY <1>2, <1>3, <1>4, <1>5, <1>6, <1>7, <1>8 DEF Next

LEMMA ClockIsOK == Spec => [](TypeOK /\ ClockOK)
<1>1. TypeOK /\ ClockOK /\ [Next]_vars => (TypeOK /\ ClockOK)'
  BY TypeStep, ClockStep
<1> QED
  BY <1>1, InitType, PTL DEF Spec

-----------------------------------------------------------------------------
(* The daily budget.                                                       *)

\* The file never runs ahead of the clock, says what was spent on its day, and
\* nothing was spent on a day after it.
LedgerOK ==
    /\ ledger.day <= Day(now)
    /\ spent[ledger.day] = ledger.spent
    /\ \A d \in Days : d > ledger.day => spent[d] = 0

LEMMA DayGrows == \A t, u \in Times : t <= u => Day(t) <= Day(u)
BY GuardAssumption, GuardBounds DEF Day, Times

\* The one step that spends: the amount is booked on today.
LEMMA ReserveKeeps ==
    ASSUME TypeOK, LedgerOK, BudgetHolds,
           NEW p \in Procs, Reserve(p), ~ late'
    PROVE  LedgerOK' /\ BudgetHolds'
<1> DEFINE d == Day(now)
           a == proc[p].amount
<1>1. /\ now \in Times /\ now \in Nat /\ a \in Nat /\ proc[p].seen \in Nat
      /\ d \in Days /\ d \in Nat
      /\ ledger.day \in Days /\ ledger.day \in Nat /\ ledger.spent \in Nat
      /\ \A x \in Days : x \in Nat
  <2>1. now \in Times /\ proc[p] \in State /\ ledger \in [day : Days, spent : Nat]
    BY DEF TypeOK
  <2>2. \A x \in Days : x \in Nat
    BY DayType DEF Days
  <2>3. now \in Nat /\ a \in Nat /\ proc[p].seen \in Nat
    BY <2>1, StateType DEF Times
  <2> QED
    BY <2>1, <2>2, <2>3, DayType
<1>2. Day(proc[p].seen) = d
  BY DEF Reserve
<1>3. /\ ledger' = [day |-> d, spent |-> SpentOn(d) + a]
      /\ spent' = [spent EXCEPT ![d] = @ + a]
      /\ now' = now
      /\ SpentOn(d) + a <= Limit
  BY <1>2 DEF Reserve, Fits
<1>4. SpentOn(d) = spent[d]
  <2>1. CASE ledger.day = d
    BY <2>1 DEF LedgerOK, SpentOn
  <2>2. CASE ledger.day # d
    BY <2>2, <1>1 DEF LedgerOK, SpentOn
  <2> QED
    BY <2>1, <2>2
<1>5. \A x \in Days : spent'[x] = IF x = d THEN spent[d] + a ELSE spent[x]
  BY <1>3 DEF TypeOK
<1>6. ledger'.day = d /\ ledger'.spent = spent[d] + a /\ Day(now)' = d
  BY <1>3, <1>4 DEF Day
<1>7. LedgerOK'
  BY <1>1, <1>5, <1>6 DEF LedgerOK
<1>8. BudgetHolds'
  BY <1>3, <1>4, <1>5 DEF BudgetHolds
<1> QED
  BY <1>7, <1>8

BudgetOK == LedgerOK /\ BudgetHolds

LEMMA BudgetStep ==
    TypeOK /\ (~ late => BudgetOK) /\ [Next]_vars => (~ late => BudgetOK)'
<1> SUFFICES ASSUME TypeOK, ~ late => BudgetOK, [Next]_vars, ~ late'
             PROVE  BudgetOK'
  OBVIOUS
<1>1. ASSUME NEW p \in Procs, Reserve(p)
      PROVE  BudgetOK'
  <2>1. ~ late
    BY <1>1 DEF Reserve
  <2> QED
    BY <1>1, <2>1, ReserveKeeps DEF BudgetOK
<1>2. ASSUME NEW p \in Procs,
             \/ Begin(p) \/ Acquire(p) \/ RateRefuses(p) \/ RateDisabled(p)
             \/ CostRefuses(p) \/ CostDisabled(p) \/ Release(p) \/ EndRun(p)
             \/ LockTimeout(p) \/ Crash(p)
      PROVE  BudgetOK'
  <2>1. UNCHANGED <<now, ledger, spent, late>>
    BY <1>2 DEF Begin, Acquire, RateRefuses, RateDisabled, CostRefuses,
                CostDisabled, Release, EndRun, LockTimeout, Crash
  <2> QED
    BY <2>1 DEF BudgetOK, LedgerOK, BudgetHolds, Day
<1>3. CASE Tick
  <2>1. /\ UNCHANGED <<ledger, spent, late>>
        /\ now \in Times /\ now' \in Times /\ now <= now'
    BY <1>3, GuardBounds DEF Tick, TypeOK, Times
  <2>2. Day(now) <= Day(now') /\ Day(now) \in Nat /\ Day(now') \in Nat
    BY <2>1, DayGrows, DayType
  <2>3. ledger.day \in Nat
    BY DayType DEF TypeOK, Days
  <2>4. BudgetOK
    BY <2>1
  <2>5. LedgerOK'
    BY <2>1, <2>2, <2>3, <2>4 DEF BudgetOK, LedgerOK, Day
  <2>6. BudgetHolds'
    BY <2>1, <2>4 DEF BudgetOK, BudgetHolds
  <2> QED
    BY <2>5, <2>6 DEF BudgetOK
<1>4. CASE UNCHANGED vars
  BY <1>4 DEF vars, BudgetOK, LedgerOK, BudgetHolds, Day
<1> QED
  BY <1>1, <1>2, <1>3, <1>4 DEF Next

\* What is reserved for a day never exceeds the limit (DailyCostLedger.reserve)
\* until a date computed before midnight is booked after it, whatever refusals,
\* timeouts and crashes there are and however long processes wait.
THEOREM BudgetUntilLate == Spec => []BudgetHoldsUntilLate
<1>1. Init => BudgetOK
  <2> SUFFICES ASSUME Init
               PROVE  BudgetOK
    OBVIOUS
  <2>1. 0 \in Times
    BY GuardBounds DEF Times
  <2>2. Day(0) \in Days /\ Day(0) \in Nat
    BY <2>1, DayType
  <2> QED
    BY <2>2, GuardAssumption DEF Init, BudgetOK, LedgerOK, BudgetHolds
<1>2. (~ late => BudgetOK) => BudgetHoldsUntilLate
  BY DEF BudgetOK, BudgetHolds, BudgetHoldsUntilLate
<1> QED
  BY <1>1, <1>2, BudgetStep, TypeCorrect, PTL DEF Spec

-----------------------------------------------------------------------------
(* The run limiter.                                                        *)

\* The runs let through that the shortened window still counts.
Recent == {e \in starts : e.at + Window > now + MaxWait}

\* Slots are numbered by admits, their timestamp is at most MaxWait old, and the
\* file has every recent one.  A process in the rollback has no run to its name.
SlotsOK ==
    /\ \A e \in stamps \cup starts : e.n <= admits
    /\ \A e \in starts : e.at <= now /\ e.ts <= e.at /\ e.at <= e.ts + MaxWait
    /\ Recent \subseteq stamps
    /\ \A p \in Procs : proc[p].slot <= admits
    /\ \A p \in Procs : proc[p].pc = "rollback" => \A e \in starts : e.n # proc[p].slot

SlotsFinite == IsFiniteSet(stamps) /\ IsFiniteSet(starts)

RateOK == SlotsOK /\ SlotsFinite /\ RateHoldsUpToWait

LEMMA SlotType ==
    \A e \in Slot : e.n \in Nat \ {0} /\ e.ts \in Nat /\ e.at \in Nat
BY GuardBounds DEF Slot, Times

\* Fewer recent runs at a later time: the bound stays.
LEMMA FewerRecent ==
    ASSUME TypeOK, TypeOK', RateOK, starts' \subseteq starts, now <= now'
    PROVE  Recent' \subseteq Recent /\ RateHoldsUpToWait'
<1>1. now \in Nat /\ now' \in Nat /\ \A e \in starts : e.at \in Nat
  BY SlotType DEF TypeOK, Times
<1>2. Recent' \subseteq Recent
  BY <1>1, GuardAssumption DEF Recent
<1>3. IsFiniteSet(Recent) /\ Cardinality(Recent) \in Nat
  BY FS_Subset, FS_CardinalityType DEF RateOK, SlotsFinite, Recent
<1>4. Cardinality(Recent') <= Cardinality(Recent) /\ Cardinality(Recent') \in Nat
  BY <1>2, <1>3, FS_Subset, FS_CardinalityType
<1> QED
  BY <1>2, <1>3, <1>4, GuardAssumption DEF RateOK, RateHoldsUpToWait, Recent

\* A step that grants no slot, and takes none from a run that is let through.
LEMMA NoGrant ==
    ASSUME TypeOK, TypeOK', RateOK,
           now <= now', admits' = admits,
           stamps' \subseteq stamps, starts' \subseteq starts,
           stamps \cap starts' \subseteq stamps',
           \A q \in Procs : proc'[q].slot <= admits,
           \A q \in Procs : proc'[q].pc = "rollback" =>
                                \A e \in starts' : e.n # proc'[q].slot
    PROVE  RateOK'
<1>1. Recent' \subseteq Recent /\ RateHoldsUpToWait'
  BY FewerRecent
<1>2. SlotsFinite'
  BY FS_Subset DEF RateOK, SlotsFinite
<1>3. Recent' \subseteq stamps'
  BY <1>1 DEF RateOK, SlotsOK, Recent
<1>4. now \in Nat /\ now' \in Nat /\ \A e \in starts : e.at \in Nat
  BY SlotType DEF TypeOK, Times
<1>5. \A e \in starts' : e.at <= now' /\ e.ts <= e.at /\ e.at <= e.ts + MaxWait
  BY <1>4 DEF RateOK, SlotsOK
<1>6. \A e \in stamps' \cup starts' : e.n <= admits'
  BY DEF RateOK, SlotsOK
<1>7. SlotsOK'
  BY <1>3, <1>5, <1>6 DEF SlotsOK
<1> QED
  BY <1>1, <1>2, <1>7 DEF RateOK

LEMMA GrantKeeps ==
    ASSUME TypeOK, TypeOK', ClockOK, RateOK, NEW p \in Procs, Acquire(p)
    PROVE  RateOK'
<1> DEFINE t == proc[p].seen
           e == [n |-> admits + 1, ts |-> t, at |-> now]
<1> USE GuardAssumption, GuardBounds
<1>1. /\ stamps' = Kept(t) \cup {e}
      /\ starts' = starts \cup {e}
      /\ admits' = admits + 1
      /\ now' = now
      /\ Cardinality(Kept(t)) < MaxRuns
      /\ proc' = [proc EXCEPT ![p] = [CostNext(p) EXCEPT !.slot = admits + 1]]
  BY DEF Acquire
<1>2. /\ now \in Nat /\ admits \in Nat /\ t \in Nat
      /\ t <= now /\ now <= t + MaxWait
  <2>1. proc[p] \in State
    BY DEF TypeOK
  <2>2. p \in Waiting
    BY DEF Acquire, At, Waiting
  <2> QED
    BY <2>1, <2>2, StateType DEF TypeOK, ClockOK, Times
<1>3. \A x \in stamps \cup starts : x.n \in Nat /\ x.ts \in Nat /\ x.at \in Nat
  BY SlotType DEF TypeOK
<1>4. Recent' \subseteq stamps'
  \* A recent run is too young for the pruning, however old p's clock reading is.
  <2>1. ASSUME NEW x \in starts, x \in Recent'
        PROVE  x \in Kept(t)
    <3>1. x \in stamps
      BY <1>1, <2>1 DEF Recent, RateOK, SlotsOK
    <3>2. x.at <= x.ts + MaxWait /\ x.at + Window > now + MaxWait
      BY <1>1, <2>1 DEF Recent, RateOK, SlotsOK
    <3>3. x.ts + Window > t
      BY <1>2, <1>3, <3>2
    <3> QED
      BY <3>1, <3>3 DEF Kept
  <2> QED
    BY <1>1, <2>1 DEF Recent
<1>5. IsFiniteSet(Kept(t)) /\ Cardinality(Kept(t)) \in Nat
  BY FS_Subset, FS_CardinalityType DEF RateOK, SlotsFinite, Kept
<1>6. /\ IsFiniteSet(stamps')
      /\ Cardinality(stamps') \in Nat /\ Cardinality(stamps') <= MaxRuns
  <2> DEFINE K == Kept(t)
             k == Cardinality(K)
  <2>1. /\ IsFiniteSet(K \cup {e})
        /\ Cardinality(K \cup {e}) = k \/ Cardinality(K \cup {e}) = k + 1
    <3> HIDE DEF K, e
    <3> QED
      BY <1>5, FS_AddElement DEF K
  <2>2. k \in Nat /\ k < MaxRuns /\ MaxRuns \in Nat
    BY <1>1, <1>5
  <2> QED
    BY <1>1, <2>1, <2>2
<1>7. SlotsFinite'
  BY <1>1, <1>6, FS_AddElement DEF RateOK, SlotsFinite
<1>8. RateHoldsUpToWait'
  <2>1. Cardinality(Recent') <= MaxRuns
    BY <1>4, <1>6, FS_Subset, FS_CardinalityType
  <2> QED
    BY <2>1 DEF RateHoldsUpToWait, Recent
<1>9. \A x \in stamps' \cup starts' : x.n <= admits'
  <2>1. \A x \in stamps \cup starts : x.n <= admits'
    BY <1>1, <1>2, <1>3 DEF RateOK, SlotsOK
  <2>2. e.n <= admits'
    BY <1>1, <1>2
  <2> QED
    BY <1>1, <2>1, <2>2 DEF Kept
<1>10. \A x \in starts' : x.at <= now' /\ x.ts <= x.at /\ x.at <= x.ts + MaxWait
  <2>1. e.at <= now' /\ e.ts <= e.at /\ e.at <= e.ts + MaxWait
    BY <1>1, <1>2
  <2> QED
    BY <1>1, <2>1 DEF RateOK, SlotsOK
<1>11. /\ proc'[p].slot = admits + 1 /\ proc'[p].pc = "cost"
       /\ \A q \in Procs \ {p} : proc'[q] = proc[q]
  BY <1>1, CostNextType DEF TypeOK, State
<1>12. \A q \in Procs : proc[q].slot \in Nat
  BY StateType DEF TypeOK
<1>13. \A q \in Procs : proc'[q].slot <= admits'
  BY <1>1, <1>2, <1>11, <1>12 DEF RateOK, SlotsOK
<1>14. ASSUME NEW q \in Procs, proc'[q].pc = "rollback", NEW x \in starts'
       PROVE  x.n # proc'[q].slot
  <2>1. q # p /\ proc'[q] = proc[q] /\ proc[q].slot <= admits
    BY <1>11, <1>14 DEF RateOK, SlotsOK
  <2>2. CASE x = e
    BY <1>2, <1>12, <2>1, <2>2
  <2>3. CASE x \in starts
    BY <1>14, <2>1, <2>3 DEF RateOK, SlotsOK
  <2> QED
    BY <1>1, <2>2, <2>3
<1> QED
  BY <1>4, <1>7, <1>8, <1>9, <1>10, <1>13, <1>14 DEF RateOK, SlotsOK

LEMMA RateStep == TypeOK /\ ClockOK /\ RateOK /\ [Next]_vars => RateOK'
<1> SUFFICES ASSUME TypeOK, ClockOK, RateOK, [Next]_vars
             PROVE  RateOK'
  OBVIOUS
<1>1. TypeOK'
  BY TypeStep
<1>2. now \in Nat /\ admits \in Nat
  BY GuardBounds DEF TypeOK, Times
<1> USE DEF At
<1>3. ASSUME NEW p \in Procs, Acquire(p)
      PROVE  RateOK'
  BY <1>1, <1>3, GrantKeeps
<1>4. ASSUME NEW p \in Procs, Begin(p) \/ RateRefuses(p) \/ EndRun(p)
      PROVE  RateOK'
  <2>1. UNCHANGED <<now, stamps, starts, admits>>
    BY <1>4 DEF Begin, RateRefuses, EndRun
  <2>2. /\ proc'[p].pc # "rollback" /\ proc'[p].slot = 0
        /\ \A q \in Procs \ {p} : proc'[q] = proc[q]
    BY <1>4 DEF Begin, RateRefuses, EndRun, Stop, Rest, TypeOK
  <2> QED
    BY <1>1, <1>2, <2>1, <2>2, NoGrant DEF RateOK, SlotsOK
<1>5. ASSUME NEW p \in Procs, RateDisabled(p) \/ Reserve(p) \/ CostDisabled(p)
      PROVE  RateOK'
  <2>1. UNCHANGED <<now, stamps, starts, admits>>
    BY <1>5 DEF RateDisabled, Reserve, CostDisabled
  <2>2. /\ proc'[p].pc # "rollback" /\ proc'[p].slot = proc[p].slot
        /\ \A q \in Procs \ {p} : proc'[q] = proc[q]
    BY <1>5, CostNextType DEF RateDisabled, Reserve, CostDisabled, TypeOK, State
  <2> QED
    BY <1>1, <1>2, <2>1, <2>2, NoGrant DEF RateOK, SlotsOK
<1>6. ASSUME NEW p \in Procs, CostRefuses(p)
      PROVE  RateOK'
  <2>1. /\ UNCHANGED <<now, stamps, admits>>
        /\ starts' = {e \in starts : e.n # proc[p].slot}
    BY <1>6 DEF CostRefuses, Unstart
  <2>2. /\ proc'[p].slot = proc[p].slot
        /\ \A q \in Procs \ {p} : proc'[q] = proc[q]
    BY <1>6 DEF CostRefuses, TypeOK, State
  <2> QED
    BY <1>1, <1>2, <2>1, <2>2, NoGrant DEF RateOK, SlotsOK
<1>7. ASSUME NEW p \in Procs, Release(p)
      PROVE  RateOK'
  <2>1. /\ UNCHANGED <<now, starts, admits>>
        /\ stamps' = stamps \ {e \in stamps : e.n = proc[p].slot}
        /\ \A e \in starts : e.n # proc[p].slot
    BY <1>7 DEF Release, Mine, RateOK, SlotsOK
  <2>2. /\ proc'[p].pc # "rollback" /\ proc'[p].slot = 0
        /\ \A q \in Procs \ {p} : proc'[q] = proc[q]
    BY <1>7 DEF Release, Stop, Rest, TypeOK
  <2> QED
    BY <1>1, <1>2, <2>1, <2>2, NoGrant DEF RateOK, SlotsOK
<1>8. ASSUME NEW p \in Procs, LockTimeout(p)
      PROVE  RateOK'
  <2>1. /\ UNCHANGED <<now, stamps, admits>>
        /\ starts' \subseteq starts
    BY <1>8 DEF LockTimeout, Unstart
  <2>2. \A q \in Procs \ {p} : proc'[q] = proc[q]
    BY <1>8 DEF LockTimeout, Stop, TypeOK
  <2>3. \/ proc'[p] = Rest
        \/ /\ proc'[p].slot = proc[p].slot
           /\ starts' = {e \in starts : e.n # proc[p].slot}
    BY <1>8 DEF LockTimeout, Stop, Unstart, TypeOK, State
  <2>4. proc'[p].slot <= admits
    BY <1>2, <2>3 DEF Rest, RateOK, SlotsOK
  <2>5. proc'[p].pc = "rollback" => \A e \in starts' : e.n # proc'[p].slot
    BY <2>3 DEF Rest
  <2> QED
    BY <1>1, <1>2, <2>1, <2>2, <2>4, <2>5, NoGrant DEF RateOK, SlotsOK
<1>9. ASSUME NEW p \in Procs, Crash(p)
      PROVE  RateOK'
  <2>1. /\ UNCHANGED <<now, stamps, admits>>
        /\ starts' \subseteq starts
    BY <1>9 DEF Crash, Unstart
  <2>2. /\ proc'[p].pc # "rollback" /\ proc'[p].slot = 0
        /\ \A q \in Procs \ {p} : proc'[q] = proc[q]
    BY <1>9 DEF Crash, Stop, Rest, TypeOK
  <2> QED
    BY <1>1, <1>2, <2>1, <2>2, NoGrant DEF RateOK, SlotsOK
<1>10. CASE Tick
  <2>1. /\ UNCHANGED <<stamps, proc, admits>>
        /\ starts' \subseteq starts
        /\ now' = now + 1
    BY <1>10 DEF Tick
  <2> QED
    BY <1>1, <1>2, <2>1, NoGrant DEF RateOK, SlotsOK
<1>11. CASE UNCHANGED vars
  BY <1>1, <1>2, <1>11, NoGrant DEF vars, RateOK, SlotsOK
<1> QED
  BY <1>3, <1>4, <1>5, <1>6, <1>7, <1>8, <1>9, <1>10, <1>11 DEF Next

\* Over the window shortened by the longest lock wait, no more than MaxRuns runs
\* are let through (RunRateLimiter.acquire), for any number of processes and
\* whatever is refused, rolled back, timed out or crashed.
THEOREM RateUpToWait == Spec => []RateHoldsUpToWait
<1>1. Init => RateOK
  <2> SUFFICES ASSUME Init
               PROVE  RateOK
    OBVIOUS
  <2>1. IsFiniteSet({}) /\ Cardinality({}) = 0
    BY FS_EmptySet
  <2>2. Recent = {}
    BY DEF Init, Recent
  <2>3. RateHoldsUpToWait
    BY <2>1, <2>2, GuardAssumption DEF RateHoldsUpToWait, Recent
  <2>4. SlotsOK
    BY <2>2 DEF Init, SlotsOK, Rest
  <2> QED
    BY <2>1, <2>3, <2>4 DEF Init, RateOK, SlotsFinite
<1>2. RateOK => RateHoldsUpToWait
  BY DEF RateOK
<1> QED
  BY <1>1, <1>2, RateStep, ClockIsOK, PTL DEF Spec

-----------------------------------------------------------------------------
(* The rollback of refused runs.                                           *)

\* p is about to give slot e back.
GivesBack(p, e) == At(p, "rollback") /\ proc[p].slot = e.n

\* A step that leaves the processes on their way to give something back alone,
\* and takes no counted slot out of starts, keeps the accounts.
LEMMA AccountsKept ==
    ASSUME TypeOK, RefusalsLeaveNoSlot, faults' = faults, now' = now,
           stamps' \subseteq stamps, starts \subseteq starts',
           NEW p \in Procs, NEW w, proc' = [proc EXCEPT ![p] = w],
           ~ At(p, "rollback")
    PROVE  RefusalsLeaveNoSlot'
<1>1. \A q \in Procs \ {p} : proc'[q] = proc[q]
  BY DEF TypeOK
<1>2. \A e : \A q \in Procs : GivesBack(q, e) => GivesBack(q, e)'
  BY <1>1 DEF GivesBack, At
<1> QED
  BY <1>2 DEF RefusalsLeaveNoSlot, GivesBack

LEMMA RollbackStep ==
    ASSUME TypeOK, RefusalsLeaveNoSlot, [Next]_vars
    PROVE  RefusalsLeaveNoSlot'
<1>a. /\ \A p \in Procs : proc[p] \in State
      /\ proc \in [Procs -> State] /\ faults \in Nat /\ now \in Nat
  BY GuardBounds DEF TypeOK, Times
<1>1. ASSUME NEW p \in Procs, Begin(p)
      PROVE  RefusalsLeaveNoSlot'
  BY <1>1, AccountsKept DEF Begin, At
<1>2. ASSUME NEW p \in Procs, Acquire(p)
      PROVE  RefusalsLeaveNoSlot'
  <2> PICK e : e = [n |-> admits + 1, ts |-> proc[p].seen, at |-> now]
    OBVIOUS
  <2>1. /\ stamps' = Kept(proc[p].seen) \cup {e} /\ starts' = starts \cup {e}
        /\ now' = now /\ faults' = faults /\ At(p, "rate")
    BY <1>2 DEF Acquire
  <2>2. \A q \in Procs \ {p} : proc'[q] = proc[q]
    BY <1>a, <1>2 DEF Acquire
  <2>3. \A f : \A q \in Procs : GivesBack(q, f) => GivesBack(q, f)'
    BY <2>1, <2>2 DEF GivesBack, At
  <2>4. \A f \in stamps' : f \in starts' \/ f \in stamps
    BY <2>1 DEF Kept
  <2> QED
    BY <2>1, <2>3, <2>4 DEF RefusalsLeaveNoSlot, GivesBack
<1>3. ASSUME NEW p \in Procs, RateRefuses(p) \/ EndRun(p)
      PROVE  RefusalsLeaveNoSlot'
  BY <1>3, AccountsKept DEF RateRefuses, EndRun, Stop, At
<1>4. ASSUME NEW p \in Procs, RateDisabled(p)
      PROVE  RefusalsLeaveNoSlot'
  BY <1>4, AccountsKept DEF RateDisabled, At
<1>5. ASSUME NEW p \in Procs, Reserve(p) \/ CostDisabled(p)
      PROVE  RefusalsLeaveNoSlot'
  <2>1. proc' = [proc EXCEPT ![p] = [proc[p] EXCEPT !.pc = "run"]]
    BY <1>5 DEF Reserve, CostDisabled
  <2> QED
    BY <1>5, <2>1, AccountsKept DEF Reserve, CostDisabled, At
<1>6. ASSUME NEW p \in Procs, CostRefuses(p)
      PROVE  RefusalsLeaveNoSlot'
  <2>1. /\ Unstart(p) /\ UNCHANGED <<now, stamps, faults>> /\ At(p, "cost")
        /\ proc' = [proc EXCEPT ![p] = [proc[p] EXCEPT !.pc = "rollback"]]
    BY <1>6 DEF CostRefuses
  <2>2. proc'[p].pc = "rollback" /\ proc'[p].slot = proc[p].slot
    BY <1>a, <2>1 DEF State
  <2>3. \A q \in Procs \ {p} : proc'[q] = proc[q]
    BY <1>a, <2>1
  <2>4. \A e : \A q \in Procs : GivesBack(q, e) => GivesBack(q, e)'
    BY <2>1, <2>3 DEF GivesBack, At
  <2>5. \A e \in starts : e \in starts' \/ GivesBack(p, e)'
    BY <2>1, <2>2 DEF Unstart, GivesBack, At
  <2> QED
    BY <2>1, <2>4, <2>5 DEF RefusalsLeaveNoSlot, GivesBack
<1>7. ASSUME NEW p \in Procs, Release(p)
      PROVE  RefusalsLeaveNoSlot'
  <2>1. \A q \in Procs \ {p} : proc'[q] = proc[q]
    BY <1>a, <1>7 DEF Release, Stop
  <2>2. \A e \in stamps' : e \in stamps /\ e.n # proc[p].slot
    BY <1>7 DEF Release, Mine
  <2>3. \A e \in stamps', q \in Procs : GivesBack(q, e) => GivesBack(q, e)'
    BY <2>1, <2>2 DEF GivesBack, At
  <2> QED
    BY <1>7, <2>2, <2>3 DEF Release, RefusalsLeaveNoSlot, GivesBack
<1>8. ASSUME NEW p \in Procs, LockTimeout(p) \/ Crash(p)
      PROVE  RefusalsLeaveNoSlot'
  BY <1>a, <1>8 DEF LockTimeout, Crash, RefusalsLeaveNoSlot
<1>9. CASE Tick
  <2>1. \A e \in stamps : e.at \in Nat
    BY GuardBounds DEF TypeOK, Slot, Times
  <2>2. \A e \in stamps : e.at + Window > now' =>
           e.at + Window > now /\ (e \in starts => e \in starts')
    BY <1>a, <1>9, <2>1, GuardAssumption DEF Tick
  <2> QED
    BY <1>9, <2>2 DEF Tick, RefusalsLeaveNoSlot, At
<1>10. CASE UNCHANGED vars
  BY <1>10 DEF vars, RefusalsLeaveNoSlot, At
<1> QED
  BY <1>1, <1>2, <1>3, <1>4, <1>5, <1>6, <1>7, <1>8, <1>9, <1>10 DEF Next

\* While no lock wait times out and nobody dies, a refused run gives its slot
\* back: what counts in the file was let through or is about to be returned.
THEOREM RefusedRunsKeepNoSlot == Spec => []RefusalsLeaveNoSlot
<1>1. Init => RefusalsLeaveNoSlot
  BY DEF Init, RefusalsLeaveNoSlot
<1>2. TypeOK /\ RefusalsLeaveNoSlot /\ [Next]_vars => RefusalsLeaveNoSlot'
  BY RollbackStep
<1> QED
  BY <1>1, <1>2, TypeCorrect, PTL DEF Spec

=============================================================================
