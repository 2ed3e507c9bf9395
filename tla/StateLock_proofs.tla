---------------------------- MODULE StateLock_proofs ----------------------------
(***************************************************************************)
(* Theorems about StateLock, for any number of processes, any timeouts and *)
(* any number of crashes.                                                  *)
(***************************************************************************)
EXTENDS StateLock, FiniteSetTheorems, TLAPS

LEMMA InitType == Init => TypeOK
<1> SUFFICES ASSUME Init
             PROVE  TypeOK
  OBVIOUS
<1>1. overran \in BOOLEAN
  BY DEF Init
<1> QED
  BY <1>1, LockAssumption DEF Init, TypeOK, Pcs

LEMMA TypeStep == TypeOK /\ [Next]_vars => TypeOK'
<1> SUFFICES ASSUME TypeOK, [Next]_vars
             PROVE  TypeOK'
  OBVIOUS
<1> USE LockAssumption
<1>1. ASSUME NEW p \in Procs, Enter(p)
      PROVE  TypeOK'
  BY <1>1 DEF TypeOK, Enter, Goto, At, Pcs
<1>2. ASSUME NEW p \in Procs, Create(p)
      PROVE  TypeOK'
  BY <1>2 DEF TypeOK, Create, Goto, At, Pcs
<1>3. ASSUME NEW p \in Procs, Exists(p) \/ Poll(p) \/ Leave(p)
      PROVE  TypeOK'
  BY <1>3 DEF TypeOK, Exists, Poll, Leave, Goto, At, Pcs
<1>4. ASSUME NEW p \in Procs, Stat(p)
      PROVE  TypeOK'
  BY <1>4 DEF TypeOK, Stat, Goto, At, Pcs
<1>5. ASSUME NEW p \in Procs, BreakStale(p) \/ Release(p)
      PROVE  TypeOK'
  BY <1>5 DEF TypeOK, BreakStale, Release, Unlink, Holders, Goto, At, Pcs
<1>6. ASSUME NEW p \in Procs, Crash(p)
      PROVE  TypeOK'
  BY <1>6 DEF TypeOK, Crash, Goto, At, Pcs
<1>7. CASE Tick
  BY <1>7 DEF TypeOK, Tick
<1>8. CASE UNCHANGED vars
  BY <1>8 DEF TypeOK, vars
<1> QED
  BY <1>1, <1>2, <1>3, <1>4, <1>5, <1>6, <1>7, <1>8 DEF Next, Step

\* Type correctness of the lock protocol (_state_lock).
THEOREM TypeCorrect == Spec => []TypeOK
<1>1. TypeOK /\ [Next]_vars => TypeOK'
  BY TypeStep
<1> QED
  BY <1>1, InitType, PTL DEF Spec

-----------------------------------------------------------------------------
(* Whatever happens, one rightful holder.                                  *)

\* A holder that was not robbed owns the file that is there.
RightfulOwns == \A p \in Holders \ robbed : file = p

LEMMA RightfulStep == TypeOK /\ RightfulOwns /\ [Next]_vars => RightfulOwns'
<1> SUFFICES ASSUME TypeOK, RightfulOwns, [Next]_vars
             PROVE  RightfulOwns'
  OBVIOUS
<1> USE NoFileAssumption DEF Goto, At, Holders, RightfulOwns
<1>1. ASSUME NEW p \in Procs, Enter(p) \/ Exists(p) \/ Poll(p) \/ Leave(p) \/ Stat(p)
      PROVE  RightfulOwns'
  BY <1>1 DEF TypeOK, Enter, Exists, Poll, Leave, Stat
<1>2. ASSUME NEW p \in Procs, Create(p)
      PROVE  RightfulOwns'
  BY <1>2 DEF TypeOK, Create
<1>3. ASSUME NEW p \in Procs, BreakStale(p) \/ Release(p)
      PROVE  RightfulOwns'
  \* Whoever held the removed file rightfully is robbed now.
  <2>1. /\ p \notin Holders
        /\ Holders' = Holders
    BY <1>3 DEF TypeOK, BreakStale, Release
  <2>2. \A q \in Holders \ robbed : q \in robbed'
    BY <1>3, <2>1 DEF BreakStale, Release, Unlink
  <2>3. robbed \subseteq robbed'
    BY <1>3 DEF BreakStale, Release, Unlink
  <2> QED
    BY <2>1, <2>2, <2>3
<1>4. ASSUME NEW p \in Procs, Crash(p)
      PROVE  RightfulOwns'
  BY <1>4 DEF TypeOK, Crash
<1>5. CASE Tick \/ UNCHANGED vars
  BY <1>5 DEF Tick, vars
<1> QED
  BY <1>1, <1>2, <1>3, <1>4, <1>5 DEF Next, Step

\* At most one process is in the critical section with its own lock file in
\* place, for any number of processes and crashes and however slow holders are.
THEOREM OneHolderIsRightful == Spec => []OneRightfulHolder
<1>1. Init => RightfulOwns
  BY DEF Init, RightfulOwns, Holders
<1>2. RightfulOwns => OneRightfulHolder
  <2> SUFFICES ASSUME RightfulOwns
               PROVE  OneRightfulHolder
    OBVIOUS
  <2>1. Holders \ robbed \subseteq {file}
    BY DEF RightfulOwns
  <2>2. IsFiniteSet({file}) /\ Cardinality({file}) = 1
    BY FS_Singleton
  <2> QED
    BY <2>1, <2>2, FS_Subset, FS_CardinalityType DEF OneRightfulHolder
<1> QED
  BY <1>1, <1>2, RightfulStep, TypeCorrect, PTL DEF Spec

-----------------------------------------------------------------------------
(* Prompt holders and no crash: mutual exclusion.                          *)

Undisturbed == crashes = 0 /\ ~ overran

\* Until something goes wrong the file is there exactly while its creator holds
\* it, it is never stale, and so nobody breaks a lock.
FileIsHeld ==
    /\ \A p \in Procs : pc[p] \in {"critical", "unlink"} <=> file = p
    /\ age <= StaleAfter
    /\ \A p \in Procs : pc[p] # "unlink_stale"

LEMMA PromptStep ==
    TypeOK /\ (Undisturbed => FileIsHeld) /\ [Next]_vars => (Undisturbed => FileIsHeld)'
<1> SUFFICES ASSUME TypeOK, Undisturbed => FileIsHeld, [Next]_vars, Undisturbed'
             PROVE  FileIsHeld'
  OBVIOUS
<1>0. FileIsHeld /\ \A p \in Procs : ~ Crash(p)
  BY LockAssumption DEF TypeOK, Undisturbed, Next, Step, Enter, Create, Exists, Stat,
     BreakStale, Poll, Leave, Release, Crash, Tick, vars
<1> USE LockAssumption, NoFileAssumption DEF Goto, At, FileIsHeld
<1>1. ASSUME NEW p \in Procs, Enter(p) \/ Exists(p) \/ Poll(p) \/ Leave(p)
      PROVE  FileIsHeld'
  BY <1>0, <1>1 DEF TypeOK, Enter, Exists, Poll, Leave
<1>2. ASSUME NEW p \in Procs, Stat(p)
      PROVE  FileIsHeld'
  BY <1>0, <1>2 DEF TypeOK, Stat, Stale
<1>3. ASSUME NEW p \in Procs, Create(p)
      PROVE  FileIsHeld'
  BY <1>0, <1>3 DEF TypeOK, Create
<1>4. ASSUME NEW p \in Procs, BreakStale(p) \/ Release(p)
      PROVE  FileIsHeld'
  BY <1>0, <1>4 DEF TypeOK, BreakStale, Release, Unlink
<1>5. CASE Tick
  <2>1. UNCHANGED <<file, pc>>
    BY <1>5 DEF Tick
  <2>2. ~ Overdue
    BY <1>5 DEF Tick, Undisturbed
  <2>3. file # NoFile => age < StaleAfter
    BY <1>0, <2>2 DEF TypeOK, Overdue
  <2>4. age' <= StaleAfter
    BY <1>0, <1>5, <2>3 DEF TypeOK, Tick
  <2> QED
    BY <1>0, <2>1, <2>4
<1>6. CASE UNCHANGED vars
  BY <1>0, <1>6 DEF vars
<1> QED
  BY <1>0, <1>1, <1>2, <1>3, <1>4, <1>5, <1>6 DEF Next, Step

\* The lock of _state_lock excludes, for any number of processes and any timeouts,
\* as long as holders leave before their file is stale and no process has died.
THEOREM LockExcludes == Spec => []MutexUntilCrash
<1>1. Init => (Undisturbed => FileIsHeld)
  BY LockAssumption, NoFileAssumption DEF Init, FileIsHeld
<1>2. (Undisturbed => FileIsHeld) => MutexUntilCrash
  <2> SUFFICES ASSUME FileIsHeld
               PROVE  Cardinality(Holders) <= 1
    BY DEF Undisturbed, MutexUntilCrash
  <2>1. Holders \subseteq {file}
    BY DEF FileIsHeld, Holders
  <2>2. IsFiniteSet({file}) /\ Cardinality({file}) = 1
    BY FS_Singleton
  <2> QED
    BY <2>1, <2>2, FS_Subset, FS_CardinalityType
<1> QED
  BY <1>1, <1>2, PromptStep, TypeCorrect, PTL DEF Spec

=============================================================================
