---------------------------- MODULE BackupsProofs ----------------------------
(***************************************************************************)
(* Proofs about Backups, for any finite set of job threads and any limit.  *)
(*                                                                         *)
(* CountAccountsForChildren is not inductive by itself: that the counter   *)
(* cannot pass max_backups needs the lock (only its owner is between the   *)
(* test and the increment), and that a wait(NULL) finding no child adds at *)
(* most Excess needs the counter to be full there.  IInv adds both.        *)
(***************************************************************************)
EXTENDS Backups, FiniteSetTheorems, TLAPS

\* Exactly the owner of n_current_backups_lock is between lock and unlock.
LockInv ==
    \A t \in Threads :
       bpc[t] \in {"check", "count", "wait", "unlock"} <=> backupsLock = t

\* What the test of active_backups told a thread still holds when it acts.
DecisionInv ==
    \A t \in Threads :
       /\ bpc[t] = "count" => active_backups < MaxBackups
       /\ bpc[t] = "wait" => active_backups = MaxBackups

\* main reaps only after every job thread has exited.
PhaseInv == mainpc # "join" => \A t \in Threads : bpc[t] = "done"

\* The reaping loop ends with the counter at zero.
ServeInv == mainpc = "serve" => active_backups = 0

IInv ==
    /\ TypeOK
    /\ LockInv
    /\ DecisionInv
    /\ PhaseInv
    /\ ServeInv
    /\ CountAccountsForChildren

-----------------------------------------------------------------------------
\* The sizes that the counting argument is about are natural numbers, and
\* the excess is what the threads beyond the limit amount to.
LEMMA Sizes ==
    /\ Cardinality(Threads) \in Nat
    /\ IsFiniteSet(InFlight) /\ Cardinality(InFlight) \in Nat
    /\ Cardinality(InFlight) <= Cardinality(Threads)
    /\ Excess \in Nat
    /\ Cardinality(Threads) <= MaxBackups + Excess
<1>1. IsFiniteSet(Threads) /\ MaxBackups \in Nat
  BY BackupsAssumption
<1>2. Cardinality(Threads) \in Nat
  BY <1>1, FS_CardinalityType
<1>3. InFlight \in SUBSET Threads
  BY DEF InFlight
<1>4. IsFiniteSet(InFlight) /\ Cardinality(InFlight) <= Cardinality(Threads)
  BY <1>1, <1>3, FS_Subset
<1>5. Cardinality(InFlight) \in Nat
  BY <1>4, FS_CardinalityType
<1> QED
  BY <1>1, <1>2, <1>4, <1>5 DEF Excess

\* Admitting a thread adds one to the forks still to come, and leaves room:
\* it was not among them, so at most all the OTHER threads were.
LEMMA Admit ==
    ASSUME TypeOK, NEW t \in Threads, bpc[t] \in {"count", "wait"},
           bpc' = [bpc EXCEPT ![t] = "unlock"]
    PROVE  /\ Cardinality(InFlight') = Cardinality(InFlight) + 1
           /\ Cardinality(InFlight') <= Cardinality(Threads)
<1>1. IsFiniteSet(InFlight)
  BY Sizes
<1>2. InFlight' = InFlight \cup {t} /\ t \notin InFlight
  BY DEF InFlight, TypeOK
<1>3. Cardinality(InFlight') = Cardinality(InFlight) + 1
  BY <1>1, <1>2, FS_AddElement
<1>4. InFlight' \in SUBSET Threads
  BY DEF InFlight
<1>5. Cardinality(InFlight') <= Cardinality(Threads)
  BY <1>4, FS_Subset, BackupsAssumption
<1> QED
  BY <1>3, <1>5

\* A thread that has called fork is no longer in flight.
LEMMA Leave ==
    ASSUME TypeOK, NEW t \in Threads, bpc[t] = "fork",
           bpc' = [bpc EXCEPT ![t] = "idle"]
    PROVE  Cardinality(InFlight') = Cardinality(InFlight) - 1
<1>1. IsFiniteSet(InFlight)
  BY Sizes
<1>2. InFlight' = InFlight \ {t} /\ t \in InFlight
  BY DEF InFlight, TypeOK
<1> QED
  BY <1>1, <1>2, FS_RemoveElement

\* Every other step of a thread keeps the set of forks to come.
LEMMA Stay ==
    ASSUME TypeOK, NEW t \in Threads, NEW from, NEW to, Goto(t, from, to),
           from \in {"unlock", "fork"} <=> to \in {"unlock", "fork"}
    PROVE  InFlight' = InFlight
BY DEF InFlight, Goto, TypeOK

-----------------------------------------------------------------------------
\* The initial states satisfy the inductive invariant.
LEMMA InitIInv == Init => IInv
<1> SUFFICES ASSUME Init PROVE IInv
  OBVIOUS
<1>1. TypeOK /\ LockInv /\ DecisionInv /\ PhaseInv /\ ServeInv
  BY BackupsAssumption
     DEF Init, TypeOK, BackupPCs, LockInv, DecisionInv, PhaseInv, ServeInv
<1>2. InFlight = {}
  BY DEF Init, InFlight
<1>3. Cardinality(InFlight) = 0
  BY <1>2, FS_EmptySet
<1>4. CountAccountsForChildren
  BY <1>3, Sizes, BackupsAssumption DEF Init, CountAccountsForChildren
<1> QED
  BY <1>1, <1>4 DEF IInv

\* The parts of the invariant that do not count are kept by every step.
LEMMA NextControl ==
    IInv /\ [Next]_vars
      => TypeOK' /\ LockInv' /\ DecisionInv' /\ PhaseInv' /\ ServeInv'
<1> SUFFICES ASSUME IInv, [Next]_vars
             PROVE  TypeOK' /\ LockInv' /\ DecisionInv' /\ PhaseInv' /\ ServeInv'
  OBVIOUS
<1> USE BackupsAssumption
    DEF IInv, TypeOK, BackupPCs, LockInv, DecisionInv, PhaseInv, ServeInv, Goto
<1>1. ASSUME NEW t \in Threads, Lock(t)
      PROVE  TypeOK' /\ LockInv' /\ DecisionInv' /\ PhaseInv' /\ ServeInv'
  BY <1>1 DEF Lock
<1>2. ASSUME NEW t \in Threads, Check(t)
      PROVE  TypeOK' /\ LockInv' /\ DecisionInv' /\ PhaseInv' /\ ServeInv'
  BY <1>2 DEF Check, AtLimit, CountAccountsForChildren
<1>3. ASSUME NEW t \in Threads, Count(t)
      PROVE  TypeOK' /\ LockInv' /\ DecisionInv' /\ PhaseInv' /\ ServeInv'
  BY <1>3 DEF Count
<1>4. ASSUME NEW t \in Threads, WaitReap(t) \/ WaitNoChild(t)
      PROVE  TypeOK' /\ LockInv' /\ DecisionInv' /\ PhaseInv' /\ ServeInv'
  BY <1>4 DEF WaitReap, WaitNoChild
<1>5. ASSUME NEW t \in Threads, Unlock(t)
      PROVE  TypeOK' /\ LockInv' /\ DecisionInv' /\ PhaseInv' /\ ServeInv'
  BY <1>5 DEF Unlock
<1>6. ASSUME NEW t \in Threads, Fork(t) \/ ForkFails(t) \/ Finish(t)
      PROVE  TypeOK' /\ LockInv' /\ DecisionInv' /\ PhaseInv' /\ ServeInv'
  BY <1>6 DEF Fork, ForkFails, Finish
<1>7. CASE ChildExit
  BY <1>7 DEF ChildExit
<1>8. CASE Main
  BY <1>8 DEF Main, MainJoin, MainReap, MainServe
<1>9. CASE UNCHANGED vars
  BY <1>9 DEF vars
<1> QED
  BY <1>1, <1>2, <1>3, <1>4, <1>5, <1>6, <1>7, <1>8, <1>9 DEF Next, Backup

\* Children, forks to come and the counter stay in step.
LEMMA NextCount == IInv /\ [Next]_vars => CountAccountsForChildren'
<1> SUFFICES ASSUME IInv, [Next]_vars PROVE CountAccountsForChildren'
  OBVIOUS
<1> DEFINE m == Cardinality(InFlight)
<1>0. /\ TypeOK /\ CountAccountsForChildren /\ DecisionInv
      /\ m \in Nat /\ Excess \in Nat /\ Excess' = Excess
      /\ MaxBackups \in Nat
      /\ Cardinality(Threads) <= MaxBackups + Excess
      /\ Cardinality(Threads) \in Nat
  BY Sizes, BackupsAssumption DEF IInv, Excess
<1>1. ASSUME InFlight' = InFlight,
             \/ UNCHANGED <<active_backups, running, zombies>>
             \/ ChildExit
      PROVE  CountAccountsForChildren'
  BY <1>0, <1>1 DEF CountAccountsForChildren, ChildExit, TypeOK
<1>2. ASSUME NEW t \in Threads,
             Lock(t) \/ Check(t) \/ Unlock(t) \/ Finish(t)
      PROVE  CountAccountsForChildren'
  <2>1. InFlight' = InFlight
    BY <1>0, <1>2, Stay DEF Lock, Check, Unlock, Finish
  <2> QED
    BY <1>1, <1>2, <2>1 DEF Lock, Check, Unlock, Finish
<1>3. ASSUME NEW t \in Threads, Count(t)
      PROVE  CountAccountsForChildren'
  <2>1. Cardinality(InFlight') = m + 1
    BY <1>0, <1>3, Admit DEF Count, Goto
  <2> QED
    BY <1>0, <1>3, <2>1
       DEF Count, Goto, CountAccountsForChildren, DecisionInv, TypeOK
<1>4. ASSUME NEW t \in Threads, WaitReap(t)
      PROVE  CountAccountsForChildren'
  <2>1. Cardinality(InFlight') = m + 1
    BY <1>0, <1>4, Admit DEF WaitReap, Goto
  <2> QED
    BY <1>0, <1>4, <2>1 DEF WaitReap, CountAccountsForChildren, TypeOK
<1>5. ASSUME NEW t \in Threads, WaitNoChild(t)
      PROVE  CountAccountsForChildren'
  <2>1. /\ Cardinality(InFlight') = m + 1
        /\ Cardinality(InFlight') <= Cardinality(Threads)
    BY <1>0, <1>5, Admit DEF WaitNoChild, Goto
  <2>2. active_backups = MaxBackups
    BY <1>0, <1>5 DEF WaitNoChild, Goto, DecisionInv
  <2> QED
    BY <1>0, <1>5, <2>1, <2>2 DEF WaitNoChild, CountAccountsForChildren, TypeOK
<1>6. ASSUME NEW t \in Threads, Fork(t) \/ ForkFails(t)
      PROVE  CountAccountsForChildren'
  <2>1. Cardinality(InFlight') = m - 1
    BY <1>0, <1>6, Leave DEF Fork, ForkFails, Goto
  <2> QED
    BY <1>0, <1>6, <2>1 DEF Fork, ForkFails, CountAccountsForChildren, TypeOK
<1>7. CASE MainReap
  <2>1. \A t \in Threads : bpc[t] = "done"
    BY <1>7 DEF MainReap, IInv, PhaseInv
  <2>2. InFlight = {} /\ InFlight' = {}
    BY <2>1, <1>7 DEF InFlight, MainReap
  <2>3. m = 0 /\ Cardinality(InFlight') = 0
    BY <2>2, FS_EmptySet
  <2> QED
    BY <1>0, <1>7, <2>3 DEF MainReap, CountAccountsForChildren, TypeOK
<1>8. CASE ChildExit \/ MainJoin \/ MainServe \/ UNCHANGED vars
  <2>1. InFlight' = InFlight
    BY <1>8 DEF ChildExit, MainJoin, MainServe, vars, InFlight
  <2> QED
    BY <1>1, <1>8, <2>1 DEF MainJoin, MainServe, vars
<1> QED
  BY <1>2, <1>3, <1>4, <1>5, <1>6, <1>7, <1>8 DEF Next, Backup, Main

\* IInv is an invariant of the specification.
LEMMA Invariance == Spec => []IInv
<1>1. IInv /\ [Next]_vars => IInv'
  BY NextControl, NextCount DEF IInv
<1> QED
  BY InitIInv, <1>1, PTL DEF Spec

-----------------------------------------------------------------------------
\* The variables keep their types: active_backups is a natural number, so
\* the size_t of main.c never wraps below zero in the reaping loop.
THEOREM TypeCorrect == Spec => []TypeOK
<1>1. IInv => TypeOK
  BY DEF IInv
<1> QED
  BY Invariance, <1>1, PTL

\* However many job threads and whatever the limit: the counter stays within
\* max_backups, and children and forks to come exceed it by at most Excess.
THEOREM ChildrenAreCounted == Spec => []CountAccountsForChildren
<1>1. IInv => CountAccountsForChildren
  BY DEF IInv
<1> QED
  BY Invariance, <1>1, PTL

\* No more than Excess children are left behind when main starts serving.
THEOREM ReapingIsComplete == Spec => []ReapedBeforeServing
<1>1. IInv => ReapedBeforeServing
  BY Sizes DEF IInv, ReapedBeforeServing, ServeInv, CountAccountsForChildren, TypeOK
<1> QED
  BY Invariance, <1>1, PTL

\* With no more job threads than max_backups, the limit that main.c
\* documents is kept.
THEOREM LimitIsKept ==
    ASSUME Cardinality(Threads) <= MaxBackups
    PROVE  Spec => []BackupLimit
<1>1. IInv => BackupLimit
  <2> SUFFICES ASSUME IInv PROVE BackupLimit
    OBVIOUS
  <2>1. Excess = 0
    BY Sizes, BackupsAssumption DEF Excess
  <2> QED
    BY <2>1, Sizes, BackupsAssumption
       DEF IInv, CountAccountsForChildren, TypeOK, BackupLimit
<1> QED
  BY Invariance, <1>1, PTL
=============================================================================
