---------------------------- MODULE FifoLockProofs ----------------------------
(***************************************************************************)
(* The lock of the FIFO excludes, for any number of samplers, as long as   *)
(* no signal interrupts a semop and no two samplers share a slot.          *)
(***************************************************************************)
EXTENDS FifoLock, TLAPS

\* No process is interrupted by a signal while it is blocked in semop.
NoSignals == Interruptible = {}

\* A lock word names one process: the readout, the data writer, or the one
\* sampler whose slot is in sam_locker.
LEMMA LockWordNamesOne ==
  ASSUME DistinctSlots, NEW p \in Proc, NEW q \in Proc, LockedBy(p), LockedBy(q)
  PROVE  p = q
  BY LockAssumption DEF DistinctSlots, LockedBy, LockOf, Proc

\* A lock word that names a process is not UNLOCKED.
LEMMA LockedIsNotUnlocked ==
  ASSUME NEW p \in Proc, LockedBy(p)
  PROVE  status # "UNLOCKED"
  BY LockAssumption DEF LockedBy, LockOf, Proc

\* The invariant holds at the start.
LEMMA InitIInv == Init => IInv
  BY LockAssumption DEF Init, IInv, TypeOK, Status, Places, Critical, LockWordGuarded,
     SemaphoreUp, KnowsFree, KnowsTaken, KnowsReset, StillLocked, GivenBack, HolderNamed

\* Every step keeps the inductive invariant.
LEMMA NextIInv ==
  ASSUME DistinctSlots, NoSignals, IInv, [Next]_vars
  PROVE  IInv'
<1> USE LockAssumption DEF IInv, NoSignals
<1>1. ASSUME NEW p \in Proc, CallWaitlock(p) PROVE IInv'
  BY <1>1 DEF CallWaitlock, Goto, TypeOK, Status, Places, Critical, LockWordGuarded,
     SemaphoreUp, KnowsFree, KnowsTaken, KnowsReset, StillLocked, GivenBack,
     HolderNamed, LockedBy
<1>2. ASSUME NEW p \in Proc, WaitlockAcquire(p) PROVE IInv'
  BY <1>2 DEF WaitlockAcquire, Goto, SemEnter, TypeOK, Status, Places, Critical,
     LockWordGuarded, SemaphoreUp, KnowsFree, KnowsTaken, KnowsReset, StillLocked,
     GivenBack, HolderNamed, LockedBy
<1>3. ASSUME NEW p \in Proc, WaitlockCheck(p) PROVE IInv'
  BY <1>3 DEF WaitlockCheck, Goto, TypeOK, Status, Places, Critical,
     LockWordGuarded, SemaphoreUp, KnowsFree, KnowsTaken, KnowsReset, StillLocked,
     GivenBack, HolderNamed, LockedBy
<1>4. ASSUME NEW p \in Proc, WaitlockTake(p) PROVE IInv'
  <2> USE <1>4 DEF WaitlockTake, Goto
  <2>1. \A q \in Proc : ~LockedBy(q)
    BY LockedIsNotUnlocked DEF KnowsFree
  <2>2. TypeOK'
    BY DEF TypeOK, Status, Places, Critical, LockOf
  <2>3. LockedBy(p)'
    BY DEF LockedBy, LockOf, TypeOK
  <2>4. (LockWordGuarded /\ SemaphoreUp /\ KnowsFree)'
    BY DEF LockWordGuarded, SemaphoreUp, KnowsFree, TypeOK, Critical
  <2>5. (KnowsTaken /\ KnowsReset)'
    BY <2>1, <2>3 DEF KnowsTaken, KnowsReset, TypeOK
  <2>6. (StillLocked /\ GivenBack /\ HolderNamed)'
    BY <2>1 DEF StillLocked, GivenBack, HolderNamed, TypeOK
  <2>7. QED
    BY <2>2, <2>4, <2>5, <2>6
<1>5. ASSUME NEW p \in Proc, WaitlockRetry(p) PROVE IInv'
  BY <1>5 DEF WaitlockRetry, Goto, SemLeave, TypeOK, Status, Places, Critical,
     LockWordGuarded, SemaphoreUp, KnowsFree, KnowsTaken, KnowsReset, StillLocked,
     GivenBack, HolderNamed, LockedBy
<1>6. ASSUME NEW p \in Proc, WaitlockWake(p) PROVE IInv'
  BY <1>6 DEF WaitlockWake, Goto, SemEnter, TypeOK, Status, Places, Critical,
     LockWordGuarded, SemaphoreUp, KnowsFree, KnowsTaken, KnowsReset, StillLocked,
     GivenBack, HolderNamed, LockedBy
<1>7. ASSUME NEW p \in Proc, WaitlockRecheck(p) PROVE IInv'
  BY <1>7 DEF WaitlockRecheck, Goto, TypeOK, Status, Places, Critical,
     LockWordGuarded, SemaphoreUp, KnowsFree, KnowsTaken, KnowsReset, StillLocked,
     GivenBack, HolderNamed, LockedBy
<1>8. ASSUME NEW p \in Proc, WaitlockReturn(p) PROVE IInv'
  BY <1>8 DEF WaitlockReturn, Goto, SemLeave, TypeOK, Status, Places, Critical,
     LockWordGuarded, SemaphoreUp, KnowsFree, KnowsTaken, KnowsReset, StillLocked,
     GivenBack, HolderNamed, LockedBy
<1>9. ASSUME NEW p \in Proc, CallUnlock(p) PROVE IInv'
  BY <1>9 DEF CallUnlock, Goto, TypeOK, Status, Places, Critical,
     LockWordGuarded, SemaphoreUp, KnowsFree, KnowsTaken, KnowsReset, StillLocked,
     GivenBack, HolderNamed, LockedBy
<1>10. ASSUME NEW p \in Proc, UnlockAcquire(p) PROVE IInv'
  BY <1>10 DEF UnlockAcquire, Goto, SemEnter, TypeOK, Status, Places, Critical,
     LockWordGuarded, SemaphoreUp, KnowsFree, KnowsTaken, KnowsReset, StillLocked,
     GivenBack, HolderNamed, LockedBy
<1>11. ASSUME NEW p \in Proc, UnlockCheck(p) PROVE IInv'
  BY <1>11 DEF UnlockCheck, Goto, MayUnlock, TypeOK, Status, Places, Critical,
     LockWordGuarded, SemaphoreUp, KnowsFree, KnowsTaken, KnowsReset, StillLocked,
     GivenBack, HolderNamed, LockedBy, LockOf
<1>12. ASSUME NEW p \in Proc, UnlockReset(p) PROVE IInv'
  <2> USE <1>12 DEF UnlockReset, Goto
  <2>1. \A q \in Proc \ {p} : ~LockedBy(q)
    BY LockWordNamesOne DEF KnowsReset
  <2>2. TypeOK'
    BY DEF TypeOK, Status, Places, Critical
  <2>3. (LockWordGuarded /\ SemaphoreUp /\ KnowsFree)'
    BY DEF LockWordGuarded, SemaphoreUp, KnowsFree, TypeOK, Critical
  <2>4. (KnowsTaken /\ KnowsReset)'
    BY <2>1 DEF KnowsTaken, KnowsReset, TypeOK
  <2>5. (StillLocked /\ GivenBack /\ HolderNamed)'
    BY <2>1 DEF StillLocked, GivenBack, HolderNamed, TypeOK
  <2>6. QED
    BY <2>2, <2>3, <2>4, <2>5
<1>13. ASSUME NEW p \in Proc, UnlockReturn(p) PROVE IInv'
  BY <1>13 DEF UnlockReturn, Goto, SemLeave, TypeOK, Status, Places, Critical,
     LockWordGuarded, SemaphoreUp, KnowsFree, KnowsTaken, KnowsReset, StillLocked,
     GivenBack, HolderNamed, LockedBy
<1>14. CASE UNCHANGED vars
  BY <1>14 DEF vars, TypeOK, Status, Places, Critical, LockWordGuarded, SemaphoreUp,
     KnowsFree, KnowsTaken, KnowsReset, StillLocked, GivenBack, HolderNamed, LockedBy
<1>15. QED
  BY <1>1, <1>2, <1>3, <1>4, <1>5, <1>6, <1>7, <1>8, <1>9, <1>10, <1>11, <1>12,
     <1>13, <1>14 DEF Next, Waitlock, Unlock

\* In every behaviour with distinct slots and no signals, each process is where
\* the lock word and the semaphore say it is.
THEOREM LockInvariant ==
  ASSUME DistinctSlots, NoSignals
  PROVE  Spec => []IInv
  BY InitIInv, NextIInv, PTL DEF Spec

\* The lock word, the semaphore and the programs' places keep their types.
THEOREM LockTyped ==
  ASSUME DistinctSlots, NoSignals
  PROVE  Spec => []TypeOK
<1>1. IInv => TypeOK
  BY DEF IInv
<1>2. QED
  BY <1>1, LockInvariant, PTL

\* The lock word is looked at and changed by one process at a time.
THEOREM LockWordIsGuarded ==
  ASSUME DistinctSlots, NoSignals
  PROVE  Spec => []LockWordGuarded
<1>1. IInv => LockWordGuarded
  BY DEF IInv
<1>2. QED
  BY <1>1, LockInvariant, PTL

\* The FIFO is lent to one process at a time.
THEOREM LockExcludes ==
  ASSUME DistinctSlots, NoSignals
  PROVE  Spec => []MutualExclusion
<1>1. IInv => MutualExclusion
  <2> SUFFICES ASSUME IInv, NEW p \in holds, NEW q \in holds
               PROVE  p = q
    BY DEF MutualExclusion
  <2>1. p \in Proc /\ q \in Proc /\ LockedBy(p) /\ LockedBy(q)
    BY DEF IInv, TypeOK, HolderNamed
  <2>2. QED
    BY <2>1, LockWordNamesOne
<1>2. QED
  BY <1>1, LockInvariant, PTL

\* Whoever the FIFO is lent to is named by the lock word until it gives the FIFO back:
\* nobody frees the lock of another program.
THEOREM HolderIsNamed ==
  ASSUME DistinctSlots, NoSignals
  PROVE  Spec => []HolderNamed
<1>1. IInv => HolderNamed
  BY DEF IInv
<1>2. QED
  BY <1>1, LockInvariant, PTL

\* Two processes are never both lent the FIFO, and only the borrower gives it
\* back: waitlock and unlock implement a mutual exclusion lock.
THEOREM LockImplementsMutex ==
  ASSUME DistinctSlots, NoSignals
  PROVE  Spec => ImplementsMutex
<1>1. Init => Mutex!Init
  BY DEF Init, Mutex!Init
<1>2. ASSUME IInv, [Next]_vars
      PROVE  [Mutex!Next]_holds
  <2>1. ASSUME NEW p \in Proc, WaitlockReturn(p)
        PROVE  [Mutex!Next]_holds
    <3>1. \A q \in holds : q = p
      BY <1>2, <2>1, LockWordNamesOne
         DEF IInv, TypeOK, HolderNamed, KnowsTaken, WaitlockReturn, Goto
    <3>2. holds = {} \/ holds = {p}
      BY <3>1
    <3>3. QED
      BY <2>1, <3>2 DEF WaitlockReturn, Mutex!Next, Mutex!Acquire
  <2>2. ASSUME NEW p \in Proc, CallUnlock(p)
        PROVE  [Mutex!Next]_holds
    <3>1. CASE p \in holds
      <4>1. \A q \in holds : q = p
        BY <1>2, <3>1, LockWordNamesOne DEF IInv, TypeOK, HolderNamed
      <4>2. holds = {p} /\ holds' = {}
        BY <2>2, <3>1, <4>1 DEF CallUnlock
      <4>3. QED
        BY <4>2 DEF Mutex!Next, Mutex!Release
    <3>2. CASE p \notin holds
      BY <2>2, <3>2 DEF CallUnlock
    <3>3. QED
      BY <3>1, <3>2
  <2>3. ASSUME NEW p \in Proc, CallWaitlock(p) \/ WaitlockAcquire(p)
                  \/ WaitlockCheck(p) \/ WaitlockTake(p) \/ WaitlockRetry(p)
                  \/ WaitlockWake(p) \/ WaitlockRecheck(p) \/ UnlockAcquire(p)
                  \/ UnlockCheck(p) \/ UnlockReset(p) \/ UnlockReturn(p)
        PROVE  holds' = holds
    BY <2>3 DEF CallWaitlock, WaitlockAcquire, WaitlockCheck, WaitlockTake,
       WaitlockRetry, WaitlockWake, WaitlockRecheck, UnlockAcquire, UnlockCheck,
       UnlockReset, UnlockReturn
  <2>4. CASE UNCHANGED vars
    BY <2>4 DEF vars
  <2>5. QED
    BY <1>2, <2>1, <2>2, <2>3, <2>4 DEF Next, Waitlock, Unlock
<1>3. QED
  BY <1>1, <1>2, LockInvariant, PTL DEF ImplementsMutex, Mutex!Spec, Spec
===============================================================================
