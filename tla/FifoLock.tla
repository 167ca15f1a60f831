------------------------------- MODULE FifoLock -------------------------------
(***************************************************************************)
(* The lock of one FIFO (FIFOlib/myFIFO.cpp, waitlock and unlock): a status *)
(* word in shared memory, read and written under semaphore number 1 of the *)
(* FIFO, and polled every 10 microseconds while another process has it.    *)
(* Every semop and every access to the status word is a step of its own.   *)
(*                                                                         *)
(* The result of semop is never looked at.  A process in Interruptible may *)
(* receive SIGINT (the usual way to stop a run) while it is blocked in     *)
(* semop: the call returns EINTR, the semaphore is unchanged and the       *)
(* process goes on as if it had succeeded.                                 *)
(***************************************************************************)
EXTENDS Integers

CONSTANTS Writer,         \* the readout process
          Reader,         \* the data writer process
          Samplers,       \* the monitoring processes
          sam_ind,        \* the slot each sampler took when it attached
          MAXSM,          \* the number of sampler slots
          Interruptible   \* the processes a signal may interrupt in semop

Proc == {Writer, Reader} \union Samplers

ASSUME LockAssumption ==
  /\ Writer # Reader
  /\ Writer \notin Samplers
  /\ Reader \notin Samplers
  /\ MAXSM \in Nat \ {0}
  /\ sam_ind \in [Samplers -> 0 .. MAXSM - 1]
  /\ Interruptible \subseteq Proc

\* The slots of the samplers that are attached are all different.
DistinctSlots == \A s, t \in Samplers : sam_ind[s] = sam_ind[t] => s = t

VARIABLES sem,         \* value of semaphore 1
          status,      \* the lock word
          sam_locker,  \* the slot of the sampler that last took the lock
          pc,          \* where each process is in waitlock or unlock
          holds        \* the processes whose last waitlock returned and that
                       \* have not called unlock since

vars == <<sem, status, sam_locker, pc, holds>>

Status == {"LOCKEDFORWR", "LOCKEDFORRD", "LOCKEDFORSM", "UNLOCKED"}

\* The places where a process is between its two semop calls.
Critical == {"wl_check", "wl_take", "wl_retry", "wl_recheck", "wl_release",
             "ul_check", "ul_reset", "ul_release"}

Places == Critical \union {"run", "wl_acquire", "wl_sleep", "ul_acquire"}

LockOf(p) == IF p = Writer THEN "LOCKEDFORWR"
             ELSE IF p = Reader THEN "LOCKEDFORRD" ELSE "LOCKEDFORSM"

\* The lock word says that p has the lock.
LockedBy(p) == /\ status = LockOf(p)
               /\ p \in Samplers => sam_locker = sam_ind[p]

\* Mutants of MayUnlock: the lock word is not looked at; only the readout's lock
\* is ever given back.
MayUnlockAny(p)        == p \in Proc
MayUnlockWriterOnly(p) == p = Writer /\ status = "LOCKEDFORWR"

\* The condition under which unlock resets the lock word for p.
MayUnlock(p) == IF p \in Samplers
                THEN status = "LOCKEDFORSM" \/ sam_locker = sam_ind[p]
                ELSE status = LockOf(p)

-------------------------------------------------------------------------------
Goto(p, from, to) == /\ pc[p] = from
                     /\ pc' = [pc EXCEPT ![p] = to]

\* Mutant of SemEnter: "wait for 0" is left out.
SemEnterNoWait(p) == p \in Proc /\ sem' = sem + 1

\* semop with "wait for 0, then add 1".
SemEnter(p) == \/ sem = 0 /\ sem' = 1
               \/ sem # 0 /\ p \in Interruptible /\ UNCHANGED sem

\* semop with -1.
SemLeave(p) == \/ sem > 0 /\ sem' = sem - 1
               \/ sem = 0 /\ p \in Interruptible /\ UNCHANGED sem

Init == /\ sem = 0
        /\ status = "UNLOCKED"
        /\ sam_locker = MAXSM + 1
        /\ pc = [p \in Proc |-> "run"]
        /\ holds = {}

(***************************************************************************)
(* waitlock.  The readout calls it again while it has the lock (myOpenRun, *)
(* then myFIFOlock); the others call it only when they have given it back. *)
(***************************************************************************)
CallWaitlock(p) == /\ p = Writer \/ p \notin holds
                   /\ Goto(p, "run", "wl_acquire")
                   /\ UNCHANGED <<sem, status, sam_locker, holds>>

WaitlockAcquire(p) == /\ Goto(p, "wl_acquire", "wl_check")
                      /\ SemEnter(p)
                      /\ UNCHANGED <<status, sam_locker, holds>>

\* The first look at the lock word: a process finds its own lock, no lock, or
\* the lock of another.
WaitlockCheck(p) ==
  /\ \/ LockedBy(p) /\ Goto(p, "wl_check", "wl_release")
     \/ status = "UNLOCKED" /\ Goto(p, "wl_check", "wl_take")
     \/ status # "UNLOCKED" /\ ~LockedBy(p) /\ Goto(p, "wl_check", "wl_retry")
  /\ UNCHANGED <<sem, status, sam_locker, holds>>

\* Mutant of WaitlockTake: the slot is not recorded.
WaitlockTakeNoSlot(p) == /\ Goto(p, "wl_take", "wl_release")
                         /\ status' = LockOf(p)
                         /\ UNCHANGED <<sem, sam_locker, holds>>

WaitlockTake(p) == /\ Goto(p, "wl_take", "wl_release")
                   /\ status' = LockOf(p)
                   /\ sam_locker' = IF p \in Samplers THEN sam_ind[p] ELSE sam_locker
                   /\ UNCHANGED <<sem, holds>>

WaitlockRetry(p) == /\ Goto(p, "wl_retry", "wl_sleep")
                    /\ SemLeave(p)
                    /\ UNCHANGED <<status, sam_locker, holds>>

\* After usleep(10).
WaitlockWake(p) == /\ Goto(p, "wl_sleep", "wl_recheck")
                   /\ SemEnter(p)
                   /\ UNCHANGED <<status, sam_locker, holds>>

\* Mutant of WaitlockRecheck: after the sleep the lock is taken unseen.
WaitlockRecheckBlind(p) == /\ Goto(p, "wl_recheck", "wl_take")
                           /\ UNCHANGED <<sem, status, sam_locker, holds>>

\* The look at the lock word inside the polling loop.
WaitlockRecheck(p) ==
  /\ \/ status = "UNLOCKED" /\ Goto(p, "wl_recheck", "wl_take")
     \/ status # "UNLOCKED" /\ Goto(p, "wl_recheck", "wl_retry")
  /\ UNCHANGED <<sem, status, sam_locker, holds>>

WaitlockReturn(p) == /\ Goto(p, "wl_release", "run")
                     /\ SemLeave(p)
                     /\ holds' = holds \union {p}
                     /\ UNCHANGED <<status, sam_locker>>

(***************************************************************************)
(* unlock.  The readout also calls it when it does not have the lock       *)
(* (myFIFOunlock at the end of the run, then myCloseRun).                  *)
(***************************************************************************)
CallUnlock(p) == /\ p = Writer \/ p \in holds
                 /\ Goto(p, "run", "ul_acquire")
                 /\ holds' = holds \ {p}
                 /\ UNCHANGED <<sem, status, sam_locker>>

UnlockAcquire(p) == /\ Goto(p, "ul_acquire", "ul_check")
                    /\ SemEnter(p)
                    /\ UNCHANGED <<status, sam_locker, holds>>

UnlockCheck(p) ==
  /\ \/ status # "UNLOCKED" /\ MayUnlock(p) /\ Goto(p, "ul_check", "ul_reset")
     \/ (status = "UNLOCKED" \/ ~MayUnlock(p)) /\ Goto(p, "ul_check", "ul_release")
  /\ UNCHANGED <<sem, status, sam_locker, holds>>

UnlockReset(p) == /\ Goto(p, "ul_reset", "ul_release")
                  /\ status' = "UNLOCKED"
                  /\ UNCHANGED <<sem, sam_locker, holds>>

UnlockReturn(p) == /\ Goto(p, "ul_release", "run")
                   /\ SemLeave(p)
                   /\ UNCHANGED <<status, sam_locker, holds>>

-------------------------------------------------------------------------------
Waitlock(p) == \/ WaitlockAcquire(p)
               \/ WaitlockCheck(p)
               \/ WaitlockTake(p)
               \/ WaitlockRetry(p)
               \/ WaitlockWake(p)
               \/ WaitlockRecheck(p)
               \/ WaitlockReturn(p)

Unlock(p) == \/ UnlockAcquire(p)
             \/ UnlockCheck(p)
             \/ UnlockReset(p)
             \/ UnlockReturn(p)

Next == \E p \in Proc : \/ CallWaitlock(p)
                        \/ Waitlock(p)
                        \/ CallUnlock(p)
                        \/ Unlock(p)

Spec == Init /\ [][Next]_vars

(***************************************************************************)
(* Fairness: a process that is inside waitlock or unlock is scheduled, a   *)
(* process that waits in semop is served in its turn (the kernel has a     *)
(* queue for each semaphore), and a process that has the lock gives it     *)
(* back (the readout between spills, the others after each call).  Nothing *)
(* says that a process that polls the lock word ever finds it free: it     *)
(* looks every 10 microseconds, and the lock itself has no queue.          *)
(***************************************************************************)
Fairness ==
  /\ \A p \in Proc :
       /\ WF_vars(Waitlock(p) \/ Unlock(p) \/ (p \in holds /\ CallUnlock(p)))
       /\ SF_vars(WaitlockAcquire(p) \/ WaitlockWake(p) \/ UnlockAcquire(p))
  /\ SF_vars(CallUnlock(Writer))

FairSpec == Spec /\ Fairness

-------------------------------------------------------------------------------
TypeOK == /\ sem \in {0, 1}
          /\ status \in Status
          /\ sam_locker \in 0 .. MAXSM + 1
          /\ pc \in [Proc -> Places]
          /\ holds \subseteq Proc

\* Two processes are never both between the semop that "locks the variable
\* before read" and the one that frees it, in waitlock or in unlock
\* (myFIFO.cpp lines 249-250 and 380-381).
LockWordGuarded ==
  \A p, q \in Proc : pc[p] \in Critical /\ pc[q] \in Critical => p = q

\* The FIFO is never lent to two processes: the readout that fills it, the
\* data writer that empties it and the samplers exclude one another.
MutualExclusion == \A p, q \in holds : p = q

\* A process that was lent the FIFO finds its own name in the lock word for
\* as long as it has it, whatever waitlock and unlock the others call (the
\* guards of write, myFIFOWriter.cpp:12, and dumpData, myFIFOReader.cpp:128,
\* rely on it).
HolderNamed == \A p \in holds : LockedBy(p)

\* The lock is a mutual exclusion lock.
Mutex == INSTANCE FifoMutex WITH Proc <- Proc, holds <- holds
ImplementsMutex == Mutex!Spec

\* The places of a process that waits for the FIFO.
InWaitlock == {"wl_acquire", "wl_check", "wl_take", "wl_retry", "wl_sleep",
               "wl_recheck", "wl_release"}

\* A FIFO that nobody has does not stay free while somebody waits for it: an
\* unlock is never stuck behind the processes that poll the lock word, and what
\* it gives back one of them takes (which one, nothing in myFIFO.cpp:262-283 says).
NoDeadlock ==
  (holds = {} /\ \E p \in Proc : pc[p] \in InWaitlock) ~> holds # {}

-------------------------------------------------------------------------------
(***************************************************************************)
(* The inductive invariant behind these properties when no signal comes.   *)
(***************************************************************************)

\* Semaphore 1 is up exactly while some process is between its semops.
SemaphoreUp == \A p \in Proc : pc[p] \in Critical => sem = 1

\* What each process knows about the lock word where it is.
KnowsFree    == \A p \in Proc : pc[p] = "wl_take" => status = "UNLOCKED"
KnowsTaken   == \A p \in Proc : pc[p] = "wl_release" => LockedBy(p)
KnowsReset   == \A p \in Proc : pc[p] = "ul_reset" => LockedBy(p)
StillLocked  == \A p \in Proc \ {Writer} :
                  pc[p] \in {"ul_acquire", "ul_check", "ul_reset"} => LockedBy(p)
GivenBack    == \A p \in holds :
                  pc[p] \notin {"ul_acquire", "ul_check", "ul_reset", "ul_release"}

IInv == /\ TypeOK
        /\ LockWordGuarded
        /\ SemaphoreUp
        /\ KnowsFree
        /\ KnowsTaken
        /\ KnowsReset
        /\ StillLocked
        /\ GivenBack
        /\ HolderNamed
===============================================================================
