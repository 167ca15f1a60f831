------------------------------ MODULE FifoMutex ------------------------------
(***************************************************************************)
(* What waitlock and unlock promise to the programs that call them: the    *)
(* FIFO is lent to one process at a time.  A process that is lent the FIFO *)
(* has it until it gives it back itself.                                   *)
(***************************************************************************)
CONSTANT Proc

VARIABLE holds      \* the processes that have the FIFO on loan

Init == holds = {}

Acquire(p) == /\ holds = {}
              /\ holds' = {p}

Release(p) == /\ holds = {p}
              /\ holds' = {}

Next == \E p \in Proc : Acquire(p) \/ Release(p)

Spec == Init /\ [][Next]_holds
==============================================================================
