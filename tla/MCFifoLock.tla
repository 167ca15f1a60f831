------------------------------ MODULE MCFifoLock ------------------------------
EXTENDS FifoLock
CONSTANTS s1, s2

\* Two samplers, in slots of their own.
MCSamplers == {s1, s2}
MCSlots == [s \in Samplers |-> IF s = s1 THEN 0 ELSE 1]
===============================================================================
