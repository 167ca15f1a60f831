------------------------------ MODULE FifoQueue ------------------------------
(***************************************************************************)
(* What a FIFO promises to the readout and to the data writer: the words   *)
(* of the events reach the file in the order in which they were written,   *)
(* each one once, and at most Size of them are under way.                  *)
(*                                                                         *)
(* A word is the number of words written before it.                        *)
(***************************************************************************)
EXTENDS Integers, Sequences

CONSTANTS Size,         \* capacity of the FIFO, in words
          EventSizes,   \* sizes an event may have, in words
          Chunk         \* words moved to the file by one call

VARIABLES written,      \* words put in the FIFO
          file          \* words in the file, in their order

Init == /\ written = 0
        /\ file = <<>>

Put(n) == /\ written - Len(file) + n <= Size
          /\ written' = written + n
          /\ UNCHANGED file

\* The next k words in the order of the stream.
Take(k) == /\ Len(file) + k <= written
           /\ file' = file \o [j \in 1 .. k |-> Len(file) + j - 1]
           /\ UNCHANGED written

Next == \/ \E n \in EventSizes : Put(n)
        \/ \E k \in 1 .. Chunk : Take(k)

Spec == Init /\ [][Next]_<<written, file>>
==============================================================================
