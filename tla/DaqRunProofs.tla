---------------------------- MODULE DaqRunProofs ----------------------------
(***************************************************************************)
(* A run of the data acquisition keeps its spills locked and accounted for *)
(* and its quota, for FIFOs, chunks, quotas and file sizes of any size.    *)
(***************************************************************************)
EXTENDS DaqRun, TLAPS

\* The smaller of two numbers.
LEMMA MinOfTwo ==
  ASSUME NEW a \in Int, NEW b \in Int
  PROVE  /\ Min({a, b}) \in {a, b}
         /\ Min({a, b}) <= a
         /\ Min({a, b}) <= b
<1> DEFINE S == {a, b}
<1>1. \E x \in S : \A y \in S : x <= y
  OBVIOUS
<1>2. Min(S) \in S /\ \A y \in S : Min(S) <= y
  BY <1>1 DEF Min
<1>3. QED
  BY <1>2

\* A run starts in the invariant.
LEMMA InitDaqInv == Init => DaqInv
<1> SUFFICES ASSUME Init PROVE DaqInv
  OBVIOUS
<1> USE DaqAssumption DEF Init, Fifos
<1>1. TypeOK
  <2>1. <<>> \in Seq([events : Nat, evtsinrun : Int])
    OBVIOUS
  <2>2. files \in [Fifos -> Seq([events : Nat, evtsinrun : Int])]
    BY <2>1
  <2>3. QED
    BY <2>2 DEF TypeOK, ReadoutPlaces, WriterPlaces
<1>2. LocksMatch
  <2>1. ~HasPed /\ ~HasPhys
    BY DEF HasPed, HasPhys, HasBoth, Acquiring
  <2>2. ASSUME NEW f \in Fifos
        PROVE  ~Has(f) /\ lock[f] = "UNLOCKED" /\ wpc[f] = "wait"
    BY <2>1 DEF Has
  <2>3. QED
    BY <2>2 DEF LocksMatch
<1>3. Counted /\ Accounted /\ DumpedWritten
  BY DEF Counted, Accounted, DumpedWritten
<1>4. Quota
  BY DEF Quota, Waiting, Handling, Handled
<1>5. QED
  BY <1>1, <1>2, <1>3, <1>4 DEF DaqInv

\* dumpData takes at most what there is.
LEMMA DumpStep ==
  ASSUME DaqInv, NEW f \in Fifos, dumpData(f)
  PROVE  DaqInv'
<1> USE DEF DaqInv
<1> DEFINE k == Min({Chunk, written[f] - dumped[f]})
<1>1. written[f] \in Nat /\ dumped[f] \in Nat /\ infile[f] \in Nat
  BY DEF TypeOK
<1>2. k \in Int /\ k <= written[f] - dumped[f]
  <2> DEFINE d == written[f] - dumped[f]
  <2>1. d \in Int /\ Chunk \in Int
    BY <1>1, DaqAssumption
  <2> HIDE DEF d
  <2>2. Min({Chunk, d}) \in {Chunk, d} /\ Min({Chunk, d}) <= d
    BY <2>1, MinOfTwo
  <2>3. Min({Chunk, d}) \in Int
    BY <2>1, <2>2
  <2>4. QED
    BY <2>2, <2>3 DEF d
<1>3. /\ k > 0
      /\ dumped' = [dumped EXCEPT ![f] = @ + k]
      /\ infile' = [infile EXCEPT ![f] = @ + k]
      /\ wpc[f] = "dump" /\ wpc' = [wpc EXCEPT ![f] = "unlock"]
      /\ UNCHANGED <<rpc, site, tmpfifo, events, inSpill, abort_run, lock, written, numevt,
                     writer, nevtsaved, files>>
  BY DEF dumpData, WGoto, readout, beam
<1> HIDE DEF k
<1>4. TypeOK'
  <2>1. dumped[f] + k \in Nat /\ infile[f] + k \in Nat
    BY <1>1, <1>2, <1>3
  <2>2. dumped' \in [Fifos -> Nat] /\ infile' \in [Fifos -> Nat]
    BY <1>3, <2>1 DEF TypeOK
  <2>3. QED
    BY <1>3, <2>2 DEF TypeOK, WriterPlaces
<1>5. LocksMatch'
  BY <1>3 DEF LocksMatch, Has, HasPed, HasPhys, HasBoth, Acquiring, FullWindow, TypeOK
<1>6. (Counted /\ Accounted /\ Quota)'
  BY <1>3 DEF Counted, Accounted, Acquiring, Quota, Limit
<1>7. DumpedWritten'
  BY <1>1, <1>2, <1>3 DEF DumpedWritten, TypeOK
<1>8. QED
  BY <1>4, <1>5, <1>6, <1>7

\* A short fwrite changes nothing but what is in the file.
LEMMA DumpFailsStep ==
  ASSUME DaqInv, NEW f \in Fifos, DumpFails(f)
  PROVE  DaqInv'
<1> USE DEF DaqInv
<1>1. PICK k \in 0 .. Min({Chunk, written[f] - dumped[f]}) - 1 :
        infile' = [infile EXCEPT ![f] = @ + k]
  BY DEF DumpFails
<1>2. /\ wpc[f] = "dump" /\ wpc' = [wpc EXCEPT ![f] = "unlock"]
      /\ UNCHANGED <<rpc, site, tmpfifo, events, inSpill, abort_run, lock, written, dumped,
                     numevt, writer, nevtsaved, files>>
  BY DEF DumpFails, WGoto, readout, beam
<1>3. TypeOK'
  <2>1. infile[f] + k \in Nat
    BY DEF TypeOK
  <2>2. infile' \in [Fifos -> Nat]
    BY <1>1, <2>1 DEF TypeOK
  <2>3. QED
    BY <1>2, <2>2 DEF TypeOK, WriterPlaces
<1>4. LocksMatch'
  BY <1>2 DEF LocksMatch, Has, HasPed, HasPhys, HasBoth, Acquiring, FullWindow, TypeOK
<1>5. (Counted /\ Accounted /\ DumpedWritten /\ Quota)'
  BY <1>2 DEF Counted, Accounted, DumpedWritten, Acquiring, Quota, Limit
<1>6. QED
  BY <1>3, <1>4, <1>5

\* Closing a file changes nothing but what the data writer has saved.
LEMMA FileStep ==
  ASSUME DaqInv, NEW f \in Fifos, Rollover(f) \/ EndOfRun(f)
  PROVE  DaqInv'
<1> USE DEF DaqInv
<1>1. /\ UNCHANGED <<rpc, site, tmpfifo, events, inSpill, abort_run, lock, written, dumped,
                     numevt, writer>>
      /\ wpc[f] \in {"empty", "final"}
      /\ wpc' \in {[wpc EXCEPT ![f] = "present"], [wpc EXCEPT ![f] = "gone"]}
      /\ CloseFile(f) \/ UNCHANGED output
  BY DEF Rollover, EndOfRun, WGoto, readout, beam
<1>2. /\ files' \in [Fifos -> Seq([events : Nat, evtsinrun : Int])]
      /\ nevtsaved' \in [Fifos -> Nat]
      /\ infile' \in [Fifos -> Nat]
  <2>1. CASE UNCHANGED output
    BY <2>1 DEF output, TypeOK
  <2>2. CASE CloseFile(f)
    <3>1. [events |-> infile[f], evtsinrun |-> numevt[f] - nevtsaved[f]]
            \in [events : Nat, evtsinrun : Int]
      BY DEF TypeOK
    <3>2. QED
      BY <2>2, <3>1 DEF CloseFile, TypeOK
  <2>3. QED
    BY <1>1, <2>1, <2>2
<1>3. TypeOK'
  BY <1>1, <1>2 DEF TypeOK, WriterPlaces
<1>4. LocksMatch'
  <2>1. ASSUME NEW g \in Fifos
        PROVE  /\ lock'[g] = lock[g]
               /\ Has(g)' <=> Has(g)
               /\ wpc'[g] \in {"dump", "unlock"} <=> wpc[g] \in {"dump", "unlock"}
    BY <1>1 DEF Has, HasPed, HasPhys, HasBoth, Acquiring, FullWindow, TypeOK
  <2>2. QED
    BY <2>1 DEF LocksMatch
<1>5. (Counted /\ Accounted /\ DumpedWritten /\ Quota)'
  BY <1>1 DEF Counted, Accounted, DumpedWritten, Acquiring, Quota, Limit
<1>6. QED
  BY <1>3, <1>4, <1>5

\* Every step keeps the invariant.
LEMMA NextDaqInv ==
  ASSUME DaqInv, [Next]_vars
  PROVE  DaqInv'
<1> USE DaqAssumption DEF DaqInv, Fifos
<1>1. ASSUME NEW f \in Fifos, Open(f) PROVE DaqInv'
  <2> USE <1>1 DEF Open, Goto, readout, beam, output
  <2>1. events["phys"] \in Nat /\ maxevts \in Nat /\ site \in {"loop", "spill_end", "run_end"}
    BY DEF TypeOK
  <2>2. TypeOK'
    BY DEF TypeOK, ReadoutPlaces, WriterPlaces
  <2>3. LocksMatch'
    BY DEF LocksMatch, Has, HasPed, HasPhys, HasBoth, Acquiring, FullWindow, TypeOK
  <2>4. (Counted /\ Accounted /\ DumpedWritten)'
    BY DEF Counted, Accounted, DumpedWritten, Acquiring, TypeOK
  <2>5. Quota'
    BY <2>1 DEF Quota, Waiting, Handling, Handled, Limit
  <2>6. QED
    BY <2>2, <2>3, <2>4, <2>5
<1>2. ASSUME NEW f \in Fifos, Lock(f) PROVE DaqInv'
  <2> USE <1>2 DEF Lock, Waitlock, Goto, readout, beam, output
  <2>1. events["phys"] \in Nat /\ maxevts \in Nat /\ site \in {"loop", "spill_end", "run_end"}
    BY DEF TypeOK
  <2>2. TypeOK'
    BY DEF TypeOK, ReadoutPlaces, WriterPlaces
  <2>3. LocksMatch'
    BY DEF LocksMatch, Has, HasPed, HasPhys, HasBoth, Acquiring, FullWindow, TypeOK
  <2>4. (Counted /\ Accounted /\ DumpedWritten)'
    BY DEF Counted, Accounted, DumpedWritten, Acquiring, TypeOK
  <2>5. Quota'
    BY <2>1 DEF Quota, Waiting, Handling, Handled, Limit
  <2>6. QED
    BY <2>2, <2>3, <2>4, <2>5
<1>3. ASSUME NEW f \in Fifos, Trigger(f) PROVE DaqInv'
  BY <1>3 DEF Trigger, Goto, readout, beam, output,
     TypeOK, ReadoutPlaces, LocksMatch, Has, HasPed, HasPhys, HasBoth, Acquiring,
     FullWindow, Counted, Accounted, DumpedWritten, Quota, Waiting, Handling, Handled, Limit
<1>4. ASSUME NEW f \in Fifos, FIFOunlock(f) PROVE DaqInv'
  <2> USE <1>4 DEF FIFOunlock, Unlock, Goto, readout, beam, output
  <2>1. events["phys"] \in Nat /\ maxevts \in Nat /\ site \in {"loop", "spill_end", "run_end"}
    BY DEF TypeOK
  <2>2. TypeOK'
    BY DEF TypeOK, ReadoutPlaces, WriterPlaces
  <2>3. LocksMatch'
    BY DEF LocksMatch, Has, HasPed, HasPhys, HasBoth, Acquiring, FullWindow, TypeOK
  <2>4. (Counted /\ Accounted /\ DumpedWritten)'
    BY DEF Counted, Accounted, DumpedWritten, Acquiring, TypeOK
  <2>5. Quota'
    BY <2>1 DEF Quota, Waiting, Handling, Handled, Limit
  <2>6. QED
    BY <2>2, <2>3, <2>4, <2>5
<1>5. ASSUME NEW f \in Fifos, Delete(f) PROVE DaqInv'
  <2> USE <1>5 DEF Delete, Goto, readout, beam, output
  <2>1. events["phys"] \in Nat /\ maxevts \in Nat /\ site \in {"loop", "spill_end", "run_end"}
    BY DEF TypeOK
  <2>2. TypeOK'
    BY DEF TypeOK, ReadoutPlaces, WriterPlaces
  <2>3. LocksMatch'
    BY DEF LocksMatch, Has, HasPed, HasPhys, HasBoth, Acquiring, FullWindow, TypeOK
  <2>4. (Counted /\ Accounted /\ DumpedWritten)'
    BY DEF Counted, Accounted, DumpedWritten, Acquiring, TypeOK
  <2>5. Quota'
    BY <2>1 DEF Quota, Waiting, Handling, Handled, Limit
  <2>6. QED
    BY <2>2, <2>3, <2>4, <2>5
<1>6. ASSUME SpillStarts PROVE DaqInv'
  <2> USE <1>6 DEF SpillStarts, Goto, readout, beam, output
  <2>1. events["phys"] \in Nat /\ maxevts \in Nat /\ site \in {"loop", "spill_end", "run_end"}
    BY DEF TypeOK
  <2>2. TypeOK'
    BY DEF TypeOK, ReadoutPlaces, WriterPlaces
  <2>3. LocksMatch'
    BY DEF LocksMatch, Has, HasPed, HasPhys, HasBoth, Acquiring, FullWindow, TypeOK
  <2>4. (Counted /\ Accounted /\ DumpedWritten)'
    BY DEF Counted, Accounted, DumpedWritten, Acquiring, TypeOK
  <2>5. Quota'
    BY <2>1 DEF Quota, Waiting, Handling, Handled, Limit
  <2>6. QED
    BY <2>2, <2>3, <2>4, <2>5
<1>7. ASSUME NoTrigger PROVE DaqInv'
  BY <1>7 DEF NoTrigger, Goto, readout, beam, output,
     TypeOK, ReadoutPlaces, LocksMatch, Has, HasPed, HasPhys, HasBoth, Acquiring,
     FullWindow, Counted, Accounted, DumpedWritten, Quota, Waiting, Handling, Handled, Limit
<1>8. ASSUME GetEvent PROVE DaqInv'
  <2> USE <1>8 DEF GetEvent, Goto, readout, beam, output
  <2>1. events["phys"] \in Nat /\ maxevts \in Nat /\ site \in {"loop", "spill_end", "run_end"}
    BY DEF TypeOK
  <2>2. TypeOK'
    BY DEF TypeOK, ReadoutPlaces, WriterPlaces
  <2>3. LocksMatch'
    BY DEF LocksMatch, Has, HasPed, HasPhys, HasBoth, Acquiring, FullWindow, TypeOK
  <2>4. (Counted /\ Accounted /\ DumpedWritten)'
    BY DEF Counted, Accounted, DumpedWritten, Acquiring, TypeOK
  <2>5. Quota'
    BY <2>1 DEF Quota, Waiting, Handling, Handled, Limit
  <2>6. QED
    BY <2>2, <2>3, <2>4, <2>5
<1>9. ASSUME WriteEvent PROVE DaqInv'
  <2> USE <1>9 DEF WriteEvent, Goto, readout, beam, output
  <2>1. events["phys"] \in Nat /\ maxevts \in Nat /\ site \in {"loop", "spill_end", "run_end"}
    BY DEF TypeOK
  <2>2. TypeOK'
    BY SMTT(20) DEF TypeOK, ReadoutPlaces
  <2>3. LocksMatch'
    BY DEF LocksMatch, Has, HasPed, HasPhys, HasBoth, Acquiring, FullWindow, TypeOK
  <2>4. (Counted /\ Accounted /\ DumpedWritten)'
    BY DEF Counted, Accounted, DumpedWritten, Acquiring, TypeOK
  <2>5. Quota'
    BY <2>1 DEF Quota, Waiting, Handling, Handled, Limit
  <2>6. QED
    BY <2>2, <2>3, <2>4, <2>5
<1>10. ASSUME WriteFull PROVE DaqInv'
  BY <1>10 DEF WriteFull, Goto, readout, beam, output,
     TypeOK, ReadoutPlaces, LocksMatch, Has, HasPed, HasPhys, HasBoth, Acquiring,
     FullWindow, Counted, Accounted, DumpedWritten, Quota, Waiting, Handling, Handled, Limit
<1>11. ASSUME FullUnlock PROVE DaqInv'
  BY <1>11 DEF FullUnlock, Unlock, Goto, readout, beam, output,
     TypeOK, ReadoutPlaces, LocksMatch, Has, HasPed, HasPhys, HasBoth, Acquiring,
     FullWindow, Counted, Accounted, DumpedWritten, Quota, Waiting, Handling, Handled, Limit
<1>12. ASSUME FullRelock PROVE DaqInv'
  BY <1>12 DEF FullRelock, Waitlock, Goto, readout, beam, output,
     TypeOK, ReadoutPlaces, LocksMatch, Has, HasPed, HasPhys, HasBoth, Acquiring,
     FullWindow, Counted, Accounted, DumpedWritten, Quota, Waiting, Handling, Handled, Limit
<1>13. ASSUME CountEvent PROVE DaqInv'
  <2> USE <1>13 DEF CountEvent, Goto, readout, beam, output
  <2>1. events["phys"] \in Nat /\ maxevts \in Nat /\ site \in {"loop", "spill_end", "run_end"}
    BY DEF TypeOK
  <2>2. TypeOK'
    BY DEF TypeOK, ReadoutPlaces, WriterPlaces
  <2>3. LocksMatch'
    BY DEF LocksMatch, Has, HasPed, HasPhys, HasBoth, Acquiring, FullWindow, TypeOK
  <2>4. (Counted /\ Accounted /\ DumpedWritten)'
    BY DEF Counted, Accounted, DumpedWritten, Acquiring, TypeOK
  <2>5. Quota'
    BY <2>1, events'["phys"] <= events["phys"] + 1 DEF Quota, Waiting, Handling, Handled, Limit
  <2>6. QED
    BY <2>2, <2>3, <2>4, <2>5
<1>14. ASSUME Checked PROVE DaqInv'
  <2> USE <1>14 DEF Checked, Goto, readout, beam, output
  <2>1. events["phys"] \in Nat /\ maxevts \in Nat /\ site \in {"loop", "spill_end", "run_end"}
    BY DEF TypeOK
  <2>2. TypeOK'
    BY DEF TypeOK, ReadoutPlaces, WriterPlaces
  <2>3. LocksMatch'
    BY DEF LocksMatch, Has, HasPed, HasPhys, HasBoth, Acquiring, FullWindow, TypeOK
  <2>4. (Counted /\ Accounted /\ DumpedWritten)'
    BY DEF Counted, Accounted, DumpedWritten, Acquiring, TypeOK
  <2>5. Quota'
    BY <2>1 DEF Quota, Waiting, Handling, Handled, Limit
  <2>6. QED
    BY <2>2, <2>3, <2>4, <2>5
<1>15. ASSUME UpdateEvtNr PROVE DaqInv'
  BY <1>15 DEF UpdateEvtNr, Goto, readout, beam, output,
     TypeOK, ReadoutPlaces, LocksMatch, Has, HasPed, HasPhys, HasBoth, Acquiring,
     FullWindow, Counted, Accounted, DumpedWritten, Quota, Waiting, Handling, Handled, Limit
<1>16. ASSUME CloseRun PROVE DaqInv'
  BY <1>16 DEF CloseRun, Goto, readout, beam, output,
     TypeOK, ReadoutPlaces, LocksMatch, Has, HasPed, HasPhys, HasBoth, Acquiring,
     FullWindow, Counted, Accounted, DumpedWritten, Quota, Waiting, Handling, Handled, Limit
<1>17. ASSUME NEW f \in Fifos, FindWriter(f) PROVE DaqInv'
  BY <1>17 DEF FindWriter, WGoto, readout, beam, output,
     TypeOK, WriterPlaces, LocksMatch, Has, HasPed, HasPhys, HasBoth, Acquiring,
     FullWindow, Counted, Accounted, DumpedWritten, Quota, Limit
<1>18. ASSUME NEW f \in Fifos, WaitlockRD(f) PROVE DaqInv'
  BY <1>18 DEF WaitlockRD, Waitlock, WGoto, readout, beam, output,
     TypeOK, WriterPlaces, LocksMatch, Has, HasPed, HasPhys, HasBoth, Acquiring,
     FullWindow, Counted, Accounted, DumpedWritten, Quota, Limit
<1>19. ASSUME NEW f \in Fifos, dumpData(f) PROVE DaqInv'
  BY <1>19, DumpStep
<1>20. ASSUME NEW f \in Fifos, DumpEmpty(f) PROVE DaqInv'
  BY <1>20 DEF DumpEmpty, Unlock, WGoto, readout, beam, output,
     TypeOK, WriterPlaces, LocksMatch, Has, HasPed, HasPhys, HasBoth, Acquiring,
     FullWindow, Counted, Accounted, DumpedWritten, Quota, Limit
<1>21. ASSUME NEW f \in Fifos, UnlockRD(f) PROVE DaqInv'
  BY <1>21 DEF UnlockRD, Unlock, WGoto, readout, beam, output,
     TypeOK, WriterPlaces, LocksMatch, Has, HasPed, HasPhys, HasBoth, Acquiring,
     FullWindow, Counted, Accounted, DumpedWritten, Quota, Limit
<1>22. ASSUME NEW f \in Fifos, Rollover(f) PROVE DaqInv'
  BY <1>22, FileStep
<1>23. ASSUME NEW f \in Fifos, LookForWriter(f) PROVE DaqInv'
  BY <1>23 DEF LookForWriter, WGoto, readout, beam, output,
     TypeOK, WriterPlaces, LocksMatch, Has, HasPed, HasPhys, HasBoth, Acquiring,
     FullWindow, Counted, Accounted, DumpedWritten, Quota, Limit
<1>24. ASSUME NEW f \in Fifos, EndOfRun(f) PROVE DaqInv'
  BY <1>24, FileStep
<1>25. ASSUME Spill PROVE DaqInv'
  BY <1>25 DEF Spill, readout, output,
     TypeOK, ReadoutPlaces, LocksMatch, Has, HasPed, HasPhys, HasBoth, Acquiring,
     FullWindow, Counted, Accounted, DumpedWritten, Quota, Waiting, Handling, Handled, Limit
<1>26. ASSUME Abort PROVE DaqInv'
  BY <1>26 DEF Abort, readout, output,
     TypeOK, ReadoutPlaces, LocksMatch, Has, HasPed, HasPhys, HasBoth, Acquiring,
     FullWindow, Counted, Accounted, DumpedWritten, Quota, Waiting, Handling, Handled, Limit
<1>27. CASE UNCHANGED vars
  BY <1>27 DEF vars, readout, beam, output, TypeOK, LocksMatch, Has, HasPed, HasPhys, HasBoth,
     Acquiring, FullWindow, Counted, Accounted, DumpedWritten, Quota, Limit
<1>28. ASSUME NEW f \in Fifos, DumpFails(f) PROVE DaqInv'
  BY <1>28, DumpFailsStep
<1>29. QED
  BY <1>28, <1>1, <1>2, <1>3, <1>4, <1>5, <1>6, <1>7, <1>8, <1>9, <1>10, <1>11, <1>12, <1>13, <1>14,
     <1>15, <1>16, <1>17, <1>18, <1>19, <1>20, <1>21, <1>22, <1>23, <1>24, <1>25, <1>26, <1>27
     DEF Next, Readout, DataWriter

\* The invariant holds throughout a run.
THEOREM DaqInvariant == Spec => []DaqInv
  BY InitDaqInv, NextDaqInv, PTL DEF Spec

\* The variables of a run keep their types.
THEOREM DaqTyped == Spec => []TypeOK
<1>1. DaqInv => TypeOK
  BY DEF DaqInv
<1>2. QED
  BY <1>1, DaqInvariant, PTL

\* The readout never handles, writes or counts an event without both FIFOs, but for
\* the full one that it has lent (myFIFOlock, myWriteEvent).
THEOREM SpillsLocked == Spec => []SpillsAreLocked
<1>1. DaqInv => SpillsAreLocked
  BY DEF DaqInv, SpillsAreLocked, LocksMatch, Has, HasPed, HasPhys, HasBoth, Fifos
<1>2. QED
  BY <1>1, DaqInvariant, PTL

\* A data writer that has a FIFO outside the window of a full one finds all its events
\* accounted for (myFIFOUpdateEvtNr before myFIFOunlock).
THEOREM SpillsAccounted == Spec => []SpillsAreAccounted
<1>1. ASSUME DaqInv, NEW f \in Fifos, lock[f] = "READER", ~FullWindow(f)
      PROVE  numevt[f] = written[f]
  <2>1. ~Has(f)
    BY <1>1 DEF DaqInv, LocksMatch
  <2>2. ~Acquiring
    BY <2>1, <1>1 DEF Has, HasPed, HasPhys, HasBoth
  <2>3. written[f] = events[f]
    BY <2>2, <1>1 DEF DaqInv, Counted, Acquiring, TypeOK
  <2>4. QED
    BY <2>2, <2>3, <1>1 DEF DaqInv, Accounted
<1>2. DaqInv => SpillsAreAccounted
  BY <1>1 DEF SpillsAreAccounted
<1>3. QED
  BY <1>2, DaqInvariant, PTL

\* A run takes at most two physics events more than its quota, one in the first look
\* for a trigger of its last spill and one in the last look of the run.
THEOREM QuotaIsKept == Spec => []QuotaKept
<1>1. ASSUME DaqInv PROVE QuotaKept
  <2>1. /\ events["phys"] \in Nat /\ maxevts \in Nat
        /\ site \in {"loop", "spill_end", "run_end"}
    BY <1>1, DaqAssumption DEF DaqInv, TypeOK, Fifos
  <2>2. written["phys"] = events["phys"] + IF rpc = "count" /\ tmpfifo = "phys" THEN 1 ELSE 0
    BY <1>1 DEF DaqInv, Counted, Fifos
  <2>3. rpc = "count" => events["phys"] <= maxevts + 1
    BY <1>1, <2>1 DEF DaqInv, Quota, Handling, Limit
  <2>4. QED
    BY <1>1, <2>1, <2>2, <2>3 DEF DaqInv, Quota, QuotaKept
<1>2. QED
  BY <1>1, DaqInvariant, PTL

-------------------------------------------------------------------------------
(***************************************************************************)
(* The headers of the files.  The invariant says that there is one way to  *)
(* add up the headers of the closed files and that it gives nevtsaved; a   *)
(* file more adds one number to it, so that no induction is needed.        *)
(***************************************************************************)

\* h gives the sum of the first n headers of fs, for every n.
Sums(h, fs) == h = [n \in 0 .. Len(fs) |-> IF n = 0 THEN 0 ELSE h[n - 1] + fs[n].evtsinrun]

\* The headers of fs add up to total, and to nothing else.
AddUpTo(fs, total) == /\ \E h : Sums(h, fs)
                      /\ \A h : Sums(h, fs) => h[Len(fs)] = total

\* The places of the readout before the FIFO f is open, and after it is deleted.
Before(f) == IF f = "ped" THEN {"open_ped"} ELSE {"open_ped", "lock_ped", "open_phys"}
After(f)  == IF f = "ped" THEN {"done"} ELSE {"delete_ped", "done"}

\* The flag of the readout is set from the opening of the FIFO to its deletion; the
\* data writer works on an open FIFO, ends after its deletion and has saved the
\* count then.
Followed ==
  \A f \in Fifos : /\ writer[f] = "MISSING" <=> rpc \in Before(f) \union After(f)
                   /\ wpc[f] # "wait" => rpc \notin Before(f)
                   /\ wpc[f] \in {"final", "gone"} => rpc \in After(f)
                   /\ wpc[f] = "gone" => nevtsaved[f] = numevt[f]

HeadersInv == /\ DaqInv
              /\ Followed
              /\ \A f \in Fifos : AddUpTo(files[f], nevtsaved[f])

\* A run without files has saved nothing.
LEMMA NoFiles == AddUpTo(<<>>, 0)
<1>1. Sums([n \in 0 .. 0 |-> 0], <<>>)
  BY DEF Sums
<1>2. \A h : Sums(h, <<>>) => h[0] = 0
  BY DEF Sums
<1>3. QED
  BY <1>1, <1>2 DEF AddUpTo

\* One file more adds the count in its header.
LEMMA OneFileMore ==
  ASSUME NEW fs \in Seq([events : Nat, evtsinrun : Int]), NEW total \in Int,
         NEW file \in [events : Nat, evtsinrun : Int], AddUpTo(fs, total)
  PROVE  AddUpTo(Append(fs, file), total + file.evtsinrun)
<1> DEFINE gs == Append(fs, file)
           L == Len(fs)
<1>1. L \in Nat /\ Len(gs) = L + 1 /\ gs[L + 1] = file /\ \A n \in 1 .. L : gs[n] = fs[n]
  OBVIOUS
<1> HIDE DEF gs, L
<1>2. PICK h : h = [n \in 0 .. L |-> IF n = 0 THEN 0 ELSE h[n - 1] + fs[n].evtsinrun]
  BY DEF AddUpTo, Sums, L
<1>3. Sums([n \in 0 .. L + 1 |-> IF n = L + 1 THEN h[L] + file.evtsinrun ELSE h[n]], gs)
  <2> DEFINE g == [n \in 0 .. L + 1 |-> IF n = L + 1 THEN h[L] + file.evtsinrun ELSE h[n]]
  <2>1. ASSUME NEW n \in 0 .. L + 1
        PROVE  g[n] = IF n = 0 THEN 0 ELSE g[n - 1] + gs[n].evtsinrun
    <3>1. CASE n = L + 1
      BY <1>1, <3>1
    <3>2. CASE n \in 0 .. L
      <4>1. g[n] = h[n] /\ (n # 0 => g[n - 1] = h[n - 1] /\ gs[n] = fs[n])
        BY <1>1, <3>2
      <4>2. h[n] = IF n = 0 THEN 0 ELSE h[n - 1] + fs[n].evtsinrun
        BY <1>2, <3>2
      <4>3. QED
        BY <4>1, <4>2
    <3>3. QED
      BY <1>1, <3>1, <3>2
  <2>2. g = [n \in 0 .. L + 1 |-> g[n]]
    OBVIOUS
  <2> HIDE DEF g
  <2>3. g = [n \in 0 .. L + 1 |-> IF n = 0 THEN 0 ELSE g[n - 1] + gs[n].evtsinrun]
    BY <2>1, <2>2
  <2>4. Sums(g, gs)
    BY <1>1, <2>3 DEF Sums
  <2>5. QED
    BY <2>4 DEF g
<1>4. ASSUME NEW g, Sums(g, gs)
      PROVE  g[L + 1] = total + file.evtsinrun
  <2> DEFINE r == [n \in 0 .. L |-> g[n]]
  <2>1. \A n \in 0 .. L + 1 : g[n] = IF n = 0 THEN 0 ELSE g[n - 1] + gs[n].evtsinrun
    BY <1>1, <1>4 DEF Sums
  <2>2. ASSUME NEW n \in 0 .. L
        PROVE  r[n] = IF n = 0 THEN 0 ELSE r[n - 1] + fs[n].evtsinrun
    BY <1>1, <2>1
  <2>3. r = [n \in 0 .. L |-> r[n]] /\ r[L] = g[L]
    BY <1>1
  <2> HIDE DEF r
  <2>4. r = [n \in 0 .. L |-> IF n = 0 THEN 0 ELSE r[n - 1] + fs[n].evtsinrun]
    BY <2>2, <2>3
  <2>5. Sums(r, fs)
    BY <2>4 DEF Sums, L
  <2>6. g[L] = total
    BY <2>3, <2>5 DEF AddUpTo, L
  <2>7. g[L + 1] = g[L] + gs[L + 1].evtsinrun
    BY <1>1, <2>1
  <2>8. QED
    BY <1>1, <2>6, <2>7
<1>5. QED
  BY <1>1, <1>3, <1>4 DEF AddUpTo, gs

\* A closed file puts the count of the run in nevtsaved and the difference in its
\* header.
LEMMA CloseFileAddsUp ==
  ASSUME HeadersInv, NEW f \in Fifos, CloseFile(f)
  PROVE  /\ \A g \in Fifos : AddUpTo(files'[g], nevtsaved'[g])
         /\ \A g \in Fifos : nevtsaved'[g] = IF g = f THEN numevt[f] ELSE nevtsaved[g]
<1> USE DEF HeadersInv
<1> DEFINE file == [events |-> infile[f], evtsinrun |-> numevt[f] - nevtsaved[f]]
<1>1. /\ files' = [files EXCEPT ![f] = Append(@, file)]
      /\ nevtsaved' = [nevtsaved EXCEPT ![f] = numevt[f]]
  BY DEF CloseFile
<1>2. /\ numevt[f] \in Nat /\ nevtsaved[f] \in Nat
      /\ files[f] \in Seq([events : Nat, evtsinrun : Int])
      /\ file \in [events : Nat, evtsinrun : Int]
  BY DEF DaqInv, TypeOK
<1>3. file.evtsinrun = numevt[f] - nevtsaved[f]
  OBVIOUS
<1> HIDE DEF file
<1>4. AddUpTo(Append(files[f], file), nevtsaved[f] + file.evtsinrun)
  BY <1>2, OneFileMore
<1>5. nevtsaved[f] + file.evtsinrun = numevt[f]
  BY <1>2, <1>3
<1>6. \A g \in Fifos : /\ files'[g] = IF g = f THEN Append(files[f], file) ELSE files[g]
                       /\ nevtsaved'[g] = IF g = f THEN numevt[f] ELSE nevtsaved[g]
  BY <1>1 DEF DaqInv, TypeOK
<1>7. QED
  BY <1>4, <1>5, <1>6

\* Every step keeps what is saved.
LEMMA NextHeadersInv ==
  ASSUME HeadersInv, [Next]_vars
  PROVE  HeadersInv'
<1> USE DEF HeadersInv
<1>1. DaqInv'
  BY NextDaqInv
<1>2. /\ rpc \in ReadoutPlaces /\ wpc \in [Fifos -> WriterPlaces]
      /\ writer \in [Fifos -> {"PRESENT", "MISSING"}]
  BY DEF DaqInv, TypeOK
<1>3. ASSUME Followed', UNCHANGED <<files, nevtsaved>> PROVE HeadersInv'
  BY <1>1, <1>3
<1> USE DEF output, Before, After
<1>4. ASSUME NEW f \in Fifos, Open(f) PROVE HeadersInv'
  BY <1>2, <1>3, <1>4 DEF Open, Goto, Followed, ReadoutPlaces, Fifos
<1>5. ASSUME NEW f \in Fifos, Lock(f) PROVE HeadersInv'
  BY <1>2, <1>3, <1>5 DEF Lock, Goto, Followed, ReadoutPlaces
<1>6. ASSUME NEW f \in Fifos, Trigger(f) PROVE HeadersInv'
  BY <1>2, <1>3, <1>6 DEF Trigger, Goto, Followed, ReadoutPlaces
<1>7. ASSUME NEW f \in Fifos, FIFOunlock(f) PROVE HeadersInv'
  BY <1>2, <1>3, <1>7 DEF FIFOunlock, Goto, Followed, ReadoutPlaces
<1>8. ASSUME NEW f \in Fifos, Delete(f) PROVE HeadersInv'
  BY <1>2, <1>3, <1>8 DEF Delete, Goto, Followed, ReadoutPlaces, Fifos
<1>9. ASSUME SpillStarts PROVE HeadersInv'
  BY <1>2, <1>3, <1>9 DEF SpillStarts, Goto, Followed, ReadoutPlaces
<1>10. ASSUME NoTrigger PROVE HeadersInv'
  BY <1>2, <1>3, <1>10 DEF NoTrigger, Goto, Followed, ReadoutPlaces
<1>11. ASSUME GetEvent PROVE HeadersInv'
  BY <1>2, <1>3, <1>11 DEF GetEvent, Goto, Followed, ReadoutPlaces
<1>12. ASSUME WriteEvent PROVE HeadersInv'
  BY <1>2, <1>3, <1>12 DEF WriteEvent, Goto, Followed, ReadoutPlaces
<1>13. ASSUME WriteFull PROVE HeadersInv'
  BY <1>2, <1>3, <1>13 DEF WriteFull, Goto, Followed, ReadoutPlaces
<1>14. ASSUME FullUnlock PROVE HeadersInv'
  BY <1>2, <1>3, <1>14 DEF FullUnlock, Goto, Followed, ReadoutPlaces
<1>15. ASSUME FullRelock PROVE HeadersInv'
  BY <1>2, <1>3, <1>15 DEF FullRelock, Goto, Followed, ReadoutPlaces
<1>16. ASSUME CountEvent PROVE HeadersInv'
  BY <1>2, <1>3, <1>16 DEF CountEvent, Goto, Followed, ReadoutPlaces
<1>17. ASSUME Checked PROVE HeadersInv'
  BY <1>2, <1>3, <1>17 DEF Checked, Goto, Followed, ReadoutPlaces
<1>18. ASSUME UpdateEvtNr PROVE HeadersInv'
  BY <1>2, <1>3, <1>18 DEF UpdateEvtNr, Goto, Followed, ReadoutPlaces
<1>19. ASSUME CloseRun PROVE HeadersInv'
  BY <1>2, <1>3, <1>19 DEF CloseRun, Goto, Followed, ReadoutPlaces
<1>20. ASSUME NEW f \in Fifos, FindWriter(f) PROVE HeadersInv'
  BY <1>2, <1>3, <1>20 DEF FindWriter, WGoto, readout, Followed, ReadoutPlaces
<1>21. ASSUME NEW f \in Fifos, WaitlockRD(f) PROVE HeadersInv'
  BY <1>2, <1>3, <1>21 DEF WaitlockRD, WGoto, readout, Followed, ReadoutPlaces
<1>22. ASSUME NEW f \in Fifos, dumpData(f) PROVE HeadersInv'
  <2>1. /\ wpc[f] = "dump" /\ wpc' = [wpc EXCEPT ![f] = "unlock"]
        /\ UNCHANGED <<rpc, writer, numevt, nevtsaved, files>>
    BY <1>22 DEF dumpData, WGoto, readout
  <2>2. QED
    BY <1>2, <1>3, <2>1 DEF Followed
<1>23. ASSUME NEW f \in Fifos, DumpEmpty(f) PROVE HeadersInv'
  BY <1>2, <1>3, <1>23 DEF DumpEmpty, WGoto, readout, Followed, ReadoutPlaces
<1>24. ASSUME NEW f \in Fifos, UnlockRD(f) PROVE HeadersInv'
  BY <1>2, <1>3, <1>24 DEF UnlockRD, WGoto, readout, Followed, ReadoutPlaces
<1>25. ASSUME NEW f \in Fifos, LookForWriter(f) PROVE HeadersInv'
  BY <1>2, <1>3, <1>25 DEF LookForWriter, WGoto, readout, Followed, ReadoutPlaces
<1>26. ASSUME Spill PROVE HeadersInv'
  BY <1>2, <1>3, <1>26 DEF Spill, readout, Followed, ReadoutPlaces
<1>27. ASSUME Abort PROVE HeadersInv'
  BY <1>2, <1>3, <1>27 DEF Abort, readout, Followed, ReadoutPlaces
<1>28. ASSUME NEW f \in Fifos, Rollover(f) PROVE HeadersInv'
  <2>1. /\ wpc[f] = "empty" /\ wpc' = [wpc EXCEPT ![f] = "present"]
        /\ UNCHANGED <<rpc, writer, numevt>>
    BY <1>28 DEF Rollover, WGoto, readout
  <2>2. CASE CloseFile(f)
    <3>1. Followed'
      BY <1>2, <2>1, <2>2, CloseFileAddsUp DEF Followed
    <3>2. QED
      BY <1>1, <2>2, <3>1, CloseFileAddsUp
  <2>3. CASE UNCHANGED output
    <3>1. Followed'
      BY <1>2, <2>1, <2>3 DEF Followed
    <3>2. QED
      BY <1>3, <2>3, <3>1
  <2>4. QED
    BY <1>28, <2>2, <2>3 DEF Rollover
<1>29. ASSUME NEW f \in Fifos, EndOfRun(f) PROVE HeadersInv'
  <2>1. /\ wpc[f] = "final" /\ wpc' = [wpc EXCEPT ![f] = "gone"]
        /\ UNCHANGED <<rpc, writer, numevt>> /\ CloseFile(f)
    BY <1>29 DEF EndOfRun, WGoto, readout
  <2>2. Followed'
    BY <1>2, <2>1, CloseFileAddsUp DEF Followed
  <2>3. QED
    BY <1>1, <2>1, <2>2, CloseFileAddsUp
<1>30. CASE UNCHANGED vars
  BY <1>2, <1>3, <1>30 DEF vars, readout, Followed
<1>31. ASSUME NEW f \in Fifos, DumpFails(f) PROVE HeadersInv'
  <2>1. /\ wpc[f] = "dump" /\ wpc' = [wpc EXCEPT ![f] = "unlock"]
        /\ UNCHANGED <<rpc, writer, numevt, nevtsaved, files>>
    BY <1>31 DEF DumpFails, WGoto, readout
  <2>2. QED
    BY <1>2, <1>3, <2>1 DEF Followed
<1>32. QED
  BY <1>31, <1>4, <1>5, <1>6, <1>7, <1>8, <1>9, <1>10, <1>11, <1>12, <1>13, <1>14, <1>15,
     <1>16, <1>17, <1>18, <1>19, <1>20, <1>21, <1>22, <1>23, <1>24, <1>25, <1>26, <1>27,
     <1>28, <1>29, <1>30
     DEF Next, Readout, DataWriter

\* The headers of the files of a run add up to the events that the readout put in the
\* FIFO, in whichever step of the readout the files were split.
THEOREM HeadersAdded == Spec => []HeadersAddUp
<1>1. Init => HeadersInv
  <2>1. Init => Followed
    BY DEF Init, Followed, Before, After
  <2>2. Init => \A f \in Fifos : AddUpTo(files[f], nevtsaved[f])
    BY NoFiles DEF Init
  <2>3. QED
    BY InitDaqInv, <2>1, <2>2 DEF HeadersInv
<1>2. HeadersInv => HeadersAddUp
  <2> SUFFICES ASSUME HeadersInv, NEW f \in Fifos, wpc[f] = "gone"
               PROVE  SavedEvents(f) = written[f]
    BY DEF HeadersAddUp
  <2>1. /\ rpc \in {"delete_ped", "done"}
        /\ nevtsaved[f] = numevt[f]
    BY DEF HeadersInv, Followed, After
  <2>2. numevt[f] = events[f] /\ written[f] = events[f]
    BY <2>1 DEF HeadersInv, DaqInv, Accounted, Acquiring, Counted, TypeOK
  <2> DEFINE saved == CHOOSE h : Sums(h, files[f])
  <2>3. Sums(saved, files[f])
    BY DEF HeadersInv, AddUpTo
  <2> HIDE DEF saved
  <2>4. saved[Len(files[f])] = nevtsaved[f]
    BY <2>3 DEF HeadersInv, AddUpTo
  <2>5. SavedEvents(f) = saved[Len(files[f])]
    BY DEF SavedEvents, Sums, saved
  <2>6. QED
    BY <2>1, <2>2, <2>4, <2>5
<1>3. HeadersInv /\ [Next]_vars => HeadersInv'
  BY NextHeadersInv
<1>4. QED
  BY <1>1, <1>2, <1>3, PTL DEF Spec
=============================================================================
