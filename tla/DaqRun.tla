-------------------------------- MODULE DaqRun --------------------------------
(***************************************************************************)
(* One run of the data acquisition: the readout (main of myReadOut.cpp     *)
(* with myFIFO-IO.cpp), which fills a FIFO of physics events and one of    *)
(* pedestal events, and the two data writers (main of myDataWriter.cpp),   *)
(* which empty them into files.  The readout keeps both FIFOs locked       *)
(* during a spill and frees them between spills.                           *)
(*                                                                         *)
(* waitlock and unlock are the atomic operations of FifoMutex (FifoLock    *)
(* implements it), a FIFO is a FifoQueue with room for Capacity events     *)
(* (FifoRing implements it).  The flags and counters that the programs     *)
(* look at outside the lock are read in steps of their own.                *)
(***************************************************************************)
EXTENDS Integers, SequencesExt

CONSTANTS Capacity,       \* events that fit in a FIFO
          Chunk,          \* events moved by one dumpData call
          maxevts,        \* physics events the run is to take (MAXEVT)
          MAX_FILE_SIZE,  \* events after which a data file is closed
          FlakyDisk,      \* TRUE if the disk may take less than it is given
          MaxPed,         \* bound: pedestal triggers of the run
          MaxInFile       \* bound: a file of so many events grows no more when fwrite fails

ASSUME DaqAssumption == /\ Capacity \in Nat \ {0}
                        /\ Chunk \in Nat \ {0}
                        /\ maxevts \in Nat
                        /\ MAX_FILE_SIZE \in Nat \ {0}
                        /\ FlakyDisk \in BOOLEAN
                        /\ MaxPed \in Nat
                        /\ MaxInFile \in Nat

VARIABLES inSpill,   \* the spill signal of the accelerator
          abort_run, \* SIGINT came to the readout
          rpc,       \* where the readout is
          site,      \* which of its three calls of check_and_handle_event it is in
          tmpfifo,   \* the FIFO of the event it is writing
          events,    \* events it has counted (events and pedevents)
          lock,      \* the lock word of each FIFO
          written,   \* events written to each FIFO
          dumped,    \* events moved from each FIFO to the files
          numevt,    \* the event count in each FIFO's shared data
          writer,    \* each FIFO's flag that the readout is there
          wpc,       \* where the data writer of each FIFO is
          nevtsaved, \* events it has accounted for in the headers
          infile,    \* events in its open file
          files      \* its closed files: events in it, events in its header

readout == <<rpc, site, tmpfifo, events>>
beam    == <<inSpill, abort_run>>
output  == <<nevtsaved, infile, files>>
vars    == <<readout, beam, lock, written, dumped, numevt, writer, wpc, output>>

Fifos == {"phys", "ped"}

ReadoutPlaces == {"open_ped", "lock_ped", "open_phys", "lock_phys", "wait_spill",
                  "first_phys", "first_ped", "check", "busy", "write", "full", "relock",
                  "count", "checked", "account", "unlock_phys", "unlock_ped",
                  "wait_next", "next_phys", "next_ped", "close", "delete_phys",
                  "delete_ped", "done"}

WriterPlaces == {"wait", "lock", "dump", "unlock", "empty", "present", "final",
                 "gone"}

\* The readout and, some seconds later, the data writers are started by
\* dreamfunct.sh.  A data writer that is yet to be started, or has attached its
\* FIFO and polls isWriterPresent, is at "wait".
Init == /\ inSpill \in BOOLEAN
        /\ abort_run = FALSE
        /\ rpc = "open_ped"
        /\ site = "loop"
        /\ tmpfifo = "phys"
        /\ events = [f \in Fifos |-> 0]
        /\ lock = [f \in Fifos |-> "UNLOCKED"]
        /\ written = [f \in Fifos |-> 0]
        /\ dumped = [f \in Fifos |-> 0]
        /\ numevt = [f \in Fifos |-> 0]
        /\ writer = [f \in Fifos |-> "MISSING"]
        /\ wpc = [f \in Fifos |-> "wait"]
        /\ nevtsaved = [f \in Fifos |-> 0]
        /\ infile = [f \in Fifos |-> 0]
        /\ files = [f \in Fifos |-> <<>>]

-------------------------------------------------------------------------------
(***************************************************************************)
(* waitlock and unlock of process p, for the FIFO f.                       *)
(***************************************************************************)
Waitlock(f, p) == /\ lock[f] \in {"UNLOCKED", p}
                  /\ lock' = [lock EXCEPT ![f] = p]

Unlock(f, p) == lock' = [lock EXCEPT ![f] = IF @ = p THEN "UNLOCKED" ELSE @]

(***************************************************************************)
(* The readout.                                                            *)
(***************************************************************************)
Goto(from, to) == rpc = from /\ rpc' = to

\* myOpenRun: the constructor of each myFIFOWriter, then its waitlock.
Open(f) ==
  /\ \/ f = "ped" /\ Goto("open_ped", "lock_ped")
     \/ f = "phys" /\ Goto("open_phys", "lock_phys")
  /\ writer' = [writer EXCEPT ![f] = "PRESENT"]
  /\ UNCHANGED <<site, tmpfifo, events, beam, lock, written, dumped, numevt, wpc, output>>

\* waitlock, in myOpenRun and in the two calls of myFIFOlock.  The second call
\* of myFIFOlock is followed by a look at abort_run.
Lock(f) ==
  /\ IF f = "ped"
     THEN \/ Goto("lock_ped", "open_phys") /\ UNCHANGED site
          \/ Goto("first_ped", "check") /\ site' = "loop"
          \/ Goto("next_ped", "check") /\ site' = IF abort_run THEN "run_end" ELSE "loop"
     ELSE /\ \/ Goto("lock_phys", "wait_spill")
             \/ Goto("first_phys", "first_ped")
             \/ Goto("next_phys", "next_ped")
          /\ UNCHANGED site
  /\ Waitlock(f, "WRITER")
  /\ UNCHANGED <<tmpfifo, events, beam, written, dumped, numevt, writer, wpc, output>>

\* Mutant of SpillStarts: SIGINT is not looked at.
SpillStartsOnly ==
  /\ inSpill
  /\ Goto("wait_spill", "first_phys") \/ Goto("wait_next", "next_phys")
  /\ UNCHANGED <<site, tmpfifo, events, beam, lock, written, dumped, numevt, writer, wpc,
                 output>>

\* A spill starts, or SIGINT came.
SpillStarts ==
  /\ inSpill \/ abort_run
  /\ Goto("wait_spill", "first_phys") \/ Goto("wait_next", "next_phys")
  /\ UNCHANGED <<site, tmpfifo, events, beam, lock, written, dumped, numevt, writer, wpc,
                 output>>

\* check_and_handle_event: there is a trigger ...
Trigger(f) ==
  /\ Goto("check", "busy")
  /\ f = "ped" => events["ped"] < MaxPed
  /\ tmpfifo' = f
  /\ UNCHANGED <<site, events, beam, lock, written, dumped, numevt, writer, wpc, output>>

\* ... or there is none.
NoTrigger ==
  /\ Goto("check", "checked")
  /\ UNCHANGED <<site, tmpfifo, events, beam, lock, written, dumped, numevt, writer, wpc,
                 output>>

\* getEvent waits for the hardware.  If SIGINT came the event is not read.
GetEvent ==
  /\ \/ abort_run /\ Goto("busy", "checked")
     \/ ~abort_run /\ Goto("busy", "write")
  /\ UNCHANGED <<site, tmpfifo, events, beam, lock, written, dumped, numevt, writer, wpc,
                 output>>

\* myWriteEvent: the event is written ...
WriteEvent ==
  /\ Goto("write", "count")
  /\ written[tmpfifo] - dumped[tmpfifo] < Capacity
  /\ written' = [written EXCEPT ![tmpfifo] = @ + 1]
  /\ UNCHANGED <<site, tmpfifo, events, beam, lock, dumped, numevt, writer, wpc, output>>

\* ... or the answer is FIFOFULL, the FIFO is freed for 10 microseconds and the
\* event is tried again.
WriteFull ==
  /\ Goto("write", "full")
  /\ written[tmpfifo] - dumped[tmpfifo] = Capacity
  /\ UNCHANGED <<site, tmpfifo, events, beam, lock, written, dumped, numevt, writer, wpc,
                 output>>

FullUnlock ==
  /\ Goto("full", "relock")
  /\ Unlock(tmpfifo, "WRITER")
  /\ UNCHANGED <<site, tmpfifo, events, beam, written, dumped, numevt, writer, wpc, output>>

\* Mutant of FullRelock: the event is tried again without the lock.
FullRelockNever ==
  /\ Goto("relock", "write")
  /\ UNCHANGED <<site, tmpfifo, events, beam, lock, written, dumped, numevt, writer, wpc,
                 output>>

FullRelock ==
  /\ Goto("relock", "write")
  /\ Waitlock(tmpfifo, "WRITER")
  /\ UNCHANGED <<site, tmpfifo, events, beam, written, dumped, numevt, writer, wpc, output>>

\* handle_trigger counts the event.
CountEvent ==
  /\ Goto("count", "checked")
  /\ events' = [events EXCEPT ![tmpfifo] = @ + 1]
  /\ UNCHANGED <<site, tmpfifo, beam, lock, written, dumped, numevt, writer, wpc, output>>

\* Mutant of Checked: the quota is passed before the run ends.
CheckedLate ==
  /\ \/ /\ site = "loop"
        /\ Goto("checked", "check")
        /\ site' = IF events["phys"] > maxevts \/ abort_run THEN "run_end"
                   ELSE IF inSpill THEN "loop" ELSE "spill_end"
     \/ /\ site # "loop"
        /\ Goto("checked", "account")
        /\ UNCHANGED site
  /\ UNCHANGED <<tmpfifo, events, beam, lock, written, dumped, numevt, writer, wpc, output>>

\* After check_and_handle_event: the loop goes on, or the spill or the run is
\* over and there is a last look for a trigger, after which come the counters.
Checked ==
  /\ \/ /\ site = "loop"
        /\ Goto("checked", "check")
        /\ site' = IF events["phys"] >= maxevts \/ abort_run THEN "run_end"
                   ELSE IF inSpill THEN "loop" ELSE "spill_end"
     \/ /\ site # "loop"
        /\ Goto("checked", "account")
        /\ UNCHANGED site
  /\ UNCHANGED <<tmpfifo, events, beam, lock, written, dumped, numevt, writer, wpc, output>>

\* Mutant of UpdateEvtNr: pedestals are not accounted for.
UpdateEvtNrPhys ==
  /\ Goto("account", "unlock_phys")
  /\ numevt' = [numevt EXCEPT !["phys"] = events["phys"]]
  /\ UNCHANGED <<site, tmpfifo, events, beam, lock, written, dumped, writer, wpc, output>>

\* myFIFOUpdateEvtNr.
UpdateEvtNr ==
  /\ Goto("account", "unlock_phys")
  /\ numevt' = events
  /\ UNCHANGED <<site, tmpfifo, events, beam, lock, written, dumped, writer, wpc, output>>

\* myFIFOunlock, between spills and at the end of the run.
FIFOunlock(f) ==
  /\ \/ f = "phys" /\ Goto("unlock_phys", "unlock_ped")
     \/ f = "ped" /\ site = "spill_end" /\ Goto("unlock_ped", "wait_next")
     \/ f = "ped" /\ site = "run_end" /\ Goto("unlock_ped", "close")
  /\ Unlock(f, "WRITER")
  /\ UNCHANGED <<site, tmpfifo, events, beam, written, dumped, numevt, writer, wpc, output>>

\* myCloseRun unlocks the FIFOs again, which changes nothing unless the readout
\* has them, and deletes them.
CloseRun ==
  /\ Goto("close", "delete_phys")
  /\ lock' = [f \in Fifos |-> IF lock[f] = "WRITER" THEN "UNLOCKED" ELSE lock[f]]
  /\ UNCHANGED <<site, tmpfifo, events, beam, written, dumped, numevt, writer, wpc, output>>

\* Mutant of Delete: the flag stays.
DeleteKeepsFlag(f) ==
  /\ \/ f = "phys" /\ Goto("delete_phys", "delete_ped")
     \/ f = "ped" /\ Goto("delete_ped", "done")
  /\ UNCHANGED <<site, tmpfifo, events, beam, lock, written, dumped, numevt, writer, wpc,
                 output>>

Delete(f) ==
  /\ \/ f = "phys" /\ Goto("delete_phys", "delete_ped")
     \/ f = "ped" /\ Goto("delete_ped", "done")
  /\ writer' = [writer EXCEPT ![f] = "MISSING"]
  /\ UNCHANGED <<site, tmpfifo, events, beam, lock, written, dumped, numevt, wpc, output>>

-------------------------------------------------------------------------------
(***************************************************************************)
(* The data writer of the FIFO f.                                          *)
(***************************************************************************)
WGoto(f, from, to) == wpc[f] = from /\ wpc' = [wpc EXCEPT ![f] = to]

\* isWriterPresent, polled before the first file is opened.
FindWriter(f) ==
  /\ WGoto(f, "wait", "lock")
  /\ writer[f] = "PRESENT"
  /\ UNCHANGED <<readout, beam, lock, written, dumped, numevt, writer, output>>

WaitlockRD(f) ==
  /\ WGoto(f, "lock", "dump")
  /\ Waitlock(f, "READER")
  /\ UNCHANGED <<readout, beam, written, dumped, numevt, writer, output>>

\* What there is, up to Chunk events.  The place after unlock stands for the
\* answer: "unlock" for SUCCESS and FAILED, after which the loop goes on in the same
\* way, "empty" for FIFOEMPTY.
dumpData(f) ==
  LET k == Min({Chunk, written[f] - dumped[f]})
  IN /\ WGoto(f, "dump", "unlock")
     /\ k > 0
     /\ dumped' = [dumped EXCEPT ![f] = @ + k]
     /\ infile' = [infile EXCEPT ![f] = @ + k]
     /\ UNCHANGED <<readout, beam, lock, written, numevt, writer, nevtsaved, files>>

\* FAILED: fwrite stored less than it was given (k whole events).  The FIFO is given
\* back and the same data are tried again, without a look for the readout.
DumpFails(f) ==
  /\ FlakyDisk
  /\ WGoto(f, "dump", "unlock")
  /\ written[f] > dumped[f]
  /\ \E k \in 0 .. Min({Chunk, written[f] - dumped[f]}) - 1 :
       /\ k > 0 => infile[f] + k <= MaxInFile
       /\ infile' = [infile EXCEPT ![f] = @ + k]
  /\ UNCHANGED <<readout, beam, lock, written, dumped, numevt, writer, nevtsaved, files>>

\* FIFOEMPTY, and unlock.
DumpEmpty(f) ==
  /\ WGoto(f, "dump", "empty")
  /\ written[f] = dumped[f]
  /\ Unlock(f, "READER")
  /\ UNCHANGED <<readout, beam, written, dumped, numevt, writer, output>>

UnlockRD(f) ==
  /\ WGoto(f, "unlock", "lock")
  /\ Unlock(f, "READER")
  /\ UNCHANGED <<readout, beam, written, dumped, numevt, writer, output>>

\* Mutants of CloseFile: the count of the run so far goes to the header; a new
\* file is taken to begin with what went over the limit.
CloseFileTotal(f) ==
  /\ files' = [files EXCEPT ![f] =
                 Append(@, [events |-> infile[f], evtsinrun |-> numevt[f]])]
  /\ nevtsaved' = [nevtsaved EXCEPT ![f] = numevt[f]]
  /\ infile' = [infile EXCEPT ![f] = 0]
CloseFileRest(f) ==
  /\ files' = [files EXCEPT ![f] =
                 Append(@, [events |-> infile[f], evtsinrun |-> numevt[f] - nevtsaved[f]])]
  /\ nevtsaved' = [nevtsaved EXCEPT ![f] = numevt[f]]
  /\ infile' = [infile EXCEPT ![f] = @ - MAX_FILE_SIZE]

\* The open file is closed; the events counted since the last one was go to its
\* header.
CloseFile(f) ==
  /\ files' = [files EXCEPT ![f] =
                 Append(@, [events |-> infile[f], evtsinrun |-> numevt[f] - nevtsaved[f]])]
  /\ nevtsaved' = [nevtsaved EXCEPT ![f] = numevt[f]]
  /\ infile' = [infile EXCEPT ![f] = 0]

\* After FIFOEMPTY a large file is closed and the next one is opened.
Rollover(f) ==
  /\ WGoto(f, "empty", "present")
  /\ IF infile[f] >= MAX_FILE_SIZE THEN CloseFile(f) ELSE UNCHANGED output
  /\ UNCHANGED <<readout, beam, lock, written, dumped, numevt, writer>>

\* isWriterPresent, at the end of the loop.
LookForWriter(f) ==
  /\ \/ writer[f] = "PRESENT" /\ WGoto(f, "present", "lock")
     \/ writer[f] = "MISSING" /\ WGoto(f, "present", "final")
  /\ UNCHANGED <<readout, beam, lock, written, dumped, numevt, writer, output>>

EndOfRun(f) ==
  /\ WGoto(f, "final", "gone")
  /\ CloseFile(f)
  /\ UNCHANGED <<readout, beam, lock, written, dumped, numevt, writer>>

-------------------------------------------------------------------------------
\* The accelerator.
Spill == /\ inSpill' = ~inSpill
         /\ UNCHANGED <<readout, abort_run, lock, written, dumped, numevt, writer, wpc,
                        output>>

\* SIGINT to the readout, the usual way to stop a run.
Abort == /\ ~abort_run
         /\ abort_run' = TRUE
         /\ UNCHANGED <<readout, inSpill, lock, written, dumped, numevt, writer, wpc, output>>

Readout == \/ \E f \in Fifos : Open(f) \/ Lock(f) \/ Trigger(f) \/ FIFOunlock(f) \/ Delete(f)
           \/ SpillStarts \/ NoTrigger \/ GetEvent
           \/ WriteEvent \/ WriteFull \/ FullUnlock \/ FullRelock \/ CountEvent
           \/ Checked \/ UpdateEvtNr \/ CloseRun

DataWriter(f) == \/ FindWriter(f) \/ WaitlockRD(f)
                 \/ dumpData(f) \/ DumpFails(f) \/ DumpEmpty(f) \/ UnlockRD(f)
                 \/ Rollover(f) \/ LookForWriter(f) \/ EndOfRun(f)

Next == Readout \/ (\E f \in Fifos : DataWriter(f)) \/ Spill \/ Abort

Spec == Init /\ [][Next]_vars

(***************************************************************************)
(* Fairness: the three programs are scheduled.  Nothing is assumed of the  *)
(* beam, of the operator, of the disk, and of who gets a FIFO that two     *)
(* programs poll for.                                                      *)
(***************************************************************************)
Fairness == /\ WF_vars(Readout)
            /\ \A f \in Fifos : WF_vars(DataWriter(f))

FairSpec == Spec /\ Fairness

-------------------------------------------------------------------------------
TypeOK == /\ inSpill \in BOOLEAN /\ abort_run \in BOOLEAN
          /\ rpc \in ReadoutPlaces
          /\ site \in {"loop", "spill_end", "run_end"}
          /\ tmpfifo \in Fifos
          /\ events \in [Fifos -> Nat] /\ numevt \in [Fifos -> Nat]
          /\ written \in [Fifos -> Nat] /\ dumped \in [Fifos -> Nat]
          /\ lock \in [Fifos -> {"UNLOCKED", "WRITER", "READER"}]
          /\ writer \in [Fifos -> {"PRESENT", "MISSING"}]
          /\ wpc \in [Fifos -> WriterPlaces]
          /\ nevtsaved \in [Fifos -> Nat] /\ infile \in [Fifos -> Nat]
          /\ files \in [Fifos -> Seq([events : Nat, evtsinrun : Int])]

\* The readout is in a spill (or in the last look for a trigger after it).
Acquiring == rpc \in {"check", "busy", "write", "full", "relock", "count", "checked",
                      "account"}

\* The moment in which a full FIFO is free in the middle of a spill.
FullWindow(f) == rpc = "relock" /\ tmpfifo = f

\* During a spill the readout has both FIFOs, except that it lends the one that
\* is full: it never writes an event, counts or accounts without the lock.
SpillsAreLocked ==
  Acquiring => \A f \in Fifos : lock[f] = "WRITER" \/ FullWindow(f)

\* A data writer that has the FIFO finds the events of whole spills, all of them
\* accounted for in numevt, unless it was let in because the FIFO is full.  It
\* takes the count outside the lock (myDataWriter.cpp:200).
SpillsAreAccounted ==
  \A f \in Fifos : lock[f] = "READER" /\ ~FullWindow(f) => numevt[f] = written[f]

\* The sum of the event counts in the headers.
SavedEvents(f) == LET saved[n \in 0 .. Len(files[f])] ==
                        IF n = 0 THEN 0 ELSE saved[n - 1] + files[f][n].evtsinrun
                  IN  saved[Len(files[f])]

\* The headers of the run's files add up to the number of events the readout has
\* put in the FIFO, wherever the files were split.
HeadersAddUp ==
  \A f \in Fifos : wpc[f] = "gone" => SavedEvents(f) = written[f]

\* The run takes at most two physics events more than it was asked for: one in
\* the first look for a trigger of a spill, one in the last of the run.
QuotaKept == written["phys"] <= maxevts + 2

\* The event count in the header of a file is the number of events in the file.
EventCountRight ==
  \A f \in Fifos : \A i \in DOMAIN files[f] : files[f][i].evtsinrun = files[f][i].events

\* The readout finds a FIFO it waits for in the data writer's hands, or the FIFO it
\* writes to full.
WaitsFor(f) == \/ FullWindow(f)
               \/ f = "ped" /\ rpc \in {"lock_ped", "first_ped", "next_ped"}
               \/ f = "phys" /\ rpc \in {"lock_phys", "first_phys", "next_phys"}
HeldUp == \E f \in Fifos :
            \/ lock[f] = "READER" /\ WaitsFor(f)
            \/ rpc = "write" /\ tmpfifo = f /\ written[f] - dumped[f] = Capacity

\* After SIGINT the readout ends, whatever beam and triggers do (myReadOut.cpp:735 "exit
\* on ctrl-c"), unless a data writer has the FIFO again and again at the moments at which
\* it looks, or does not empty a full one: those two waits do not look at abort_run.
AbortEndsReadout == abort_run ~> rpc = "done" \/ HeldUp

\* Once the readout is gone, every data writer that has seen it ends, unless the disk
\* fails again and again: it retries FAILED for ever.
WritersEnd ==
  \A f \in Fifos : \/ rpc = "done" /\ wpc[f] # "wait" ~> wpc[f] = "gone"
                   \/ []<><<DumpFails(f)>>_vars
-------------------------------------------------------------------------------
(***************************************************************************)
(* The inductive invariant behind SpillsAreLocked, SpillsAreAccounted and  *)
(* QuotaKept.                                                              *)
(***************************************************************************)

\* The places at which the readout has a FIFO, apart from the window of a full one.
HasBoth == rpc \in {"wait_spill", "first_phys", "first_ped", "unlock_phys"} \/ Acquiring
HasPed  == HasBoth \/ rpc \in {"open_phys", "lock_phys", "unlock_ped"}
HasPhys == HasBoth \/ rpc = "next_ped"
Has(f)  == ~FullWindow(f) /\ IF f = "ped" THEN HasPed ELSE HasPhys

\* The lock words name the programs that have the FIFOs.
LocksMatch == \A f \in Fifos : /\ lock[f] = "WRITER" <=> Has(f)
                               /\ lock[f] = "READER" <=> wpc[f] \in {"dump", "unlock"}

\* Every event written is counted, but for the one that was written last.
Counted == \A f \in Fifos :
             written[f] = events[f] + IF rpc = "count" /\ tmpfifo = f THEN 1 ELSE 0

\* Outside the spills the counts are in the shared data.
Accounted == ~Acquiring => numevt = events

\* What was dumped was written.
DumpedWritten == \A f \in Fifos : dumped[f] <= written[f]

\* The places of the readout in which it waits for a spill, in which the event it
\* handles is not counted yet, and in which it is.
Waiting  == {"open_ped", "lock_ped", "open_phys", "lock_phys", "wait_spill", "first_phys",
             "first_ped", "wait_next", "next_phys", "next_ped"}
Handling == {"check", "busy", "write", "full", "relock", "count"}
Handled  == {"checked", "account", "unlock_phys", "unlock_ped"}

\* The physics events there may be before each call of check_and_handle_event.
Limit == IF site = "loop" THEN maxevts
         ELSE IF site = "spill_end" THEN maxevts - 1
         ELSE maxevts + 1

Quota == /\ rpc \in Waiting => events["phys"] <= maxevts
         /\ rpc \in Handling => events["phys"] <= Limit
         /\ rpc \in Handled => events["phys"] <= Limit + 1
         /\ events["phys"] <= maxevts + 2

DaqInv == TypeOK /\ LocksMatch /\ Counted /\ Accounted /\ DumpedWritten /\ Quota
===============================================================================
