---------------------------- MODULE FifoLifecycle ----------------------------
(***************************************************************************)
(* How the programs of a run come to share one FIFO and leave it: the      *)
(* constructor and the destructor of myFIFO (FIFOlib/myFIFO.cpp).  The     *)
(* semaphore set, the segment with the FIFO's data (myFIFOData) and the    *)
(* segment with its words belong to fixed keys; whoever comes first        *)
(* creates them, and whoever finds that no process is attached any more    *)
(* removes them.  Semaphore 0 guards the constructor; the destructor takes *)
(* no semaphore.                                                           *)
(*                                                                         *)
(* A semaphore set or segment is named by a number; 0 is "none".  A number *)
(* is taken again only when nothing refers to it any more.                 *)
(***************************************************************************)
EXTENDS FiniteSetsExt, Integers

CONSTANTS Writers, Readers, Samplers,   \* the programs, by type
          MAXSM,                        \* sampler slots
          Overlap,    \* TRUE if a program may start while another is leaving
          Killable    \* programs that may end without their destructor

Proc == Writers \union Readers \union Samplers

ASSUME LifecycleAssumption ==
  /\ IsFiniteSet(Writers) /\ IsFiniteSet(Readers) /\ IsFiniteSet(Samplers)
  /\ Writers \intersect Readers = {}
  /\ Writers \intersect Samplers = {}
  /\ Readers \intersect Samplers = {}
  /\ MAXSM \in Nat \ {0}
  /\ Overlap \in BOOLEAN
  /\ Killable \subseteq Proc

VARIABLES semkey,    \* the semaphore set of the key SEMKEY
          semval,    \* semaphore 0 of each set
          datakey,   \* the data segment of the key DATAKEY
          data,      \* what each data segment holds
          attached,  \* the processes attached to each data segment
          fifokey,   \* the segment of words of the key FIFOKEY
          mapped,    \* the processes attached to each segment of words
          pc,        \* where each process is
          semid,     \* the semaphore set it got
          dataid,    \* the data segment it got
          valid,     \* its constructor succeeded
          sam_ind,   \* its sampler slot
          mishaps    \* whether a program was ever "refused" or "killed"

kernel == <<semkey, semval, datakey, attached, fifokey, mapped>>
local  == <<semid, dataid, valid, sam_ind, mishaps>>
vars   == <<kernel, data, pc, local>>

Ids == 1 .. 2 * Cardinality(Proc) + 1

\* The pointers to the words in the shared data: startSM, startRD and startWR.
startRD  == MAXSM
startWR  == MAXSM + 1
Pointers == 0 .. MAXSM + 1

\* nsampler after 0 - 1 in 32 bits: it indexes no slot.
Wrapped == -1

\* A segment as shmget makes it: all zero.  start tells who set each pointer
\* (nobody: it is null or -1).
Zero == [initialized |-> FALSE, semid |-> 0, fifoid |-> 0, reader |-> "MISSING",
         writer |-> "MISSING", nsampler |-> 0, start |-> [k \in Pointers |-> {}]]

Init == /\ semkey = 0 /\ datakey = 0 /\ fifokey = 0
        /\ semval = [i \in Ids |-> 0]
        /\ data = [i \in Ids |-> Zero]
        /\ attached = [i \in Ids |-> {}]
        /\ mapped = [i \in Ids |-> {}]
        /\ pc = [p \in Proc |-> "out"]
        /\ semid = [p \in Proc |-> 0]
        /\ dataid = [p \in Proc |-> 0]
        /\ valid = [p \in Proc |-> TRUE]
        /\ sam_ind = [p \in Proc |-> 0]
        /\ mishaps = {}

Starting == {"enter", "shmget", "shmat", "init", "check", "map", "mark", "leave"}
Leaving  == {"stat_fifo", "rm_fifo", "detach", "stat_data", "rm_data", "rm_sem"}

Goto(p, from, to) == pc[p] = from /\ pc' = [pc EXCEPT ![p] = to]

\* The data as p sees it, and a change of it.
Its(p) == data[dataid[p]]
Change(p, d) == data' = [data EXCEPT ![dataid[p]] = d]

FreeSem  == Min({i \in Ids : i # semkey /\ \A p \in Proc : i # semid[p]
                             /\ \A d \in Ids : data[d].semid # i})
FreeData == Min({i \in Ids : i # datakey /\ \A p \in Proc : i # dataid[p]})
FreeFifo == Min({i \in Ids : i # fifokey /\ mapped[i] = {} /\ \A d \in Ids : data[d].fifoid # i})

-------------------------------------------------------------------------------
(***************************************************************************)
(* The constructor.                                                        *)
(***************************************************************************)

\* semget
GetSem(p) ==
  /\ Overlap \/ \A q \in Proc : pc[q] \notin Leaving
  /\ Goto(p, "out", "enter")
  /\ semkey' = IF semkey = 0 THEN FreeSem ELSE semkey
  /\ semid' = [semid EXCEPT ![p] = semkey']
  /\ semval' = IF semkey = 0 THEN [semval EXCEPT ![semkey'] = 0] ELSE semval
  /\ UNCHANGED <<datakey, attached, fifokey, mapped, data, dataid, valid, sam_ind, mishaps>>

\* Mutant of EnterSem: "wait for 0" is left out.
EnterSemNoWait(p) ==
  /\ Goto(p, "enter", "shmget")
  /\ semval' = [semval EXCEPT ![semid[p]] = @ + 1]
  /\ UNCHANGED <<semkey, datakey, attached, fifokey, mapped, data, local>>

\* "wait for eventual initializiation of the other process"; semop fails when
\* the set was removed, which is not looked at.
EnterSem(p) ==
  /\ Goto(p, "enter", "shmget")
  /\ IF semid[p] = semkey
     THEN semval[semkey] = 0 /\ semval' = [semval EXCEPT ![semkey] = 1]
     ELSE UNCHANGED semval
  /\ UNCHANGED <<semkey, datakey, attached, fifokey, mapped, data, local>>

GetData(p) ==
  /\ Goto(p, "shmget", "shmat")
  /\ datakey' = IF datakey = 0 THEN FreeData ELSE datakey
  /\ dataid' = [dataid EXCEPT ![p] = datakey']
  /\ data' = IF datakey = 0 THEN [data EXCEPT ![datakey'] = Zero] ELSE data
  /\ UNCHANGED <<semkey, semval, attached, fifokey, mapped, semid, valid, sam_ind, mishaps>>

\* shmat fails if the segment was removed since.
AttachData(p) ==
  /\ pc[p] = "shmat"
  /\ IF dataid[p] = datakey \/ attached[dataid[p]] # {}
     THEN /\ Goto(p, "shmat", "init")
          /\ attached' = [attached EXCEPT ![dataid[p]] = @ \union {p}]
          /\ UNCHANGED valid
     ELSE /\ Goto(p, "shmat", "leave")
          /\ valid' = [valid EXCEPT ![p] = FALSE]
          /\ UNCHANGED attached
  /\ UNCHANGED <<semkey, semval, datakey, fifokey, mapped, data, semid, dataid, sam_ind, mishaps>>

InitData(p) ==
  /\ Goto(p, "init", "check")
  /\ IF Its(p).initialized
     THEN UNCHANGED <<data, fifokey>>
     ELSE /\ fifokey' = IF fifokey = 0 THEN FreeFifo ELSE fifokey
          /\ Change(p, [Its(p) EXCEPT !.initialized = TRUE, !.semid = semid[p],
                                      !.fifoid = fifokey', !.nsampler = 0])
  /\ UNCHANGED <<semkey, semval, datakey, attached, mapped, local>>

\* Mutant of Refused: it is not looked whether a writer is present.
RefusedNoWriter(p) == \/ p \in Readers /\ Its(p).reader = "PRESENT"
                      \/ p \in Samplers /\ Its(p).nsampler = MAXSM

\* "A reader is already present", "A writer is already present", or MAXSM
\* samplers are.
Refused(p) == \/ p \in Readers /\ Its(p).reader = "PRESENT"
              \/ p \in Writers /\ Its(p).writer = "PRESENT"
              \/ p \in Samplers /\ Its(p).nsampler = MAXSM

CheckPresent(p) ==
  /\ \/ Goto(p, "check", "map") /\ ~Refused(p) /\ UNCHANGED <<valid, mishaps>>
     \/ /\ Goto(p, "check", "leave")
        /\ Refused(p)
        /\ valid' = [valid EXCEPT ![p] = FALSE]
        /\ mishaps' = mishaps \union {"refused"}
  /\ UNCHANGED <<kernel, data, semid, dataid, sam_ind>>

\* The pointer in the shared data that p sets to the words, and follows.
Start(p, slot) == IF p \in Readers THEN startRD
                  ELSE IF p \in Writers THEN startWR ELSE slot

\* shmat of the words fails if they were removed; the pointer is then -1, nobody's.
MapFifo(p) ==
  /\ pc[p] = "map"
  /\ p \in Samplers => Its(p).nsampler # Wrapped
  /\ IF Its(p).fifoid = fifokey \/ mapped[Its(p).fifoid] # {}
     THEN /\ Goto(p, "map", "mark")
          /\ mapped' = [mapped EXCEPT ![Its(p).fifoid] = @ \union {p}]
          /\ Change(p, [Its(p) EXCEPT !.start[Start(p, Its(p).nsampler)] = {p}])
          /\ UNCHANGED valid
     ELSE /\ Goto(p, "map", "leave")
          /\ valid' = [valid EXCEPT ![p] = FALSE]
          /\ Change(p, [Its(p) EXCEPT !.start[Start(p, Its(p).nsampler)] = {}])
          /\ UNCHANGED mapped
  /\ UNCHANGED <<semkey, semval, datakey, attached, fifokey, semid, dataid, sam_ind, mishaps>>

MarkPresent(p) ==
  /\ Goto(p, "mark", "leave")
  /\ \/ p \in Readers /\ Change(p, [Its(p) EXCEPT !.reader = "PRESENT"])
     \/ p \in Writers /\ Change(p, [Its(p) EXCEPT !.writer = "PRESENT"])
     \/ p \in Samplers /\ Change(p, [Its(p) EXCEPT !.nsampler = @ + 1])
  /\ sam_ind' = IF p \in Samplers THEN [sam_ind EXCEPT ![p] = Its(p).nsampler] ELSE sam_ind
  /\ UNCHANGED <<kernel, semid, dataid, valid, mishaps>>

\* "release initialization sem lock"
LeaveSem(p) ==
  /\ Goto(p, "leave", "in")
  /\ IF semid[p] = semkey
     THEN semval[semkey] > 0 /\ semval' = [semval EXCEPT ![semkey] = @ - 1]
     ELSE UNCHANGED semval
  /\ UNCHANGED <<semkey, datakey, attached, fifokey, mapped, data, local>>

-------------------------------------------------------------------------------
(***************************************************************************)
(* The destructor.                                                         *)
(***************************************************************************)

\* The process ends: the kernel detaches it, and a removed segment is gone with
\* the last process that refers to it.
Exit(p) == /\ pc' = [pc EXCEPT ![p] = "out"]
           /\ attached' = [i \in Ids |-> attached[i] \ {p}]
           /\ mapped' = [i \in Ids |-> mapped[i] \ {p}]
           /\ data' = [i \in Ids |-> IF i # datakey' /\ \A q \in Proc \ {p} : i # dataid[q]
                                   THEN Zero ELSE data[i]]
           /\ semid' = [semid EXCEPT ![p] = 0]
           /\ dataid' = [dataid EXCEPT ![p] = 0]
           /\ valid' = [valid EXCEPT ![p] = TRUE]
           /\ sam_ind' = [sam_ind EXCEPT ![p] = 0]

\* The data once p has left it, and a mutant that clears no flag.
ClearedNone(p) == IF p \in Samplers THEN [Its(p) EXCEPT !.nsampler = @ - 1] ELSE Its(p)
Cleared(p) == IF p \in Readers THEN [Its(p) EXCEPT !.reader = "MISSING"]
              ELSE IF p \in Writers THEN [Its(p) EXCEPT !.writer = "MISSING"]
              ELSE [Its(p) EXCEPT !.nsampler = IF @ > 0 THEN @ - 1 ELSE Wrapped]

\* A reader and a sampler run their destructor even if the constructor failed
\* after it attached the data, and it clears the flag of their type.  shmdt of
\* an address that another process wrote in the shared data may find nothing.
Unmark(p) ==
  /\ Goto(p, "in", "stat_fifo")
  /\ Overlap \/ \A q \in Proc : pc[q] \notin Starting
  /\ p \in attached[dataid[p]]
  /\ p \in Writers => valid[p]
  /\ Change(p, Cleared(p))
  /\ LET unmapped == [mapped EXCEPT ![Its(p).fifoid] = @ \ {p}]
     IN  IF Its(p).start[Start(p, sam_ind[p])] = {p}
         THEN mapped' = unmapped
         ELSE mapped' \in {mapped, unmapped}
  /\ UNCHANGED <<semkey, semval, datakey, attached, fifokey, local>>

StatFifo(p) ==
  /\ \/ Goto(p, "stat_fifo", "rm_fifo") /\ mapped[Its(p).fifoid] = {}
     \/ Goto(p, "stat_fifo", "detach") /\ mapped[Its(p).fifoid] # {}
  /\ UNCHANGED <<kernel, data, local>>

RemoveFifo(p) ==
  /\ Goto(p, "rm_fifo", "detach")
  /\ fifokey' = IF fifokey = Its(p).fifoid THEN 0 ELSE fifokey
  /\ UNCHANGED <<semkey, semval, datakey, attached, mapped, data, local>>

\* Mutant of DetachData: shmdt is forgotten.
DetachDataNever(p) ==
  /\ Goto(p, "detach", "stat_data")
  /\ semid' = [semid EXCEPT ![p] = Its(p).semid]
  /\ UNCHANGED <<kernel, data, dataid, valid, sam_ind, mishaps>>

\* mysemid was copied from the data at the start.
DetachData(p) ==
  /\ Goto(p, "detach", "stat_data")
  /\ attached' = [attached EXCEPT ![dataid[p]] = @ \ {p}]
  /\ semid' = [semid EXCEPT ![p] = Its(p).semid]
  /\ UNCHANGED <<semkey, semval, datakey, fifokey, mapped, data, dataid, valid, sam_ind, mishaps>>

\* Mutant of StatData: the processes that are still attached are not looked for.
StatDataBlind(p) ==
  /\ Goto(p, "stat_data", "rm_data")
  /\ UNCHANGED <<kernel, data, local>>

StatData(p) ==
  \/ /\ Goto(p, "stat_data", "rm_data")
     /\ attached[dataid[p]] = {}
     /\ UNCHANGED <<kernel, data, local>>
  \/ /\ pc[p] = "stat_data"
     /\ attached[dataid[p]] # {}
     /\ UNCHANGED <<semkey, semval, datakey, fifokey, mishaps>>
     /\ Exit(p)

RemoveData(p) ==
  /\ Goto(p, "rm_data", "rm_sem")
  /\ datakey' = IF datakey = dataid[p] THEN 0 ELSE datakey
  /\ UNCHANGED <<semkey, semval, attached, fifokey, mapped, data, local>>

RemoveSem(p) ==
  /\ pc[p] = "rm_sem"
  /\ semkey' = IF semkey = semid[p] THEN 0 ELSE semkey
  /\ UNCHANGED <<semval, datakey, fifokey, mishaps>>
  /\ Exit(p)

\* A process ends without its destructor: it was killed, or it follows the
\* null or invalid pointer that the failed constructor left it with, or that of a
\* slot that does not exist.  A readout opens the pedestal FIFO first: refused
\* there, it follows the null pointer of the other one.
Die(p) ==
  /\ \/ /\ p \in Killable /\ pc[p] # "out"
        /\ mishaps' = mishaps \union {"killed"}
     \/ /\ \/ pc[p] = "map" /\ p \in Samplers /\ Its(p).nsampler = Wrapped
           \/ pc[p] = "in" /\ ~valid[p] /\ (p \in Writers \/ p \notin attached[dataid[p]])
        /\ UNCHANGED mishaps
  /\ UNCHANGED <<semkey, semval, datakey, fifokey>>
  /\ Exit(p)

-------------------------------------------------------------------------------
Constructor(p) == \/ GetSem(p) \/ EnterSem(p) \/ GetData(p) \/ AttachData(p)
                  \/ InitData(p) \/ CheckPresent(p) \/ MapFifo(p) \/ MarkPresent(p)
                  \/ LeaveSem(p)

Destructor(p) == \/ Unmark(p) \/ StatFifo(p) \/ RemoveFifo(p) \/ DetachData(p)
                 \/ StatData(p) \/ RemoveData(p) \/ RemoveSem(p)

Next == \E p \in Proc : Constructor(p) \/ Destructor(p) \/ Die(p)

Spec == Init /\ [][Next]_vars

-------------------------------------------------------------------------------
TypeOK == /\ {semkey, datakey, fifokey} \subseteq Ids \union {0}
          /\ semval \in [Ids -> {0, 1}]
          /\ attached \in [Ids -> SUBSET Proc]
          /\ mapped \in [Ids -> SUBSET Proc]
          /\ pc \in [Proc -> Starting \union Leaving \union {"out", "in"}]
          /\ semid \in [Proc -> Ids \union {0}]
          /\ dataid \in [Proc -> Ids \union {0}]
          /\ valid \in [Proc -> BOOLEAN]
          /\ mishaps \subseteq {"refused", "killed"}
          /\ \A i \in Ids : data[i].nsampler \in Wrapped .. MAXSM

\* A program that uses the FIFO.
Using(p) == pc[p] = "in" /\ valid[p]

\* The programs of a run share one FIFO: the one that those who come later find.
SameFifo ==
  \A p \in Proc : Using(p) => /\ dataid[p] = datakey
                              /\ Its(p).fifoid = fifokey
                              /\ p \in mapped[fifokey]

\* Semaphore 0 makes a program wait while another is in the constructor
\* (comments at myFIFO.cpp:37 and :192), so the FIFO is not initialised twice
\* nor two readers let in at once.
InitGuarded ==
  LET Inside == Starting \ {"enter"}
  IN \A p, q \in Proc : pc[p] \in Inside /\ pc[q] \in Inside => p = q

\* The presence flags, on which programs are refused and runs end
\* (isWriterPresent), are set only for a program that is there, unless one was
\* killed.
FlagsHaveOwners ==
  datakey # 0 /\ "killed" \notin mishaps =>
    /\ data[datakey].reader = "PRESENT" => \E p \in Readers : pc[p] \in {"leave", "in"}
    /\ data[datakey].writer = "PRESENT" => \E p \in Writers : pc[p] \in {"leave", "in"}

\* When the last program of a run has left, the next run starts from nothing: it
\* finds no offsets, flags or events of this one, unless a program was killed or
\* refused.
LeavesNothing ==
  mishaps = {} /\ (\A p \in Proc : pc[p] = "out") => datakey = 0 /\ semkey = 0

\* At most one reader takes events from a FIFO.
OneReader == \A p, q \in Readers : Using(p) /\ Using(q) => p = q

\* At most one readout uses a FIFO, whoever is refused or killed: one that is refused
\* dies before it could run the destructor, which clears the flag.  A refused reader
\* runs it (myFIFO.cpp:204), so of readers this holds until a program is refused.
OneOfEach == /\ \A p, q \in Writers : Using(p) /\ Using(q) => p = q
             /\ "refused" \notin mishaps => OneReader
===============================================================================
