------------------------- MODULE FifoLifecycleProofs -------------------------
(***************************************************************************)
(* What the constructor and the destructor of myFIFO keep, for any number  *)
(* of programs of each type and of sampler slots, whoever is killed and    *)
(* whenever, as long as no program starts while another one is leaving     *)
(* (~Overlap).  Without that assumption InitGuarded fails (the run         *)
(* "unguarded").                                                           *)
(***************************************************************************)
EXTENDS FifoLifecycle, FiniteSetTheorems, TLAPS

\* What a data segment may hold.
Record == [initialized : BOOLEAN, semid : Ids \union {0}, fifoid : Ids \union {0},
           reader : {"MISSING", "PRESENT"}, writer : {"MISSING", "PRESENT"},
           nsampler : Wrapped .. MAXSM, start : [Pointers -> SUBSET Proc]]

(***************************************************************************)
(* The places of a program at which it has semaphore 0, is attached to the *)
(* data (once they are initialised: Linked), has detached them, and at     *)
(* which its flag or slot is taken.                                        *)
(***************************************************************************)
Inside   == Starting \ {"enter"}
Linked   == {"check", "map", "mark", "leave", "in", "stat_fifo", "rm_fifo", "detach"}
Holding  == {"init"} \union Linked
Detached == {"stat_data", "rm_data", "rm_sem"}
Present  == {"leave", "in"}

-------------------------------------------------------------------------------
(***************************************************************************)
(* The inductive invariant.                                                *)
(***************************************************************************)

\* No program starts while another one leaves.
Phases == \A p, q \in Proc : pc[p] \in Starting => pc[q] \notin Leaving

\* Programs that start have the semaphore set of the key, and semaphore 0 of it
\* when they are past the wait; one that detached the data removes that set or none.
Guarded ==
  \A p \in Proc : /\ pc[p] = "out" => semid[p] = 0
                  /\ pc[p] \in Starting => semid[p] = semkey /\ semkey # 0
                  /\ pc[p] \in Inside => semval[semkey] = 1
                  /\ pc[p] \in Detached => semid[p] = semkey \/ semkey = 0
                  /\ pc[p] = "rm_sem" => datakey = 0

\* All programs have the data segment of the key, which is removed when nobody is
\* attached to it, and before the semaphores.
DataKept ==
  /\ datakey # 0 => semkey # 0
  /\ \A p \in Proc :
       /\ pc[p] \in {"out", "enter", "shmget"} => dataid[p] = 0
       /\ pc[p] \in {"shmat"} \union Holding => dataid[p] = datakey /\ datakey # 0
       /\ pc[p] \in Detached => dataid[p] # 0 /\ datakey \in {0, dataid[p]}
       /\ pc[p] \in {"rm_data", "rm_sem"} => \A q \in Proc : pc[q] \notin Holding
       /\ \A i \in Ids : p \in attached[i] <=> pc[p] \in Holding /\ i = dataid[p]

\* Segments that nobody refers to are gone, and one is zero until it is initialised,
\* with the semaphores of the key.
Contents ==
  /\ \A i \in Ids : i # datakey /\ (\A p \in Proc : dataid[p] # i) => data[i] = Zero
  /\ \A i \in Ids : ~data[i].initialized => data[i] = Zero
  /\ datakey # 0 /\ data[datakey].initialized
       => data[datakey].semid = semkey /\ data[datakey].fifoid # 0
  /\ \A p \in Proc : pc[p] \in Linked => data[datakey].initialized

\* Programs are only attached to the words of the key, and those that may use the
\* FIFO are; whoever removes the words found nobody attached to them.
Words ==
  /\ \A i \in Ids : mapped[i] # {} => i = fifokey
  /\ \A p \in Proc :
       /\ pc[p] \in Present \union {"mark"} /\ valid[p] => p \in mapped[data[datakey].fifoid]
       /\ pc[p] \notin Present \union Leaving => valid[p]
       /\ pc[p] = "rm_fifo" => mapped[data[datakey].fifoid] = {}

\* There is a slot for the sampler that was not refused.
Slots ==
  \A p \in Samplers : /\ pc[p] = "map" => data[datakey].nsampler # MAXSM
                      /\ pc[p] = "mark" => data[datakey].nsampler \in 0 .. MAXSM - 1

\* A flag is that of a valid reader or writer, unless a program was killed.
Owned ==
  datakey # 0 /\ "killed" \notin mishaps =>
    /\ data[datakey].reader = "PRESENT" => \E p \in Readers : pc[p] \in Present /\ valid[p]
    /\ data[datakey].writer = "PRESENT" => \E p \in Writers : pc[p] \in Present /\ valid[p]

\* The samplers that nsampler counts.
Working == {p \in Samplers : pc[p] \in Present}

\* Unless a program was refused or killed: constructors succeed, nsampler counts the
\* samplers, the words are those of the data except while the last programs leave,
\* and what there is, is there for somebody.
Clean ==
  mishaps = {} =>
    /\ \A p \in Proc : valid[p]
    /\ datakey # 0 => data[datakey].nsampler = Cardinality(Working)
    /\ datakey # 0 /\ data[datakey].initialized /\ data[datakey].fifoid # fifokey
         => \A p \in Proc : pc[p] \in Leaving \union {"out"}
    /\ datakey # 0 \/ semkey # 0 => \E p \in Proc : pc[p] # "out"

LifecycleInv == /\ TypeOK
                /\ data \in [Ids -> Record]
                /\ InitGuarded /\ Phases /\ Guarded /\ DataKept /\ Contents /\ Words
                /\ Slots /\ Owned /\ Clean

-------------------------------------------------------------------------------
\* There is a least number, and 0 is none.
LEMMA IdsType == /\ Ids \subseteq Nat \ {0}
                 /\ Ids # {}
                 /\ Min(Ids) \in Ids
<1>1. Cardinality(Proc) \in Nat
  <2>1. IsFiniteSet(Writers \union Readers)
    BY FS_Union, LifecycleAssumption
  <2>2. IsFiniteSet(Proc)
    BY <2>1, FS_Union, LifecycleAssumption DEF Proc
  <2>3. QED
    BY <2>2, FS_CardinalityType
<1>2. Ids \subseteq Nat \ {0} /\ 1 \in Ids /\ \A i \in Ids : 1 <= i
  BY <1>1 DEF Ids
<1>3. Min(Ids) \in Ids
  BY <1>2 DEF Min
<1>4. QED
  BY <1>2, <1>3

\* A segment as shmget makes it is a segment.
LEMMA ZeroType == Zero \in Record
  BY LifecycleAssumption DEF Zero, Record, Wrapped

\* Before the first program starts the invariant holds.
LEMMA InitInv == Init => LifecycleInv
<1> SUFFICES ASSUME Init PROVE LifecycleInv
  OBVIOUS
<1> USE IdsType, ZeroType DEF Init
<1>1. TypeOK /\ data \in [Ids -> Record]
  <2>1. Zero.nsampler \in Wrapped .. MAXSM
    BY LifecycleAssumption DEF Zero, Wrapped
  <2>2. QED
    BY <2>1 DEF TypeOK
<1>2. InitGuarded /\ Phases /\ Guarded
  BY DEF InitGuarded, Phases, Guarded, Starting, Leaving, Inside, Detached
<1>3. DataKept
  BY DEF DataKept, Holding, Linked, Detached
<1>4. Contents
  BY DEF Contents, Linked
<1>5. Words /\ Slots /\ Owned /\ Clean
  BY DEF Words, Slots, Owned, Clean, Present, Leaving, Proc
<1>6. QED
  BY <1>1, <1>2, <1>3, <1>4, <1>5 DEF LifecycleInv

\* A program that passes the wait for 0 is alone in the constructor.
LEMMA EnterSemStep ==
  ASSUME LifecycleInv, NEW p \in Proc, EnterSem(p)
  PROVE  LifecycleInv'
<1> USE DEF LifecycleInv
<1>1. /\ pc[p] = "enter" /\ pc' = [pc EXCEPT ![p] = "shmget"]
      /\ semval[semkey] = 0 /\ semval' = [semval EXCEPT ![semkey] = 1]
      /\ semid[p] = semkey /\ semkey # 0 /\ semkey \in Ids
      /\ UNCHANGED <<semkey, datakey, attached, fifokey, mapped, data, local>>
  BY DEF EnterSem, Goto, Guarded, Starting, TypeOK
<1>2. TypeOK' /\ data' \in [Ids -> Record]
  BY <1>1 DEF TypeOK, local, Starting
<1>3. Phases' /\ InitGuarded' /\ Guarded'
  BY <1>1 DEF TypeOK, Phases, InitGuarded, Guarded, local, Starting, Inside, Leaving, Detached
<1>4. DataKept'
  BY <1>1 DEF TypeOK, DataKept, local, Holding, Linked, Detached
<1>5. Contents'
  BY <1>1 DEF TypeOK, Contents, local, Linked
<1>6. Words' /\ Slots' /\ Owned' 
  BY <1>1 DEF TypeOK, Words, Slots, Owned, local, Present, Leaving, Proc
<1>7. Clean'
  <2>1. Working' = Working
    BY <1>1 DEF Working, Present, TypeOK
  <2>2. QED
  BY <1>1, <2>1 DEF TypeOK, Clean, local, Leaving
<1>8. QED
  BY <1>2, <1>3, <1>4, <1>5, <1>6, <1>7

\* A semaphore set is made only when every program is out, so any number is free.
LEMMA GetSemStep ==
  ASSUME LifecycleInv, ~Overlap, NEW p \in Proc, GetSem(p)
  PROVE  LifecycleInv'
<1> USE IdsType DEF LifecycleInv
<1>1. /\ pc[p] = "out" /\ pc' = [pc EXCEPT ![p] = "enter"]
      /\ \A q \in Proc : pc[q] \notin Leaving
      /\ semid' = [semid EXCEPT ![p] = semkey']
      /\ UNCHANGED <<datakey, attached, fifokey, mapped, data, dataid, valid, mishaps>>
  BY DEF GetSem, Goto
<1>2. CASE semkey = 0
  <2>1. \A q \in Proc : pc[q] = "out" /\ semid[q] = 0 /\ dataid[q] = 0
    BY <1>1, <1>2 DEF Guarded, DataKept, TypeOK, Starting, Leaving, Holding, Linked
  <2>2. \A d \in Ids : data[d].semid = 0
    BY <1>2, <2>1 DEF DataKept, Contents, Zero
  <2>3. {i \in Ids : i # semkey /\ (\A q \in Proc : i # semid[q])
                    /\ \A d \in Ids : data[d].semid # i} = Ids
    BY <1>2, <2>1, <2>2
  <2>4. FreeSem \in Ids
    BY <2>3 DEF FreeSem
  <2>5. semkey' \in Ids /\ semval' = [semval EXCEPT ![semkey'] = 0] /\ datakey = 0
    BY <1>2, <2>4 DEF GetSem, DataKept
  <2>6. TypeOK'
    BY <1>1, <2>5 DEF TypeOK, Starting
  <2>7. InitGuarded' /\ Phases' /\ Guarded'
    BY <1>1, <2>1, <2>5
       DEF TypeOK, InitGuarded, Phases, Guarded, Starting, Leaving, Inside, Detached
  <2>8. DataKept' /\ Contents'
    BY <1>1, <2>1, <2>5 DEF TypeOK, DataKept, Contents, Holding, Linked, Detached
  <2>9. Words' /\ Slots' /\ Owned' /\ Clean'
    BY <1>1, <2>1, <2>5 DEF TypeOK, Words, Slots, Owned, Clean, Present, Leaving, Proc
  <2>10. QED
    BY <1>1, <2>6, <2>7, <2>8, <2>9
<1>3. CASE semkey # 0
  <2>1. semkey' = semkey /\ UNCHANGED semval
    BY <1>3 DEF GetSem
  <2>2. TypeOK'
    BY <1>1, <2>1 DEF TypeOK, Starting
  <2>3. InitGuarded' /\ Phases' /\ Guarded'
    BY <1>1, <1>3, <2>1
       DEF TypeOK, InitGuarded, Phases, Guarded, Starting, Leaving, Inside, Detached
  <2>4. DataKept' /\ Contents'
    BY <1>1, <2>1 DEF TypeOK, DataKept, Contents, Holding, Linked, Detached
  <2>5. Words' /\ Slots' /\ Owned'
    BY <1>1, <2>1 DEF TypeOK, Words, Slots, Owned, Present, Leaving, Proc
  <2>6. Working' = Working
    BY <1>1 DEF Working, Present, TypeOK, Proc
  <2>7. Clean'
    BY <1>1, <2>1, <2>6 DEF Clean, TypeOK, Leaving
  <2>8. QED
    BY <1>1, <2>2, <2>3, <2>4, <2>5, <2>7
<1>4. QED
  BY <1>2, <1>3

\* A data segment is made only when no program has one.
LEMMA GetDataStep ==
  ASSUME LifecycleInv, NEW p \in Proc, GetData(p)
  PROVE  LifecycleInv'
<1> USE IdsType, ZeroType DEF LifecycleInv
<1>1. /\ pc[p] = "shmget" /\ pc' = [pc EXCEPT ![p] = "shmat"]
      /\ dataid' = [dataid EXCEPT ![p] = datakey']
      /\ semkey # 0
      /\ UNCHANGED <<semkey, semval, attached, fifokey, mapped, semid, valid, mishaps>>
  BY DEF GetData, Goto, Guarded, Starting
<1>2. \A q \in Proc : pc[q] \notin Leaving
  BY <1>1 DEF Phases, Starting
<1>3. CASE datakey = 0
  <2>1. \A q \in Proc : pc[q] \in {"out", "enter", "shmget"} /\ dataid[q] = 0
    BY <1>2, <1>3 DEF DataKept, TypeOK, Starting, Leaving, Holding, Linked
  <2>2. {i \in Ids : i # datakey /\ \A q \in Proc : i # dataid[q]} = Ids
    BY <1>3, <2>1
  <2>3. FreeData \in Ids
    BY <2>2 DEF FreeData
  <2>4. datakey' \in Ids /\ data' = [data EXCEPT ![datakey'] = Zero]
    BY <1>3, <2>3 DEF GetData
  <2>5. TypeOK' /\ data' \in [Ids -> Record]
    <3>1. data' \in [Ids -> Record]
      BY <2>4
    <3>2. \A i \in Ids : data'[i].nsampler \in Wrapped .. MAXSM
      BY <3>1 DEF Record
    <3>3. QED
      BY <1>1, <2>4, <3>1, <3>2 DEF TypeOK, Starting
  <2>6. InitGuarded' /\ Phases' /\ Guarded'
    BY <1>1, <2>1
       DEF TypeOK, InitGuarded, Phases, Guarded, Starting, Leaving, Inside, Detached
  <2>7. DataKept'
    BY <1>1, <2>1, <2>4 DEF TypeOK, DataKept, Holding, Linked, Detached
  <2>8. ~data'[datakey'].initialized
    BY <2>4 DEF Zero
  <2>9. Contents'
    BY <1>1, <1>3, <2>1, <2>4, <2>8 DEF TypeOK, Contents, Linked
  <2>10. Words' /\ Slots'
    BY <1>1, <2>1 DEF TypeOK, Words, Slots, Present, Leaving, Proc
  <2>11. Owned'
    BY <2>4 DEF Owned, Zero
  <2>12. Clean'
    <3>1. Working' = {}
      BY <1>1, <2>1 DEF Working, Present, TypeOK, Proc
    <3>2. data'[datakey'].nsampler = Cardinality(Working')
      BY <2>4, <3>1, FS_EmptySet DEF Zero
    <3>3. QED
      BY <1>1, <2>8, <3>2 DEF Clean, TypeOK
  <2>13. QED
    BY <2>5, <2>6, <2>7, <2>9, <2>10, <2>11, <2>12
<1>4. CASE datakey # 0
  <2>1. datakey' = datakey /\ UNCHANGED data /\ datakey \in Ids
    BY <1>4 DEF GetData, TypeOK
  <2>2. TypeOK'
    BY <1>1, <2>1 DEF TypeOK, Starting
  <2>3. InitGuarded' /\ Phases' /\ Guarded'
    BY <1>1, <2>1
       DEF TypeOK, InitGuarded, Phases, Guarded, Starting, Leaving, Inside, Detached
  <2>4. DataKept' /\ Contents'
    BY <1>1, <1>4, <2>1 DEF TypeOK, DataKept, Contents, Holding, Linked, Detached
  <2>5. Words' /\ Slots' /\ Owned'
    BY <1>1, <2>1 DEF TypeOK, Words, Slots, Owned, Present, Leaving, Proc
  <2>6. Working' = Working
    BY <1>1 DEF Working, Present, TypeOK, Proc
  <2>7. Clean'
    BY <1>1, <2>1, <2>6 DEF Clean, TypeOK, Leaving
  <2>8. QED
    BY <2>1, <2>2, <2>3, <2>4, <2>5, <2>7
<1>5. QED
  BY <1>3, <1>4

\* shmat of the data succeeds: nobody leaves meanwhile.
LEMMA AttachDataStep ==
  ASSUME LifecycleInv, NEW p \in Proc, AttachData(p)
  PROVE  LifecycleInv'
<1> USE IdsType DEF LifecycleInv
<1>1. /\ pc[p] = "shmat" /\ pc' = [pc EXCEPT ![p] = "init"]
      /\ dataid[p] = datakey /\ datakey \in Ids
      /\ attached' = [attached EXCEPT ![datakey] = @ \union {p}]
      /\ UNCHANGED <<semkey, semval, datakey, fifokey, mapped, data, semid, dataid, valid,
                     mishaps>>
  BY DEF AttachData, Goto, DataKept, TypeOK
<1>2. TypeOK'
  BY <1>1 DEF TypeOK, Starting
<1>3. InitGuarded' /\ Phases' /\ Guarded'
  BY <1>1 DEF TypeOK, InitGuarded, Phases, Guarded, Starting, Leaving, Inside, Detached
<1>4. DataKept'
  <2>1. \A q \in Proc : pc[q] \notin {"rm_data", "rm_sem"}
    BY <1>1 DEF Phases, Starting, Leaving
  <2>2. \A q \in Proc : \A i \in Ids :
           q \in attached'[i] <=> pc'[q] \in Holding /\ i = dataid'[q]
    BY <1>1 DEF TypeOK, DataKept, Holding, Linked
  <2>3. QED
    BY <1>1, <2>1, <2>2 DEF TypeOK, DataKept, Holding, Linked, Detached
<1>5. Contents'
  BY <1>1 DEF TypeOK, Contents, Linked
<1>6. Words' /\ Slots' /\ Owned'
  BY <1>1 DEF TypeOK, Words, Slots, Owned, Present, Leaving, Proc
<1>7. Clean'
  <2>1. Working' = Working
    BY <1>1 DEF Working, Present, TypeOK, Proc
  <2>2. QED
    BY <1>1, <2>1 DEF Clean, TypeOK, Leaving
<1>8. QED
  BY <1>1, <1>2, <1>3, <1>4, <1>5, <1>6, <1>7

\* The data are initialised once, with the words of the key.
LEMMA InitDataStep ==
  ASSUME LifecycleInv, NEW p \in Proc, InitData(p)
  PROVE  LifecycleInv'
<1> USE IdsType DEF LifecycleInv
<1>1. /\ pc[p] = "init" /\ pc' = [pc EXCEPT ![p] = "check"]
      /\ dataid[p] = datakey /\ datakey \in Ids
      /\ semid[p] = semkey /\ semkey \in Ids
      /\ UNCHANGED <<semkey, semval, datakey, attached, mapped, semid, dataid, valid, mishaps>>
  BY DEF InitData, Goto, DataKept, Guarded, TypeOK, Holding, Starting, local
<1>2. \A q \in Proc : pc[q] \notin Leaving
  BY <1>1 DEF Phases, Starting
<1>3. InitGuarded' /\ Phases' /\ Guarded'
  BY <1>1 DEF TypeOK, InitGuarded, Phases, Guarded, Starting, Leaving, Inside, Detached
<1>4. DataKept'
  BY <1>1 DEF TypeOK, DataKept, Holding, Linked, Detached
<1>5. Working' = Working
  BY <1>1 DEF Working, Present, TypeOK, Proc
<1>6. CASE data[datakey].initialized
  <2>1. UNCHANGED <<data, fifokey>>
    BY <1>1, <1>6 DEF InitData, Its
  <2>2. TypeOK'
    BY <1>1, <2>1 DEF TypeOK, Starting
  <2>3. Contents'
    BY <1>1, <1>6, <2>1 DEF TypeOK, Contents, Linked
  <2>4. Words' /\ Slots' /\ Owned'
    BY <1>1, <2>1 DEF TypeOK, Words, Slots, Owned, Present, Leaving, Proc
  <2>5. Clean'
    BY <1>1, <1>5, <2>1 DEF Clean, TypeOK, Leaving
  <2>6. QED
    BY <1>3, <1>4, <2>1, <2>2, <2>3, <2>4, <2>5
<1>7. CASE ~data[datakey].initialized
  <2>1. data[datakey] = Zero
    BY <1>1, <1>7 DEF Contents
  <2>2. \A q \in Proc : pc[q] \notin Linked
    BY <1>7 DEF Contents
  <2>3. fifokey' \in Ids /\ (fifokey # 0 => fifokey' = fifokey)
    <3>1. CASE fifokey = 0
      <4>1. \A d \in Ids : data[d].fifoid = 0
        <5>1. \A d \in Ids : d # datakey => data[d] = Zero
          BY <1>1, <1>2 DEF Contents, DataKept, TypeOK, Starting, Leaving, Holding, Linked
        <5>2. QED
          BY <2>1, <5>1 DEF Zero
      <4>2. {i \in Ids : i # fifokey /\ mapped[i] = {} /\ \A d \in Ids : data[d].fifoid # i}
              = Ids
        BY <3>1, <4>1 DEF Words
      <4>3. FreeFifo \in Ids
        BY <4>2 DEF FreeFifo
      <4>4. QED
        BY <1>1, <1>7, <3>1, <4>3 DEF InitData, Its
    <3>2. CASE fifokey # 0
      BY <1>1, <1>7, <3>2 DEF InitData, Its, TypeOK
    <3>3. QED
      BY <3>1, <3>2
  <2> DEFINE new == [Zero EXCEPT !.initialized = TRUE, !.semid = semkey, !.fifoid = fifokey',
                                 !.nsampler = 0]
  <2>4. data' = [data EXCEPT ![datakey] = new]
    BY <1>1, <1>7, <2>1 DEF InitData, Its, Change
  <2>5. /\ new \in Record
        /\ new.initialized /\ new.semid = semkey /\ new.fifoid = fifokey' /\ new.nsampler = 0
        /\ new.reader = "MISSING" /\ new.writer = "MISSING"
    BY <1>1, <2>3, ZeroType DEF Record, Zero
  <2> HIDE DEF new
  <2>6. data' \in [Ids -> Record] /\ data'[datakey] = new
    BY <1>1, <2>4, <2>5
  <2>7. TypeOK'
    <3>1. \A i \in Ids : data'[i].nsampler \in Wrapped .. MAXSM
      BY <2>6 DEF Record
    <3>2. QED
      BY <1>1, <2>3, <3>1 DEF TypeOK, Starting
  <2>8. Contents'
    <3>1. /\ datakey' = datakey /\ semkey' = semkey /\ dataid' = dataid
          /\ new.initialized /\ new.semid = semkey /\ new.fifoid # 0
      BY <1>1, <2>3, <2>5
    <3>2. \A i \in Ids : i = datakey \/ data'[i] = data[i]
      BY <2>4
    <3>3. QED
      BY <2>6, <3>1, <3>2 DEF Contents
  <2>9. Words'
    BY <1>1, <2>2, <2>3 DEF TypeOK, Words, Present, Leaving, Linked
  <2>10. Slots' /\ Owned'
    BY <1>1, <2>2, <2>5, <2>6 DEF TypeOK, Slots, Owned, Proc, Linked
  <2>11. Clean'
    <3>1. Working = {}
      BY <2>2 DEF Working, Present, Linked, Proc
    <3>2. data'[datakey'].nsampler = Cardinality(Working')
      BY <1>1, <1>5, <2>5, <2>6, <3>1, FS_EmptySet
    <3>3. QED
      BY <1>1, <2>5, <2>6, <3>2 DEF Clean, TypeOK
  <2>12. QED
    BY <1>3, <1>4, <2>6, <2>7, <2>8, <2>9, <2>10, <2>11
<1>8. QED
  BY <1>6, <1>7

\* A program that goes on was not refused.
LEMMA CheckPresentStep ==
  ASSUME LifecycleInv, NEW p \in Proc, CheckPresent(p)
  PROVE  LifecycleInv'
<1> USE IdsType DEF LifecycleInv
<1>1. /\ pc[p] = "check"
      /\ UNCHANGED <<kernel, data, semid, dataid>>
      /\ dataid[p] = datakey /\ datakey \in Ids
  BY DEF CheckPresent, Goto, DataKept, Holding, Linked, TypeOK
<1>2. \/ /\ pc' = [pc EXCEPT ![p] = "map"]
         /\ UNCHANGED <<valid, mishaps>>
         /\ p \in Samplers => data[datakey].nsampler # MAXSM
      \/ /\ pc' = [pc EXCEPT ![p] = "leave"]
         /\ valid' = [valid EXCEPT ![p] = FALSE]
         /\ mishaps' = mishaps \union {"refused"}
  BY <1>1 DEF CheckPresent, Goto, Refused, Its
<1> USE DEF kernel
<1>3. TypeOK'
  <2>1. /\ pc' \in [Proc -> Starting \union Leaving \union {"out", "in"}]
        /\ valid' \in [Proc -> BOOLEAN]
    <3>1. pc' \in {[pc EXCEPT ![p] = "map"], [pc EXCEPT ![p] = "leave"]}
      BY <1>2
    <3>2. valid' \in {valid, [valid EXCEPT ![p] = FALSE]}
      BY <1>2
    <3>3. pc' \in [Proc -> Starting \union Leaving \union {"out", "in"}]
      BY <3>1 DEF TypeOK, Starting
    <3>4. valid' \in [Proc -> BOOLEAN]
      BY <3>2 DEF TypeOK
    <3>5. QED
      BY <3>3, <3>4
  <2>2. mishaps' \subseteq {"refused", "killed"}
    BY <1>2 DEF TypeOK
  <2>3. QED
    BY <1>1, <2>1, <2>2 DEF TypeOK
<1>4. InitGuarded' /\ Phases' /\ Guarded'
  BY <1>1, <1>2 DEF TypeOK, InitGuarded, Phases, Guarded, Starting, Leaving, Inside, Detached
<1>5. DataKept' /\ Contents'
  BY <1>1, <1>2 DEF TypeOK, DataKept, Contents, Holding, Linked, Detached
<1>6. Words' /\ Slots'
  BY <1>1, <1>2 DEF TypeOK, Words, Slots, Present, Leaving, Proc
<1>7. Owned'
  <2>1. \A q \in Proc : pc[q] \in Present /\ valid[q] => pc'[q] \in Present /\ valid'[q]
    BY <1>1, <1>2 DEF Present, TypeOK
  <2>2. "killed" \notin mishaps' => "killed" \notin mishaps
    BY <1>2
  <2>3. QED
    BY <1>1, <2>1, <2>2 DEF Owned, Proc
<1>8. Clean'
  <2>1. CASE mishaps' = {}
    <3>1. pc' = [pc EXCEPT ![p] = "map"] /\ UNCHANGED <<valid, mishaps>>
      BY <1>2, <2>1
    <3>2. Working' = Working
      BY <1>1, <3>1 DEF Working, Present, TypeOK, Proc
    <3>3. QED
      BY <1>1, <3>1, <3>2 DEF Clean, TypeOK, Leaving
  <2>2. QED
    BY <2>1 DEF Clean
<1>9. QED
  BY <1>1, <1>3, <1>4, <1>5, <1>6, <1>7, <1>8

\* Words that can be attached are those of the key.
LEMMA MapFifoStep ==
  ASSUME LifecycleInv, NEW p \in Proc, MapFifo(p)
  PROVE  LifecycleInv'
<1> USE IdsType DEF LifecycleInv
<1>1. /\ pc[p] = "map"
      /\ UNCHANGED <<semkey, semval, datakey, attached, fifokey, semid, dataid, mishaps>>
      /\ dataid[p] = datakey /\ datakey \in Ids
  BY DEF MapFifo, Goto, DataKept, Holding, Linked, TypeOK
<1>2. \A q \in Proc : pc[q] \notin Leaving
  BY <1>1 DEF Phases, Starting
<1> DEFINE d == data[datakey]
           slot == Start(p, d.nsampler)
<1>3. CASE d.fifoid = fifokey \/ mapped[d.fifoid] # {}
  <2> DEFINE new == [d EXCEPT !.start[slot] = {p}]
  <2>1. /\ pc' = [pc EXCEPT ![p] = "mark"]
        /\ mapped' = [mapped EXCEPT ![d.fifoid] = @ \union {p}]
        /\ data' = [data EXCEPT ![datakey] = new]
        /\ UNCHANGED valid
        /\ p \in Samplers => d.nsampler # Wrapped
    BY <1>1, <1>3 DEF MapFifo, Goto, Its, Change
  <2>2. d \in Record
    BY <1>1
  <2>3. /\ new \in Record
        /\ new.initialized = d.initialized /\ new.semid = d.semid /\ new.fifoid = d.fifoid
        /\ new.nsampler = d.nsampler /\ new.reader = d.reader /\ new.writer = d.writer
    BY <2>2 DEF Record
  <2> HIDE DEF new
  <2>4. /\ data' \in [Ids -> Record] /\ data'[datakey] = new
        /\ \A i \in Ids \ {datakey} : data'[i] = data[i]
    BY <1>1, <2>1, <2>3
  <2>5. d.initialized
    BY <1>1 DEF Contents, Linked
  <2>6. TypeOK'
    <3>1. \A i \in Ids : data'[i].nsampler \in Wrapped .. MAXSM
      BY <2>4 DEF Record
    <3>2. QED
      BY <1>1, <2>1, <3>1 DEF TypeOK, Starting
  <2>7. InitGuarded' /\ Phases' /\ Guarded'
    BY <1>1, <2>1 DEF TypeOK, InitGuarded, Phases, Guarded, Starting, Leaving, Inside, Detached
  <2>8. DataKept'
    BY <1>1, <2>1 DEF TypeOK, DataKept, Holding, Linked, Detached
  <2>9. Contents'
    <3>1. /\ datakey' = datakey /\ semkey' = semkey /\ dataid' = dataid
          /\ new.initialized /\ new.semid = semkey /\ new.fifoid # 0
      BY <1>1, <2>3, <2>5 DEF Contents, TypeOK
    <3>2. \A i \in Ids : i = datakey \/ data'[i] = data[i]
      BY <2>4
    <3>3. QED
      BY <2>4, <3>1, <3>2 DEF Contents
  <2>10. Words'
    <3>1. d.fifoid \in Ids
      BY <1>1, <2>2, <2>5 DEF Record, TypeOK, Contents
    <3>2. \A q \in Proc : pc'[q] # "rm_fifo"
      BY <1>1, <1>2, <2>1 DEF TypeOK, Leaving
    <3>3. /\ d.fifoid = fifokey
          /\ \A i \in Ids : mapped'[i] = mapped[i] \union (IF i = d.fifoid THEN {p} ELSE {})
      BY <1>3, <2>1, <3>1 DEF Words, TypeOK
    <3>4. p \in mapped'[d.fifoid] /\ valid[p]
      BY <1>1, <2>1, <3>1, <3>3 DEF Words, TypeOK, Present, Leaving
    <3>5. QED
      BY <1>1, <2>1, <2>3, <2>4, <3>1, <3>2, <3>3, <3>4 DEF TypeOK, Words, Present, Leaving
  <2>11. Slots' /\ Owned'
    BY <1>1, <2>1, <2>2, <2>3, <2>4, LifecycleAssumption
       DEF TypeOK, Slots, Owned, Present, Proc, Record, Wrapped
  <2>12. Clean'
    <3>1. Working' = Working
      BY <1>1, <2>1 DEF Working, Present, TypeOK, Proc
    <3>2. QED
      BY <1>1, <2>1, <2>3, <2>4, <3>1 DEF Clean, TypeOK, Leaving
  <2>13. QED
    BY <2>4, <2>6, <2>7, <2>8, <2>9, <2>10, <2>11, <2>12
<1>4. CASE ~(d.fifoid = fifokey \/ mapped[d.fifoid] # {})
  <2> DEFINE new == [d EXCEPT !.start[slot] = {}]
  <2>1. /\ pc' = [pc EXCEPT ![p] = "leave"]
        /\ valid' = [valid EXCEPT ![p] = FALSE]
        /\ data' = [data EXCEPT ![datakey] = new]
        /\ UNCHANGED mapped
    BY <1>1, <1>4 DEF MapFifo, Goto, Its, Change
  <2>2. d \in Record
    BY <1>1
  <2>3. /\ new \in Record
        /\ new.initialized = d.initialized /\ new.semid = d.semid /\ new.fifoid = d.fifoid
        /\ new.nsampler = d.nsampler /\ new.reader = d.reader /\ new.writer = d.writer
    BY <2>2 DEF Record
  <2> HIDE DEF new
  <2>4. /\ data' \in [Ids -> Record] /\ data'[datakey] = new
        /\ \A i \in Ids \ {datakey} : data'[i] = data[i]
    BY <1>1, <2>1, <2>3
  <2>5. d.initialized
    BY <1>1 DEF Contents, Linked
  <2>6. TypeOK'
    <3>1. \A i \in Ids : data'[i].nsampler \in Wrapped .. MAXSM
      BY <2>4 DEF Record
    <3>2. QED
      BY <1>1, <2>1, <3>1 DEF TypeOK, Starting
  <2>7. InitGuarded' /\ Phases' /\ Guarded'
    BY <1>1, <2>1 DEF TypeOK, InitGuarded, Phases, Guarded, Starting, Leaving, Inside, Detached
  <2>8. DataKept'
    BY <1>1, <2>1 DEF TypeOK, DataKept, Holding, Linked, Detached
  <2>9. Contents'
    <3>1. /\ datakey' = datakey /\ semkey' = semkey /\ dataid' = dataid
          /\ new.initialized /\ new.semid = semkey /\ new.fifoid # 0
      BY <1>1, <2>3, <2>5 DEF Contents, TypeOK
    <3>2. \A i \in Ids : i = datakey \/ data'[i] = data[i]
      BY <2>4
    <3>3. QED
      BY <2>4, <3>1, <3>2 DEF Contents
  <2>10. Words'
    BY <1>1, <2>1, <2>3, <2>4 DEF TypeOK, Words, Present, Leaving, Proc
  <2>11. Slots'
    BY <1>1, <2>1, <2>2, <2>3, <2>4, LifecycleAssumption
       DEF TypeOK, Slots, Present, Proc, Record, Wrapped
  <2>12. Owned'
    <3>1. \A q \in Proc : pc[q] \in Present /\ valid[q] => pc'[q] \in Present /\ valid'[q]
      BY <1>1, <2>1 DEF Present, TypeOK
    <3>2. QED
      BY <1>1, <2>1, <2>3, <2>4, <3>1 DEF Owned, Proc
  <2>13. Clean'
    <3>1. mishaps # {}
      BY <1>1, <1>4, <2>5 DEF Clean, Leaving
    <3>2. QED
      BY <1>1, <3>1 DEF Clean
  <2>14. QED
    BY <2>4, <2>6, <2>7, <2>8, <2>9, <2>10, <2>11, <2>12, <2>13
<1>5. QED
  BY <1>3, <1>4

\* A flag that is set has an owner, a slot that is taken is counted.
LEMMA MarkPresentStep ==
  ASSUME LifecycleInv, NEW p \in Proc, MarkPresent(p)
  PROVE  LifecycleInv'
<1> USE IdsType DEF LifecycleInv
<1> DEFINE d == data[datakey]
<1>1. /\ pc[p] = "mark" /\ pc' = [pc EXCEPT ![p] = "leave"]
      /\ UNCHANGED <<kernel, semid, dataid, valid, mishaps>>
      /\ dataid[p] = datakey /\ datakey \in Ids
  BY DEF MarkPresent, Goto, DataKept, Holding, Linked, TypeOK
<1>2. \A q \in Proc : pc[q] \notin Leaving /\ (q # p => pc[q] \notin Inside)
  BY <1>1 DEF Phases, Starting, InitGuarded, Inside
<1>3. d \in Record /\ d.initialized /\ valid[p]
  BY <1>1 DEF Contents, Linked, Words, Present, Leaving
<1>4. PICK new : /\ data' = [data EXCEPT ![datakey] = new]
                 /\ \/ p \in Readers /\ new = [d EXCEPT !.reader = "PRESENT"]
                    \/ p \in Writers /\ new = [d EXCEPT !.writer = "PRESENT"]
                    \/ p \in Samplers /\ new = [d EXCEPT !.nsampler = @ + 1]
  BY <1>1 DEF MarkPresent, Its, Change
<1>5. /\ new \in Record
      /\ new.initialized = d.initialized /\ new.semid = d.semid /\ new.fifoid = d.fifoid
      /\ new.reader = d.reader \/ (p \in Readers /\ new.reader = "PRESENT")
      /\ new.writer = d.writer \/ (p \in Writers /\ new.writer = "PRESENT")
      /\ new.nsampler = IF p \in Samplers THEN d.nsampler + 1 ELSE d.nsampler
  <2>1. p \in Samplers => d.nsampler \in 0 .. MAXSM - 1
    BY <1>1 DEF Slots
  <2>2. MAXSM \in Nat
    BY LifecycleAssumption
  <2>3. CASE p \in Samplers
    <3>1. new = [d EXCEPT !.nsampler = d.nsampler + 1]
      BY <1>4, <2>3, LifecycleAssumption
    <3>2. d.nsampler + 1 \in Wrapped .. MAXSM
      BY <2>1, <2>2, <2>3 DEF Wrapped
    <3>3. QED
      BY <1>3, <2>3, <3>1, <3>2 DEF Record
  <2>4. CASE p \notin Samplers
    BY <1>3, <1>4, <2>4 DEF Record
  <2>5. QED
    BY <2>3, <2>4
<1>6. /\ data' \in [Ids -> Record] /\ data'[datakey] = new
      /\ \A i \in Ids \ {datakey} : data'[i] = data[i]
  BY <1>1, <1>4, <1>5
<1> USE DEF kernel
<1>7. TypeOK'
  <2>1. \A i \in Ids : data'[i].nsampler \in Wrapped .. MAXSM
    BY <1>6 DEF Record
  <2>2. QED
    BY <1>1, <2>1 DEF TypeOK, Starting
<1>8. InitGuarded' /\ Phases' /\ Guarded'
  BY <1>1 DEF TypeOK, InitGuarded, Phases, Guarded, Starting, Leaving, Inside, Detached
<1>9. DataKept'
  BY <1>1 DEF TypeOK, DataKept, Holding, Linked, Detached
<1>10. Contents'
  <2>1. /\ datakey' = datakey /\ semkey' = semkey /\ dataid' = dataid
        /\ new.initialized /\ new.semid = semkey /\ new.fifoid # 0
    BY <1>1, <1>3, <1>5 DEF Contents
  <2>2. \A i \in Ids : i = datakey \/ data'[i] = data[i]
    BY <1>6
  <2>3. QED
    BY <1>6, <2>1, <2>2 DEF Contents
<1>11. Words'
  BY <1>1, <1>3, <1>5, <1>6 DEF TypeOK, Words, Present, Leaving
<1>12. Slots'
  <2>1. \A q \in Samplers : pc'[q] \notin {"map", "mark"}
    BY <1>1, <1>2 DEF TypeOK, Proc, Inside, Starting
  <2>2. QED
    BY <2>1 DEF Slots
<1>13. Owned'
  <2>1. pc'[p] \in Present /\ valid'[p]
    BY <1>1, <1>3 DEF Present, TypeOK
  <2>2. \A q \in Proc : pc[q] \in Present /\ valid[q] => pc'[q] \in Present /\ valid'[q]
    BY <1>1, <1>3 DEF Present, TypeOK
  <2>3. QED
    BY <1>1, <1>5, <1>6, <2>1, <2>2 DEF Owned, Proc
<1>14. Clean'
  <2>1. Cardinality(Working') =
          IF p \in Samplers THEN Cardinality(Working) + 1 ELSE Cardinality(Working)
    <3>1. p \notin Working /\ IsFiniteSet(Working)
      BY <1>1, FS_Subset, LifecycleAssumption DEF Working, Present
    <3>2. CASE p \in Samplers
      <4>1. Working' = Working \union {p}
        BY <1>1, <3>2 DEF Working, Present, TypeOK, Proc
      <4>2. QED
        BY <3>1, <3>2, <4>1, FS_AddElement
    <3>3. CASE p \notin Samplers
      <4>1. Working' = Working
        BY <1>1, <3>3 DEF Working, Present, TypeOK, Proc
      <4>2. QED
        BY <3>3, <4>1
    <3>4. QED
      BY <3>2, <3>3
  <2>2. QED
    BY <1>1, <1>5, <1>6, <2>1 DEF Clean, TypeOK, Leaving
<1>15. QED
  BY <1>1, <1>6, <1>7, <1>8, <1>9, <1>10, <1>11, <1>12, <1>13, <1>14

\* Semaphore 0 is given back by the one program that has it.
LEMMA LeaveSemStep ==
  ASSUME LifecycleInv, NEW p \in Proc, LeaveSem(p)
  PROVE  LifecycleInv'
<1> USE IdsType DEF LifecycleInv
<1>1. /\ pc[p] = "leave" /\ pc' = [pc EXCEPT ![p] = "in"]
      /\ semid[p] = semkey /\ semkey \in Ids
      /\ semval' = [semval EXCEPT ![semkey] = semval[semkey] - 1]
      /\ semval[semkey] = 1
      /\ UNCHANGED <<semkey, datakey, attached, fifokey, mapped, data, local>>
  BY DEF LeaveSem, Goto, Guarded, Starting, Inside, TypeOK
<1>2. semval' = [semval EXCEPT ![semkey] = 0]
  BY <1>1
<1>3. \A q \in Proc : q # p => pc[q] \notin Inside
  BY <1>1 DEF InitGuarded, Inside, Starting
<1> USE DEF local
<1>4. TypeOK'
  BY <1>1, <1>2 DEF TypeOK, Starting
<1>5. InitGuarded' /\ Phases' /\ Guarded'
  BY <1>1, <1>2, <1>3
     DEF TypeOK, InitGuarded, Phases, Guarded, Starting, Leaving, Inside, Detached
<1>6. DataKept' /\ Contents'
  BY <1>1 DEF TypeOK, DataKept, Contents, Holding, Linked, Detached
<1>7. Words' /\ Slots' /\ Owned'
  BY <1>1 DEF TypeOK, Words, Slots, Owned, Present, Leaving, Proc
<1>8. Clean'
  <2>1. Working' = Working
    BY <1>1 DEF Working, Present, TypeOK, Proc
  <2>2. QED
    BY <1>1, <2>1 DEF Clean, TypeOK, Leaving
<1>9. QED
  BY <1>1, <1>4, <1>5, <1>6, <1>7, <1>8

\* A program that leaves clears its flag, or frees the last slot.
LEMMA UnmarkStep ==
  ASSUME LifecycleInv, ~Overlap, NEW p \in Proc, Unmark(p)
  PROVE  LifecycleInv'
<1> USE IdsType DEF LifecycleInv
<1> DEFINE d == data[datakey]
           new == Cleared(p)
<1>1. /\ pc[p] = "in" /\ pc' = [pc EXCEPT ![p] = "stat_fifo"]
      /\ \A q \in Proc : pc[q] \notin Starting
      /\ UNCHANGED <<semkey, semval, datakey, attached, fifokey, semid, dataid, valid, mishaps>>
      /\ dataid[p] = datakey /\ datakey \in Ids
      /\ data' = [data EXCEPT ![datakey] = new]
  BY DEF Unmark, Goto, DataKept, Holding, Linked, TypeOK, local, Change
<1>2. d \in Record /\ d.initialized
  BY <1>1 DEF Contents, Linked
<1>3. \A i \in Ids : mapped'[i] \in {mapped[i], mapped[i] \ {p}}
  <2>1. PICK k : mapped' \in {mapped, [mapped EXCEPT ![k] = @ \ {p}]}
    BY <1>1 DEF Unmark, Its
  <2>2. QED
    BY <2>1 DEF TypeOK
<1>4. mapped' \in [Ids -> SUBSET Proc]
  <2>1. PICK k : mapped' \in {mapped, [mapped EXCEPT ![k] = @ \ {p}]}
    BY <1>1 DEF Unmark, Its
  <2>2. QED
    BY <2>1 DEF TypeOK
<1>5. /\ new \in Record
      /\ new.initialized = d.initialized /\ new.semid = d.semid /\ new.fifoid = d.fifoid
      /\ new.reader = IF p \in Readers THEN "MISSING" ELSE d.reader
      /\ new.writer = IF p \in Writers THEN "MISSING" ELSE d.writer
      /\ p \in Samplers /\ d.nsampler > 0 => new.nsampler = d.nsampler - 1
      /\ p \notin Samplers => new.nsampler = d.nsampler
  <2>1. CASE p \in Samplers
    <3>1. p \notin Readers /\ p \notin Writers
      BY <2>1, LifecycleAssumption
    <3> DEFINE n == IF d.nsampler > 0 THEN d.nsampler - 1 ELSE Wrapped
    <3>2. new = [d EXCEPT !.nsampler = n]
      BY <1>1, <3>1 DEF Cleared, Its
    <3>3. n \in Wrapped .. MAXSM /\ (d.nsampler > 0 => n = d.nsampler - 1)
      BY <1>2, LifecycleAssumption DEF Record, Wrapped
    <3> HIDE DEF n, new
    <3>4. QED
      BY <1>2, <2>1, <3>1, <3>2, <3>3 DEF Record
  <2>2. CASE p \notin Samplers
    <3>1. \/ p \in Readers /\ p \notin Writers /\ new = [d EXCEPT !.reader = "MISSING"]
          \/ p \notin Readers /\ p \in Writers /\ new = [d EXCEPT !.writer = "MISSING"]
      BY <1>1, <2>2, LifecycleAssumption DEF Cleared, Its, Proc
    <3> HIDE DEF new
    <3>2. QED
      BY <1>2, <2>2, <3>1 DEF Record
  <2>3. QED
    BY <2>1, <2>2
<1> HIDE DEF new
<1>6. /\ data' \in [Ids -> Record] /\ data'[datakey] = new
      /\ \A i \in Ids : i = datakey \/ data'[i] = data[i]
  BY <1>1, <1>5
<1>7. TypeOK'
  <2>1. \A i \in Ids : data'[i].nsampler \in Wrapped .. MAXSM
    BY <1>6 DEF Record
  <2>2. QED
    BY <1>1, <1>4, <2>1 DEF TypeOK, Leaving
<1>8. InitGuarded' /\ Phases' /\ Guarded'
  BY <1>1 DEF TypeOK, InitGuarded, Phases, Guarded, Starting, Leaving, Inside, Detached
<1>9. DataKept'
  BY <1>1 DEF TypeOK, DataKept, Holding, Linked, Detached
<1>10. Contents'
  <2>1. /\ datakey' = datakey /\ semkey' = semkey /\ dataid' = dataid
        /\ new.initialized /\ new.semid = semkey /\ new.fifoid # 0
    BY <1>1, <1>2, <1>5 DEF Contents
  <2>2. QED
    BY <1>6, <2>1 DEF Contents
<1>11. Words'
  <2>1. d.fifoid \in Ids
    BY <1>1, <1>2 DEF Contents, Record
  <2>2. \A q \in Proc : q # p => pc'[q] = pc[q] /\ valid'[q] = valid[q]
    BY <1>1 DEF TypeOK
  <2>3. \A i \in Ids : mapped[i] = {} => mapped'[i] = {}
    BY <1>3
  <2>4. \A i \in Ids : \A q \in Proc : q # p /\ q \in mapped[i] => q \in mapped'[i]
    BY <1>3
  <2>5. pc'[p] = "stat_fifo"
    BY <1>1 DEF TypeOK
  <2>6. data'[datakey'].fifoid = d.fifoid /\ fifokey' = fifokey
    BY <1>1, <1>5, <1>6
  <2>7. \A i \in Ids : mapped'[i] # {} => i = fifokey'
    BY <2>3, <2>6 DEF Words
  <2>8. \A q \in Proc : pc'[q] \in Present \union {"mark"} /\ valid'[q] => q \in mapped'[d.fifoid]
    BY <2>1, <2>2, <2>4, <2>5 DEF Words, Present
  <2>9. \A q \in Proc : pc'[q] \notin Present \union Leaving => valid'[q]
    BY <2>2, <2>5 DEF Words, Leaving
  <2>10. \A q \in Proc : pc'[q] = "rm_fifo" => mapped'[d.fifoid] = {}
    BY <2>1, <2>2, <2>3, <2>5 DEF Words
  <2>11. QED
    BY <2>6, <2>7, <2>8, <2>9, <2>10 DEF Words
<1>12. Slots'
  <2>1. \A q \in Samplers : pc'[q] \notin {"map", "mark"}
    BY <1>1 DEF TypeOK, Proc, Starting
  <2>2. QED
    BY <2>1 DEF Slots
<1>13. Owned'
  <2>1. \A q \in Proc : q # p /\ pc[q] \in Present /\ valid[q] => pc'[q] \in Present /\ valid'[q]
    BY <1>1 DEF Present, TypeOK
  <2>2. QED
    BY <1>1, <1>5, <1>6, <2>1 DEF Owned, Proc
<1>14. Clean'
  <2>1. CASE mishaps = {}
    <3>1. p \in Samplers => /\ Cardinality(Working') = Cardinality(Working) - 1
                           /\ Cardinality(Working) > 0
      <4>1. CASE p \in Samplers
        <5>1. p \in Working /\ IsFiniteSet(Working)
          BY <1>1, <4>1, FS_Subset, LifecycleAssumption DEF Working, Present
        <5>2. Working' = Working \ {p}
          BY <1>1, <4>1 DEF Working, Present, TypeOK, Proc
        <5>3. Cardinality(Working) \in Nat /\ Cardinality(Working) # 0
          BY <5>1, FS_CardinalityType, FS_EmptySet
        <5>4. Cardinality(Working \ {p}) = Cardinality(Working) - 1
          BY <5>1, FS_RemoveElement
        <5>5. QED
          BY <5>2, <5>3, <5>4
      <4>2. QED
        BY <4>1
    <3>2. p \notin Samplers => Working' = Working
      BY <1>1 DEF Working, Present, TypeOK, Proc
    <3>3. d.fifoid = fifokey
      BY <1>1, <1>2, <2>1 DEF Clean, Leaving
    <3>4. data'[datakey'].nsampler = Cardinality(Working')
      BY <1>1, <1>5, <1>6, <2>1, <3>1, <3>2 DEF Clean
    <3>5. pc'[p] # "out"
      BY <1>1 DEF TypeOK
    <3>6. QED
      BY <1>1, <1>5, <1>6, <2>1, <3>3, <3>4, <3>5 DEF Clean
  <2>2. CASE mishaps # {}
    BY <1>1, <2>2 DEF Clean
  <2>3. QED
    BY <2>1, <2>2
<1>15. QED
  BY <1>6, <1>7, <1>8, <1>9, <1>10, <1>11, <1>12, <1>13, <1>14

\* The words are to be removed only if nobody is attached to them.
LEMMA StatFifoStep ==
  ASSUME LifecycleInv, NEW p \in Proc, StatFifo(p)
  PROVE  LifecycleInv'
<1> USE IdsType DEF LifecycleInv
<1>1. /\ pc[p] = "stat_fifo"
      /\ \/ pc' = [pc EXCEPT ![p] = "rm_fifo"] /\ mapped[data[datakey].fifoid] = {}
         \/ pc' = [pc EXCEPT ![p] = "detach"]
      /\ UNCHANGED <<kernel, data, local>>
  BY DEF StatFifo, Goto, Its, DataKept, Holding, Linked
<1> USE DEF kernel, local
<1>2. TypeOK'
  BY <1>1 DEF TypeOK, Leaving
<1>3. InitGuarded' /\ Phases' /\ Guarded'
  BY <1>1 DEF TypeOK, InitGuarded, Phases, Guarded, Starting, Leaving, Inside, Detached
<1>4. DataKept' /\ Contents'
  BY <1>1 DEF TypeOK, DataKept, Contents, Holding, Linked, Detached
<1>5. Words' /\ Slots' /\ Owned'
  BY <1>1 DEF TypeOK, Words, Slots, Owned, Present, Leaving, Proc
<1>6. Clean'
  <2>1. Working' = Working
    BY <1>1 DEF Working, Present, TypeOK, Proc
  <2>2. QED
    BY <1>1, <2>1 DEF Clean, TypeOK, Leaving
<1>7. QED
  BY <1>1, <1>2, <1>3, <1>4, <1>5, <1>6

\* Words are removed when every valid program has left them.
LEMMA RemoveFifoStep ==
  ASSUME LifecycleInv, NEW p \in Proc, RemoveFifo(p)
  PROVE  LifecycleInv'
<1> USE IdsType DEF LifecycleInv
<1>1. /\ pc[p] = "rm_fifo" /\ pc' = [pc EXCEPT ![p] = "detach"]
      /\ datakey # 0 /\ data[datakey].initialized
      /\ mapped[data[datakey].fifoid] = {}
      /\ fifokey' = IF fifokey = data[datakey].fifoid THEN 0 ELSE fifokey
      /\ UNCHANGED <<semkey, semval, datakey, attached, mapped, data, local>>
  BY DEF RemoveFifo, Goto, Its, DataKept, Holding, Linked, Contents, Words
<1>2. \A q \in Proc : pc[q] \notin Starting
  BY <1>1 DEF Phases, Leaving
<1> USE DEF local
<1>3. TypeOK'
  BY <1>1 DEF TypeOK, Leaving
<1>4. InitGuarded' /\ Phases' /\ Guarded'
  BY <1>1 DEF TypeOK, InitGuarded, Phases, Guarded, Starting, Leaving, Inside, Detached
<1>5. DataKept' /\ Contents'
  BY <1>1 DEF TypeOK, DataKept, Contents, Holding, Linked, Detached
<1>6. Words' /\ Slots' /\ Owned'
  BY <1>1 DEF TypeOK, Words, Slots, Owned, Present, Leaving, Proc
<1>7. Clean'
  <2>1. Working' = Working
    BY <1>1 DEF Working, Present, TypeOK, Proc
  <2>2. mishaps = {} => \A q \in Proc : pc[q] \in Leaving \union {"out"}
    <3>1. \A q \in Proc : valid[q] => pc[q] \notin Present
      BY <1>1 DEF Words
    <3>2. QED
      BY <1>2, <3>1 DEF Clean, TypeOK, Present
  <2>3. QED
    BY <1>1, <2>1, <2>2 DEF Clean, TypeOK, Leaving
<1>8. QED
  BY <1>1, <1>3, <1>4, <1>5, <1>6, <1>7

\* A program that detaches the data remembers their semaphores.
LEMMA DetachDataStep ==
  ASSUME LifecycleInv, NEW p \in Proc, DetachData(p)
  PROVE  LifecycleInv'
<1> USE IdsType DEF LifecycleInv
<1>1. /\ pc[p] = "detach" /\ pc' = [pc EXCEPT ![p] = "stat_data"]
      /\ dataid[p] = datakey /\ datakey \in Ids
      /\ attached' = [attached EXCEPT ![datakey] = @ \ {p}]
      /\ semid' = [semid EXCEPT ![p] = semkey]
      /\ UNCHANGED <<semkey, semval, datakey, fifokey, mapped, data, dataid, valid, mishaps>>
  BY DEF DetachData, Goto, Its, DataKept, Holding, Linked, Contents, TypeOK
<1>2. TypeOK'
  BY <1>1 DEF TypeOK, Leaving
<1>3. InitGuarded' /\ Phases' /\ Guarded'
  BY <1>1 DEF TypeOK, InitGuarded, Phases, Guarded, Starting, Leaving, Inside, Detached
<1>4. DataKept'
  <2>1. \A q \in Proc : \A i \in Ids :
           q \in attached'[i] <=> pc'[q] \in Holding /\ i = dataid'[q]
    BY <1>1 DEF TypeOK, DataKept, Holding, Linked
  <2>2. QED
    BY <1>1, <2>1 DEF TypeOK, DataKept, Holding, Linked, Detached
<1>5. Contents'
  BY <1>1 DEF TypeOK, Contents, Linked
<1>6. Words' /\ Slots' /\ Owned'
  BY <1>1 DEF TypeOK, Words, Slots, Owned, Present, Leaving, Proc
<1>7. Clean'
  <2>1. Working' = Working
    BY <1>1 DEF Working, Present, TypeOK, Proc
  <2>2. QED
    BY <1>1, <2>1 DEF Clean, TypeOK, Leaving
<1>8. QED
  BY <1>1, <1>2, <1>3, <1>4, <1>5, <1>6, <1>7

\* The data are removed when every program is out or has detached them.
LEMMA RemoveDataStep ==
  ASSUME LifecycleInv, NEW p \in Proc, RemoveData(p)
  PROVE  LifecycleInv'
<1> USE IdsType DEF LifecycleInv
<1>1. /\ pc[p] = "rm_data" /\ pc' = [pc EXCEPT ![p] = "rm_sem"]
      /\ datakey \in {0, dataid[p]} /\ datakey' = 0 /\ dataid[p] # 0
      /\ \A q \in Proc : pc[q] \notin Holding /\ pc[q] \notin Starting
      /\ UNCHANGED <<semkey, semval, attached, fifokey, mapped, data, local>>
  BY DEF RemoveData, Goto, DataKept, Detached, Phases, Leaving
<1>2. \A q \in Proc : pc[q] \in {"out"} \union Detached
  BY <1>1 DEF TypeOK, Starting, Leaving, Holding, Linked, Detached
<1> USE DEF local
<1>3. TypeOK'
  BY <1>1 DEF TypeOK, Leaving
<1>4. InitGuarded' /\ Phases' /\ Guarded'
  BY <1>1 DEF TypeOK, InitGuarded, Phases, Guarded, Starting, Leaving, Inside, Detached
<1>5. DataKept'
  BY <1>1, <1>2 DEF TypeOK, DataKept, Holding, Linked, Detached
<1>6. Contents'
  BY <1>1, <1>2 DEF TypeOK, Contents, Linked, Detached
<1>7. Words' /\ Slots' /\ Owned'
  BY <1>1, <1>2 DEF TypeOK, Words, Slots, Owned, Present, Leaving, Proc, Detached
<1>8. Clean'
  BY <1>1 DEF Clean, TypeOK
<1>9. QED
  BY <1>1, <1>3, <1>4, <1>5, <1>6, <1>7, <1>8

\* A program may end where nothing depends on it: a flag loses its owner only if it
\* was killed, and the last one has removed everything unless there was a mishap.
LEMMA ExitStep ==
  ASSUME LifecycleInv, NEW p \in Proc, Exit(p), UNCHANGED <<semval, datakey, fifokey>>,
         semkey' = semkey \/ (semkey' = 0 /\ pc[p] = "rm_sem"),
         mishaps' \in {mishaps, mishaps \union {"killed"}},
         "killed" \in mishaps' \/ pc[p] \notin Present \/ ~valid[p],
         mishaps' = {} => /\ pc[p] \notin Present
                          /\ datakey # 0 \/ semkey' # 0 => \E q \in Proc \ {p} : pc[q] # "out"
  PROVE  LifecycleInv'
<1> USE IdsType, ZeroType DEF LifecycleInv
<1>1. /\ pc' = [pc EXCEPT ![p] = "out"]
      /\ attached' = [i \in Ids |-> attached[i] \ {p}]
      /\ mapped' = [i \in Ids |-> mapped[i] \ {p}]
      /\ semid' = [semid EXCEPT ![p] = 0]
      /\ dataid' = [dataid EXCEPT ![p] = 0]
      /\ valid' = [valid EXCEPT ![p] = TRUE]
      /\ datakey' = datakey /\ fifokey' = fifokey /\ semval' = semval
  BY DEF Exit
<1>2. data' = [i \in Ids |-> IF i # datakey /\ \A q \in Proc \ {p} : i # dataid[q]
                            THEN Zero ELSE data[i]]
  BY <1>1 DEF Exit
<1>3. pc[p] = "rm_sem" => /\ datakey = 0
                         /\ \A q \in Proc : pc[q] \notin Starting /\ pc[q] \notin Holding
  BY DEF Guarded, DataKept, Phases, Leaving
<1>4. /\ data' \in [Ids -> Record]
      /\ datakey # 0 => data'[datakey] = data[datakey]
      /\ \A i \in Ids : data'[i] = data[i] \/ data'[i] = Zero
  BY <1>2 DEF TypeOK
<1>5. TypeOK'
  <2>1. \A i \in Ids : data'[i].nsampler \in Wrapped .. MAXSM
    BY <1>4 DEF Record
  <2>2. pc' \in [Proc -> Starting \union Leaving \union {"out", "in"}]
    BY <1>1 DEF TypeOK
  <2>3. valid' \in [Proc -> BOOLEAN]
    BY <1>1 DEF TypeOK
  <2>4. mishaps' \subseteq {"refused", "killed"}
    BY DEF TypeOK
  <2>5. semkey' \in Ids \union {0}
    BY DEF TypeOK
  <2>6. attached' \in [Ids -> SUBSET Proc] /\ mapped' \in [Ids -> SUBSET Proc]
    BY <1>1 DEF TypeOK
  <2>7. semid' \in [Proc -> Ids \union {0}] /\ dataid' \in [Proc -> Ids \union {0}]
    BY <1>1 DEF TypeOK
  <2>8. QED
    BY <1>1, <2>1, <2>2, <2>3, <2>4, <2>5, <2>6, <2>7 DEF TypeOK
<1>6. InitGuarded' /\ Phases' /\ Guarded'
  BY <1>1, <1>3 DEF TypeOK, InitGuarded, Phases, Guarded, Starting, Leaving, Inside, Detached
<1>7. DataKept'
  <2>1. \A q \in Proc : \A i \in Ids :
           q \in attached'[i] <=> pc'[q] \in Holding /\ i = dataid'[q]
    BY <1>1 DEF TypeOK, DataKept, Holding, Linked
  <2>2. QED
    BY <1>1, <1>3, <2>1 DEF TypeOK, DataKept, Holding, Linked, Detached
<1>8. Contents'
  <2>1. \A i \in Ids : i # datakey /\ (\A q \in Proc : dataid'[q] # i) => data'[i] = Zero
    BY <1>1, <1>2 DEF TypeOK
  <2>2. \A i \in Ids : ~data'[i].initialized => data'[i] = Zero
    BY <1>4 DEF Contents
  <2>3. datakey # 0 => semkey' = semkey
    BY <1>3
  <2>4. \A q \in Proc : pc'[q] \in Linked => pc[q] \in Linked /\ datakey # 0
    BY <1>1 DEF TypeOK, Linked, DataKept, Holding
  <2>5. QED
    BY <1>1, <1>4, <2>1, <2>2, <2>3, <2>4 DEF Contents
<1>9. Words'
  <2>1. \A i \in Ids : mapped'[i] = mapped[i] \ {p}
    BY <1>1
  <2>2. \A q \in Proc : q # p => pc'[q] = pc[q] /\ valid'[q] = valid[q]
    BY <1>1 DEF TypeOK
  <2>3. \A q \in Proc : pc[q] \in Present \union {"mark", "rm_fifo"} =>
           /\ datakey # 0 /\ data'[datakey] = data[datakey]
           /\ data[datakey].fifoid \in Ids
    BY <1>4 DEF TypeOK, DataKept, Contents, Holding, Linked, Present, Record
  <2>4. pc'[p] = "out" /\ valid'[p]
    BY <1>1 DEF TypeOK
  <2>5. \A i \in Ids : mapped'[i] # {} => i = fifokey'
    BY <1>1, <2>1 DEF Words
  <2>6. \A q \in Proc : pc'[q] \in Present \union {"mark"} /\ valid'[q]
                          => q \in mapped'[data'[datakey'].fifoid]
    BY <1>1, <2>1, <2>2, <2>3, <2>4 DEF Words, Present
  <2>7. \A q \in Proc : pc'[q] \notin Present \union Leaving => valid'[q]
    BY <2>2, <2>4 DEF Words
  <2>8. \A q \in Proc : pc'[q] = "rm_fifo" => mapped'[data'[datakey'].fifoid] = {}
    BY <1>1, <2>1, <2>2, <2>3, <2>4 DEF Words
  <2>9. QED
    BY <2>5, <2>6, <2>7, <2>8 DEF Words
<1>10. Slots'
  <2>1. \A q \in Samplers : pc'[q] \in {"map", "mark"} =>
           pc'[q] = pc[q] /\ datakey # 0
    BY <1>1 DEF TypeOK, DataKept, Holding, Linked, Proc
  <2>2. QED
    BY <1>1, <1>4, <2>1 DEF Slots
<1>11. Owned'
  <2>1. "killed" \notin mishaps' => \A q \in Proc : pc[q] \in Present /\ valid[q]
                                     => pc'[q] \in Present /\ valid'[q]
    BY <1>1 DEF Present, TypeOK
  <2>2. QED
    BY <1>1, <1>4, <2>1 DEF Owned, Proc
<1>12. Clean'
  <2>1. CASE mishaps' = {}
    <3>1. mishaps = {} /\ pc[p] \notin Present
      <4>1. "killed" \notin mishaps'
        BY <2>1
      <4>2. mishaps' = mishaps
        BY <4>1
      <4>3. mishaps = {}
        BY <2>1, <4>2
      <4>4. pc[p] \notin Present
        BY <2>1
      <4>5. QED
        BY <4>3, <4>4
    <3>2. Working' = Working
      BY <1>1, <3>1 DEF Working, Present, TypeOK, Proc
    <3>3. \A q \in Proc : valid'[q]
      BY <1>1, <3>1 DEF Clean, TypeOK
    <3>4. datakey # 0 \/ semkey' # 0 => \E q \in Proc : pc'[q] # "out"
      BY <1>1, <2>1 DEF TypeOK
    <3>5. (\A q \in Proc : pc[q] \in Leaving \union {"out"})
            => \A q \in Proc : pc'[q] \in Leaving \union {"out"}
      BY <1>1 DEF TypeOK
    <3>6. QED
      BY <1>1, <1>4, <3>1, <3>2, <3>3, <3>4, <3>5 DEF Clean
  <2>2. QED
    BY <2>1 DEF Clean
<1>13. QED
  BY <1>4, <1>5, <1>6, <1>7, <1>8, <1>9, <1>10, <1>11, <1>12

\* A program looks who else is attached, and ends if somebody is.
LEMMA StatDataStep ==
  ASSUME LifecycleInv, NEW p \in Proc, StatData(p)
  PROVE  LifecycleInv'
<1> USE IdsType DEF LifecycleInv
<1>1. CASE /\ Goto(p, "stat_data", "rm_data")
           /\ attached[dataid[p]] = {}
           /\ UNCHANGED <<kernel, data, local>>
  <2> USE DEF kernel, local
  <2>1. pc[p] = "stat_data" /\ pc' = [pc EXCEPT ![p] = "rm_data"]
    BY <1>1 DEF Goto
  <2>2. dataid[p] \in Ids /\ datakey \in {0, dataid[p]}
    BY <2>1 DEF DataKept, Detached, TypeOK
  <2>3. \A q \in Proc : pc[q] \notin Holding
    BY <1>1, <2>2 DEF DataKept
  <2>4. TypeOK'
    BY <1>1, <2>1 DEF TypeOK, Leaving
  <2>5. InitGuarded' /\ Phases' /\ Guarded'
    BY <1>1, <2>1 DEF TypeOK, InitGuarded, Phases, Guarded, Starting, Leaving, Inside, Detached
  <2>6. DataKept' /\ Contents'
    BY <1>1, <2>1, <2>3 DEF TypeOK, DataKept, Contents, Holding, Linked, Detached
  <2>7. Words' /\ Slots' /\ Owned'
    BY <1>1, <2>1 DEF TypeOK, Words, Slots, Owned, Present, Leaving, Proc
  <2>8. Clean'
    <3>1. Working' = Working
      BY <2>1 DEF Working, Present, TypeOK, Proc
    <3>2. QED
      BY <1>1, <2>1, <3>1 DEF Clean, TypeOK, Leaving
  <2>9. QED
    BY <1>1, <2>4, <2>5, <2>6, <2>7, <2>8
<1>2. CASE /\ pc[p] = "stat_data"
           /\ attached[dataid[p]] # {}
           /\ UNCHANGED <<semkey, semval, datakey, fifokey, mishaps>>
           /\ Exit(p)
  <2>1. PICK q \in Proc : q \in attached[dataid[p]]
    BY <1>2 DEF DataKept, Detached, TypeOK
  <2>2. q # p /\ pc[q] # "out"
    BY <1>2, <2>1 DEF DataKept, Detached, Holding, Linked, TypeOK
  <2>3. pc[p] \notin Present
    BY <1>2 DEF Present
  <2>4. QED
    BY <1>2, <2>1, <2>2, <2>3, ExitStep
<1>3. QED
  BY <1>1, <1>2 DEF StatData

\* The last program removes the semaphores and ends.
LEMMA RemoveSemStep ==
  ASSUME LifecycleInv, NEW p \in Proc, RemoveSem(p)
  PROVE  LifecycleInv'
<1> USE DEF LifecycleInv
<1>1. /\ pc[p] = "rm_sem" /\ Exit(p)
      /\ UNCHANGED <<semval, datakey, fifokey, mishaps>>
      /\ semkey' = 0 /\ datakey = 0
  BY DEF RemoveSem, Guarded, Detached
<1>2. pc[p] \notin Present
  BY <1>1 DEF Present
<1>3. QED
  BY <1>1, <1>2, ExitStep

\* A program that ends without its destructor was killed, or had met a mishap.
LEMMA DieStep ==
  ASSUME LifecycleInv, NEW p \in Proc, Die(p)
  PROVE  LifecycleInv'
<1> USE DEF LifecycleInv
<1>1. Exit(p) /\ UNCHANGED <<semkey, semval, datakey, fifokey>>
  BY DEF Die
<1>2. CASE mishaps' = mishaps \union {"killed"}
  BY <1>1, <1>2, ExitStep
<1>3. CASE /\ \/ pc[p] = "map" /\ p \in Samplers /\ Its(p).nsampler = Wrapped
              \/ pc[p] = "in" /\ ~valid[p]
           /\ UNCHANGED mishaps
  <2>1. mishaps # {}
    <3>1. CASE pc[p] = "in" /\ ~valid[p]
      BY <3>1 DEF Clean
    <3>2. CASE pc[p] = "map" /\ p \in Samplers /\ Its(p).nsampler = Wrapped
      <4>1. datakey # 0 /\ data[datakey].nsampler = Wrapped
        BY <3>2 DEF DataKept, Holding, Linked, Its
      <4>2. Cardinality(Working) \in Nat
        BY FS_Subset, FS_CardinalityType, LifecycleAssumption DEF Working
      <4>3. QED
        BY <4>1, <4>2 DEF Clean, Wrapped
    <3>3. QED
      BY <1>3, <3>1, <3>2
  <2>2. pc[p] \notin Present \/ ~valid[p]
    BY <1>3 DEF Present
  <2>3. QED
    BY <1>1, <1>3, <2>1, <2>2, ExitStep
<1>4. QED
  BY <1>2, <1>3 DEF Die

\* Every step keeps the invariant.
LEMMA NextInv ==
  ASSUME LifecycleInv, ~Overlap, [Next]_vars
  PROVE  LifecycleInv'
<1>1. ASSUME NEW p \in Proc, Constructor(p) PROVE LifecycleInv'
  BY <1>1, GetSemStep, EnterSemStep, GetDataStep, AttachDataStep, InitDataStep,
     CheckPresentStep, MapFifoStep, MarkPresentStep, LeaveSemStep DEF Constructor
<1>2. ASSUME NEW p \in Proc, Destructor(p) PROVE LifecycleInv'
  BY <1>2, UnmarkStep, StatFifoStep, RemoveFifoStep, DetachDataStep, StatDataStep,
     RemoveDataStep, RemoveSemStep DEF Destructor
<1>3. CASE UNCHANGED vars
  <2> USE <1>3 DEF LifecycleInv, vars, kernel, local
  <2>1. (TypeOK /\ data \in [Ids -> Record] /\ InitGuarded /\ Phases /\ Guarded)'
    BY DEF TypeOK, InitGuarded, Phases, Guarded
  <2>2. (DataKept /\ Contents /\ Words /\ Slots /\ Owned)'
    BY DEF DataKept, Contents, Words, Slots, Owned
  <2>3. Clean'
    BY DEF Clean, Working
  <2>4. QED
    BY <2>1, <2>2, <2>3
<1>4. QED
  BY <1>1, <1>2, <1>3, DieStep DEF Next

-------------------------------------------------------------------------------
\* The invariant holds however many runs come and go.
THEOREM LifecycleInvariant == ~Overlap => (Spec => []LifecycleInv)
<1> SUFFICES ASSUME ~Overlap PROVE Spec => []LifecycleInv
  OBVIOUS
<1>1. LifecycleInv /\ [Next]_vars => LifecycleInv'
  BY NextInv
<1>2. QED
  BY InitInv, <1>1, PTL DEF Spec

\* The keys, the segments and the programs keep their types; nsampler stays within
\* the slots, but for 0 - 1.
THEOREM LifecycleTyped == ~Overlap => (Spec => []TypeOK)
<1>1. LifecycleInv => TypeOK
  BY DEF LifecycleInv
<1>2. QED
  BY <1>1, LifecycleInvariant, PTL

\* Semaphore 0 lets one program at a time into the constructor (myFIFO.cpp:37), also
\* when programs are killed in it.
THEOREM InitIsGuarded == ~Overlap => (Spec => []InitGuarded)
<1>1. LifecycleInv => InitGuarded
  BY DEF LifecycleInv
<1>2. QED
  BY <1>1, LifecycleInvariant, PTL

\* The programs that use the FIFO at a time use the same one, the one that the keys
\* lead to: the destructors of other programs never remove it under them.
THEOREM OneFifo == ~Overlap => (Spec => []SameFifo)
<1>1. ASSUME LifecycleInv, NEW p \in Proc, Using(p)
      PROVE  /\ dataid[p] = datakey
             /\ Its(p).fifoid = fifokey
             /\ p \in mapped[fifokey]
  <2>1. pc[p] = "in" /\ valid[p]
    BY <1>1 DEF Using
  <2>2. dataid[p] = datakey /\ datakey \in Ids
    BY <1>1, <2>1 DEF LifecycleInv, DataKept, Holding, Linked, TypeOK
  <2>3. p \in mapped[data[datakey].fifoid]
    BY <1>1, <2>1 DEF LifecycleInv, Words, Present
  <2>4. data[datakey].fifoid \in Ids
    BY <1>1, <2>1, <2>2 DEF LifecycleInv, Contents, Linked, Record
  <2>5. data[datakey].fifoid = fifokey
    BY <1>1, <2>3, <2>4 DEF LifecycleInv, Words
  <2>6. QED
    BY <2>2, <2>3, <2>5 DEF Its
<1>2. LifecycleInv => SameFifo
  BY <1>1 DEF SameFifo
<1>3. QED
  BY <1>2, LifecycleInvariant, PTL

\* A presence flag is set only while a program of that type is there, unless a program
\* was killed: nobody is refused, and no data writer waits, because of a program that
\* ended in order.
THEOREM FlagsAreOwned == ~Overlap => (Spec => []FlagsHaveOwners)
<1>1. LifecycleInv => FlagsHaveOwners
  BY DEF LifecycleInv, Owned, FlagsHaveOwners, Present
<1>2. QED
  BY <1>1, LifecycleInvariant, PTL

\* The last program of a run removes the data and the semaphores, unless one was
\* refused or killed.
THEOREM NothingIsLeft == ~Overlap => (Spec => []LeavesNothing)
<1>1. LifecycleInv => LeavesNothing
  BY DEF LifecycleInv, Clean, LeavesNothing
<1>2. QED
  BY <1>1, LifecycleInvariant, PTL

-------------------------------------------------------------------------------
(***************************************************************************)
(* One writer and one reader at a time.  The flag of a type is set from    *)
(* the moment a program of that type may use the FIFO, and is not when one *)
(* has passed the check; the programs this is said of are all writers and, *)
(* until a program is refused, all readers.                                *)
(***************************************************************************)
Admitted(p) == pc[p] \in Present /\ valid[p]
Entering(p) == pc[p] \in {"map", "mark"}
FlagOf(p)   == IF p \in Writers THEN data[datakey].writer ELSE data[datakey].reader
Peers(p, q) == {p, q} \subseteq Writers \/ {p, q} \subseteq Readers
Counted     == Writers \union {p \in Readers : "refused" \notin mishaps}

Alone == \A p \in Counted : /\ Admitted(p) => FlagOf(p) = "PRESENT"
                            /\ Entering(p) => FlagOf(p) = "MISSING"
                            /\ \A q \in Counted : Admitted(p) /\ Admitted(q) /\ Peers(p, q)
                                                  => p = q

\* A program whose constructor failed without a refusal found that the words of its
\* data were removed, so that nobody uses the FIFO whose flag it will clear.
Lost == "refused" \notin mishaps =>
          \A p \in Proc : pc[p] \in Present /\ ~valid[p] => data[datakey].fifoid # fifokey

AloneInv == LifecycleInv /\ Alone /\ Lost
\* A program that is admitted, or entering, is attached to the data.
LEMMA AttachedPlaces ==
  ASSUME LifecycleInv, NEW p \in Proc, pc[p] \in Present \/ Entering(p)
  PROVE  /\ datakey \in Ids
         /\ dataid[p] = datakey
         /\ data[datakey] \in Record
         /\ data[datakey].initialized
         /\ data[datakey].fifoid \in Ids
<1>1. pc[p] \in Linked
  BY DEF Entering, Present, Linked
<1>2. datakey \in Ids /\ dataid[p] = datakey
  BY <1>1 DEF LifecycleInv, DataKept, Holding, TypeOK
<1>3. data[datakey] \in Record /\ data[datakey].initialized
  BY <1>1, <1>2 DEF LifecycleInv, Contents
<1>4. data[datakey].fifoid \in Ids
  BY <1>2, <1>3 DEF LifecycleInv, Contents, Record
<1>5. QED
  BY <1>2, <1>3, <1>4

\* Steps that admit nobody, let nobody pass the check and change no flag.
LEMMA AloneKept ==
  ASSUME Alone, mishaps \subseteq mishaps',
         \A q \in Proc : /\ Admitted(q)' => Admitted(q)
                         /\ Entering(q)' => Entering(q)
                         /\ Admitted(q)' \/ Entering(q)' => FlagOf(q)' = FlagOf(q)
  PROVE  Alone'
<1>1. Counted' \subseteq Counted
  BY DEF Counted
<1>2. Counted \subseteq Proc
  BY DEF Counted, Proc
<1>3. ASSUME NEW p \in Counted'
      PROVE  /\ Admitted(p)' => FlagOf(p)' = "PRESENT"
             /\ Entering(p)' => FlagOf(p)' = "MISSING"
             /\ \A q \in Counted' : Admitted(p)' /\ Admitted(q)' /\ Peers(p, q) => p = q
  BY <1>1, <1>2, <1>3 DEF Alone
<1>4. QED
  BY <1>3 DEF Alone, Peers

\* Steps after which nobody else's constructor has failed, and the words are the same.
LEMMA LostKept ==
  ASSUME Lost, mishaps \subseteq mishaps', fifokey' = fifokey,
         \A q \in Proc : pc'[q] \in Present /\ ~valid'[q]
                           => /\ pc[q] \in Present /\ ~valid[q]
                              /\ data'[datakey'].fifoid = data[datakey].fifoid
  PROVE  Lost'
  BY DEF Lost

\* A run starts with nobody admitted.
LEMMA InitAlone == Init => Alone /\ Lost
<1> SUFFICES ASSUME Init PROVE Alone /\ Lost
  OBVIOUS
<1>1. \A p \in Proc : pc[p] = "out"
  BY DEF Init
<1>2. QED
  BY <1>1 DEF Alone, Lost, Counted, Proc, Admitted, Entering, Present

\* Steps of the constructor before the check, and the end of the destructor: the places
\* at which flags matter are left or not reached.
LEMMA QuietStep ==
  ASSUME LifecycleInv, Alone, Lost, NEW p \in Proc, fifokey' = fifokey,
         mishaps \subseteq mishaps',
         \A q \in Proc : q # p => pc'[q] = pc[q] /\ valid'[q] = valid[q],
         pc'[p] \notin Present \union {"map", "mark"},
         \A q \in Proc : q # p /\ (pc[q] \in Present \/ Entering(q))
                           => /\ datakey' = datakey
                              /\ data'[datakey] = data[datakey]
  PROVE  Alone' /\ Lost'
<1>1. \A q \in Proc : /\ Admitted(q)' => Admitted(q) /\ q # p
                      /\ Entering(q)' => Entering(q) /\ q # p
  BY DEF Admitted, Entering
<1>2. \A q \in Proc : Admitted(q)' \/ Entering(q)' => FlagOf(q)' = FlagOf(q)
  BY <1>1 DEF FlagOf, Admitted
<1>3. Alone'
  BY <1>1, <1>2, AloneKept
<1>4. \A q \in Proc : pc'[q] \in Present /\ ~valid'[q]
                        => /\ pc[q] \in Present /\ ~valid[q]
                           /\ data'[datakey'].fifoid = data[datakey].fifoid
  OBVIOUS
<1>5. QED
  BY <1>3, <1>4, LostKept

\* The end of a process changes no data that others are attached to.
LEMMA ExitKeeps ==
  ASSUME LifecycleInv, NEW p \in Proc, Exit(p), datakey' = datakey, datakey \in Ids
  PROVE  data'[datakey] = data[datakey]
  BY DEF Exit

\* The steps of the constructor up to the check.
LEMMA BeginsAlone ==
  ASSUME LifecycleInv, Alone, Lost, NEW p \in Proc,
         GetSem(p) \/ EnterSem(p) \/ GetData(p) \/ AttachData(p)
  PROVE  Alone' /\ Lost'
<1> USE DEF LifecycleInv
<1>1. /\ pc' \in {[pc EXCEPT ![p] = "enter"], [pc EXCEPT ![p] = "shmget"],
                  [pc EXCEPT ![p] = "shmat"], [pc EXCEPT ![p] = "init"]}
      /\ valid' = valid /\ mishaps' = mishaps /\ fifokey' = fifokey
  BY DEF GetSem, EnterSem, GetData, AttachData, Goto, DataKept, local
<1>2. /\ \A q \in Proc : q # p => pc'[q] = pc[q] /\ valid'[q] = valid[q]
      /\ pc'[p] \notin Present \union {"map", "mark"}
  BY <1>1 DEF TypeOK, Present
<1>3. ASSUME datakey # 0 PROVE datakey' = datakey /\ data' = data
  BY <1>3 DEF GetSem, EnterSem, GetData, AttachData
<1>4. ASSUME NEW q \in Proc, pc[q] \in Present \/ Entering(q)
      PROVE  datakey' = datakey /\ data'[datakey] = data[datakey]
  BY <1>3, <1>4, AttachedPlaces, IdsType
<1>5. QED
  BY <1>1, <1>2, <1>4, QuietStep

\* Data are initialised when nobody uses them.
LEMMA InitDataAlone ==
  ASSUME LifecycleInv, Alone, Lost, NEW p \in Proc, InitData(p)
  PROVE  Alone' /\ Lost'
<1> USE DEF LifecycleInv
<1>1. /\ pc[p] = "init" /\ pc' = [pc EXCEPT ![p] = "check"]
      /\ valid' = valid /\ mishaps' = mishaps /\ datakey' = datakey
      /\ dataid[p] = datakey
  BY DEF InitData, Goto, DataKept, Holding, local
<1>2. /\ \A q \in Proc : q # p => pc'[q] = pc[q] /\ valid'[q] = valid[q]
      /\ pc'[p] \notin Present \union {"map", "mark"}
  BY <1>1 DEF TypeOK, Present
<1>3. CASE data[datakey].initialized
  <2>1. UNCHANGED <<data, fifokey>>
    BY <1>1, <1>3 DEF InitData, Its
  <2>2. QED
    BY <1>1, <1>2, <2>1, QuietStep
<1>4. CASE ~data[datakey].initialized
  <2>1. \A q \in Proc : ~(pc[q] \in Present \/ Entering(q))
    BY <1>4, AttachedPlaces
  <2>2. \A q \in Proc : ~(pc'[q] \in Present \/ Entering(q)')
    BY <1>2, <2>1 DEF Entering
  <2>3. QED
    BY <2>2 DEF Alone, Lost, Counted, Proc, Admitted, Entering
<1>5. QED
  BY <1>3, <1>4

\* Who passes the check found the flag of its type down; who does not is refused.
LEMMA CheckPresentAlone ==
  ASSUME LifecycleInv, Alone, Lost, NEW p \in Proc, CheckPresent(p)
  PROVE  Alone' /\ Lost'
<1> USE DEF LifecycleInv
<1>1. /\ pc[p] = "check" /\ dataid[p] = datakey /\ datakey \in Ids
      /\ data' = data /\ datakey' = datakey /\ fifokey' = fifokey
      /\ mishaps \subseteq mishaps'
  BY DEF CheckPresent, Goto, DataKept, Holding, Linked, TypeOK, kernel
<1>2. data[datakey] \in Record
  BY <1>1
<1>3. \A q \in Proc : FlagOf(q)' = FlagOf(q)
  BY <1>1 DEF FlagOf
<1>4. CASE Refused(p)
  <2>1. /\ pc' = [pc EXCEPT ![p] = "leave"]
        /\ valid' = [valid EXCEPT ![p] = FALSE]
        /\ "refused" \in mishaps'
    BY <1>4 DEF CheckPresent, Goto
  <2>2. ~valid'[p] /\ \A q \in Proc : q # p => valid'[q] = valid[q]
    BY <2>1 DEF TypeOK
  <2>3. \A q \in Proc : (Admitted(q)' => Admitted(q)) /\ (Entering(q)' => Entering(q))
    BY <2>1, <2>2 DEF TypeOK, Admitted, Entering
  <2>4. Alone'
    BY <1>1, <1>3, <2>3, AloneKept
  <2>5. QED
    BY <2>1, <2>4 DEF Lost
<1>5. CASE ~Refused(p)
  <2>1. pc' = [pc EXCEPT ![p] = "map"] /\ valid' = valid /\ mishaps' = mishaps
    BY <1>5 DEF CheckPresent, Goto
  <2>2. p \in Counted => FlagOf(p) = "MISSING"
    BY <1>1, <1>2, <1>5 DEF Refused, Its, Counted, FlagOf, Record
  <2>3. Counted' = Counted /\ Counted \subseteq Proc
    BY <2>1 DEF Counted, Proc
  <2>4. \A q \in Proc : /\ Admitted(q)' => Admitted(q)
                        /\ Entering(q)' => Entering(q) \/ q = p
                        /\ Admitted(p)' = FALSE
    BY <2>1 DEF TypeOK, Admitted, Entering, Present
  <2>5. Alone'
    BY <1>3, <2>2, <2>3, <2>4 DEF Alone, Peers
  <2>6. Lost'
    <3>1. \A q \in Proc : pc'[q] \in Present => pc[q] \in Present
      BY <2>1 DEF TypeOK, Present
    <3>2. QED
      BY <1>1, <2>1, <3>1, LostKept
  <2>7. QED
    BY <2>5, <2>6
<1>6. QED
  BY <1>4, <1>5

\* shmat of the words fails only if nobody is attached to them.
LEMMA MapFifoAlone ==
  ASSUME LifecycleInv, Alone, Lost, NEW p \in Proc, MapFifo(p)
  PROVE  Alone' /\ Lost'
<1> USE DEF LifecycleInv
<1>1. /\ pc[p] = "map" /\ dataid[p] = datakey /\ datakey \in Ids
      /\ data[datakey] \in Record
      /\ datakey' = datakey /\ fifokey' = fifokey /\ mishaps' = mishaps
  BY AttachedPlaces DEF MapFifo, Entering
<1>2. CASE data[datakey].fifoid = fifokey \/ mapped[data[datakey].fifoid] # {}
  <2>1. /\ pc' = [pc EXCEPT ![p] = "mark"] /\ valid' = valid
        /\ Change(p, [Its(p) EXCEPT !.start[Start(p, Its(p).nsampler)] = {p}])
    BY <1>1, <1>2 DEF MapFifo, Goto, Its
  <2> DEFINE d == data[datakey]
             new == [d EXCEPT !.start[Start(p, d.nsampler)] = {p}]
  <2>2. new.reader = d.reader /\ new.writer = d.writer /\ new.fifoid = d.fifoid
    BY <1>1 DEF Record
  <2>3. data' = [data EXCEPT ![datakey] = new]
    BY <1>1, <2>1 DEF Change, Its
  <2> HIDE DEF new
  <2>4. data'[datakey] = new
    BY <1>1, <2>3
  <2>5. \A q \in Proc : FlagOf(q)' = FlagOf(q)
    BY <1>1, <2>2, <2>4 DEF FlagOf
  <2>6. \A q \in Proc : (Admitted(q)' => Admitted(q)) /\ (Entering(q)' => Entering(q))
    BY <1>1, <2>1 DEF TypeOK, Admitted, Entering, Present
  <2>7. \A q \in Proc : pc'[q] \in Present => pc[q] \in Present
    BY <2>1 DEF TypeOK, Present
  <2>8. Alone'
    BY <1>1, <2>5, <2>6, AloneKept
  <2>9. Lost'
    BY <1>1, <2>1, <2>2, <2>4, <2>7, LostKept
  <2>10. QED
    BY <2>8, <2>9
<1>3. CASE data[datakey].fifoid # fifokey /\ mapped[data[datakey].fifoid] = {}
  <2>1. /\ pc' = [pc EXCEPT ![p] = "leave"] /\ valid' = [valid EXCEPT ![p] = FALSE]
        /\ Change(p, [Its(p) EXCEPT !.start[Start(p, Its(p).nsampler)] = {}])
    BY <1>1, <1>3 DEF MapFifo, Goto, Its
  <2> DEFINE d == data[datakey]
             new == [d EXCEPT !.start[Start(p, d.nsampler)] = {}]
  <2>2. new.reader = d.reader /\ new.writer = d.writer /\ new.fifoid = d.fifoid
    BY <1>1 DEF Record
  <2>3. data' = [data EXCEPT ![datakey] = new]
    BY <1>1, <2>1 DEF Change, Its
  <2> HIDE DEF new
  <2>4. data'[datakey] = new
    BY <1>1, <2>3
  <2>5. ~valid'[p] /\ \A q \in Proc : q # p => valid'[q] = valid[q]
    BY <2>1 DEF TypeOK
  <2>6. \A q \in Proc : (Admitted(q)' => Admitted(q)) /\ (Entering(q)' => Entering(q))
    BY <2>1, <2>5 DEF TypeOK, Admitted, Entering
  <2>7. \A q \in Proc : FlagOf(q)' = FlagOf(q)
    BY <1>1, <2>2, <2>4 DEF FlagOf
  <2>8. Alone'
    BY <1>1, <2>6, <2>7, AloneKept
  <2>9. data'[datakey'].fifoid # fifokey'
    BY <1>1, <1>3, <2>2, <2>4
  <2>10. QED
    BY <2>8, <2>9 DEF Lost
<1>4. QED
  BY <1>2, <1>3

\* The program that raises its flag found it down, so that no other one is admitted.
LEMMA MarkPresentAlone ==
  ASSUME LifecycleInv, Alone, Lost, NEW p \in Proc, MarkPresent(p)
  PROVE  Alone' /\ Lost'
<1> USE DEF LifecycleInv
<1>1. /\ pc[p] = "mark" /\ pc' = [pc EXCEPT ![p] = "leave"]
      /\ dataid[p] = datakey /\ datakey \in Ids /\ data[datakey] \in Record
      /\ datakey' = datakey /\ fifokey' = fifokey /\ mishaps' = mishaps /\ valid' = valid
  BY AttachedPlaces DEF MarkPresent, Goto, Entering, kernel
<1>2. valid[p]
  BY <1>1 DEF Words, Present, Leaving
<1> DEFINE d == data[datakey]
<1>3. /\ data'[datakey].fifoid = d.fifoid
      /\ data'[datakey].reader = IF p \in Readers THEN "PRESENT" ELSE d.reader
      /\ data'[datakey].writer = IF p \in Writers THEN "PRESENT" ELSE d.writer
  <2>1. \/ p \in Readers /\ data' = [data EXCEPT ![datakey] = [d EXCEPT !.reader = "PRESENT"]]
        \/ p \in Writers /\ data' = [data EXCEPT ![datakey] = [d EXCEPT !.writer = "PRESENT"]]
        \/ /\ p \in Samplers
           /\ data' = [data EXCEPT ![datakey] = [d EXCEPT !.nsampler = @ + 1]]
    BY <1>1 DEF MarkPresent, Change, Its
  <2>2. QED
    BY <1>1, <2>1, LifecycleAssumption DEF Record
<1>4. ASSUME NEW q \in Proc
      PROVE  /\ Admitted(q)' => Admitted(q) \/ q = p
             /\ Entering(q)' => Entering(q) /\ q # p
             /\ q # p => valid'[q] = valid[q] /\ pc'[q] = pc[q]
  BY <1>1 DEF TypeOK, Admitted, Entering, Present
<1>5. ASSUME NEW q \in Proc, Entering(q) PROVE q = p
  BY <1>1, <1>5 DEF InitGuarded, Entering, Starting
<1>6. Counted' = Counted /\ Counted \subseteq Proc
  BY <1>1 DEF Counted, Proc
<1>7. p \in Counted => FlagOf(p) = "MISSING" /\ FlagOf(p)' = "PRESENT"
  BY <1>1, <1>3 DEF Alone, Entering, FlagOf, Counted
<1>8. ASSUME NEW q \in Counted, Admitted(q) PROVE FlagOf(q)' = "PRESENT"
  BY <1>1, <1>3, <1>8, LifecycleAssumption DEF Alone, FlagOf
<1>9. ASSUME NEW q \in Counted, Admitted(q), p \in Counted PROVE ~Peers(p, q) /\ ~Peers(q, p)
  BY <1>7, <1>9, LifecycleAssumption DEF Alone, Peers, FlagOf
<1>10. Alone'
  BY <1>4, <1>5, <1>6, <1>7, <1>8, <1>9 DEF Alone, Peers
<1>11. Lost'
  <2>1. \A q \in Proc : pc'[q] \in Present /\ ~valid'[q] => pc[q] \in Present /\ ~valid[q]
    BY <1>1, <1>2, <1>4
  <2>2. QED
    BY <1>1, <1>3, <2>1, LostKept
<1>12. QED
  BY <1>10, <1>11

\* A program that clears the flag of its type is the one that was admitted, unless one
\* was refused; one whose constructor failed otherwise finds nobody admitted.
LEMMA UnmarkAlone ==
  ASSUME LifecycleInv, Alone, Lost, ~Overlap, NEW p \in Proc, Unmark(p)
  PROVE  Alone' /\ Lost'
<1> USE DEF LifecycleInv
<1>1. /\ pc[p] = "in" /\ pc' = [pc EXCEPT ![p] = "stat_fifo"]
      /\ \A q \in Proc : pc[q] \notin Starting
      /\ p \in Writers => valid[p]
      /\ dataid[p] = datakey /\ datakey \in Ids /\ data[datakey] \in Record
      /\ datakey' = datakey /\ fifokey' = fifokey /\ mishaps' = mishaps /\ valid' = valid
      /\ data' = [data EXCEPT ![datakey] = Cleared(p)]
  BY AttachedPlaces DEF Unmark, Goto, Present, local, Change
<1> DEFINE d == data[datakey]
<1>2. /\ data'[datakey].fifoid = d.fifoid
      /\ p \notin Readers => data'[datakey].reader = d.reader
      /\ p \notin Writers => data'[datakey].writer = d.writer
  BY <1>1, LifecycleAssumption DEF Cleared, Its, Record
<1>3. ASSUME NEW q \in Proc
      PROVE  /\ Admitted(q)' => Admitted(q) /\ q # p
             /\ ~Entering(q)'
             /\ pc'[q] \in Present => pc[q] \in Present
  BY <1>1 DEF TypeOK, Admitted, Entering, Present, Starting
<1>4. ASSUME NEW q \in Counted, Admitted(q), q # p, Peers(q, p) PROVE FALSE
  <2>1. p \in Counted
    BY <1>4, LifecycleAssumption DEF Counted, Peers
  <2>2. ~valid[p]
    BY <1>1, <1>4, <2>1 DEF Alone, Admitted, Present, Peers
  <2>3. "refused" \notin mishaps
    BY <1>1, <2>1, <2>2 DEF Counted
  <2>4. d.fifoid # fifokey
    BY <1>1, <2>2, <2>3 DEF Lost, Present
  <2>5. q \in mapped[d.fifoid]
    BY <1>4 DEF Words, Admitted, Counted, Proc
  <2>6. d.fifoid \in Ids
    BY <1>1, AttachedPlaces DEF Present
  <2>7. QED
    BY <2>4, <2>5, <2>6 DEF Words
<1>5. Counted' = Counted /\ Counted \subseteq Proc
  BY <1>1 DEF Counted, Proc
<1>6. ASSUME NEW q \in Counted, Admitted(q), q # p PROVE FlagOf(q)' = FlagOf(q)
  <2>1. ~Peers(q, p)
    BY <1>4, <1>6
  <2>2. q \in Writers => p \notin Writers
    BY <2>1 DEF Peers
  <2>3. q \notin Writers => p \notin Readers
    BY <2>1 DEF Peers, Counted
  <2>4. QED
    BY <1>1, <1>2, <2>2, <2>3 DEF FlagOf
<1>7. Alone'
  BY <1>3, <1>5, <1>6 DEF Alone, Peers
<1>8. Lost'
  BY <1>1, <1>2, <1>3, LostKept
<1>9. QED
  BY <1>7, <1>8

\* The end of the constructor and the steps of the destructor after the flag.
LEMMA EndsAlone ==
  ASSUME LifecycleInv, Alone, Lost, NEW p \in Proc,
         LeaveSem(p) \/ StatFifo(p) \/ RemoveFifo(p) \/ DetachData(p)
  PROVE  Alone' /\ Lost'
<1> USE DEF LifecycleInv
<1>1. /\ \/ pc[p] = "leave" /\ pc' = [pc EXCEPT ![p] = "in"]
         \/ pc[p] = "stat_fifo" /\ pc' = [pc EXCEPT ![p] = "rm_fifo"]
         \/ pc[p] \in {"stat_fifo", "rm_fifo"} /\ pc' = [pc EXCEPT ![p] = "detach"]
         \/ pc[p] = "detach" /\ pc' = [pc EXCEPT ![p] = "stat_data"]
      /\ valid' = valid /\ mishaps' = mishaps /\ data' = data /\ datakey' = datakey
  BY DEF LeaveSem, StatFifo, RemoveFifo, DetachData, Goto, kernel, local
<1>2. \A q \in Proc : /\ pc'[q] \in Present => pc[q] \in Present
                      /\ Entering(q)' => Entering(q)
                      /\ FlagOf(q)' = FlagOf(q)
  BY <1>1 DEF TypeOK, Present, Entering, FlagOf
<1>3. Alone'
  BY <1>1, <1>2, AloneKept DEF Admitted
<1>4. CASE RemoveFifo(p)
  <2>1. dataid[p] = datakey /\ data[datakey].fifoid # 0
    BY <1>4 DEF RemoveFifo, Goto, DataKept, Contents, Holding, Linked
  <2>2. fifokey' = IF fifokey = data[datakey].fifoid THEN 0 ELSE fifokey
    BY <1>4, <2>1 DEF RemoveFifo, Its
  <2>3. QED
    BY <1>1, <1>2, <1>3, <2>1, <2>2 DEF Lost
<1>5. CASE ~RemoveFifo(p)
  <2>1. fifokey' = fifokey
    BY <1>5 DEF LeaveSem, StatFifo, DetachData, kernel
  <2>2. QED
    BY <1>1, <1>2, <1>3, <2>1, LostKept
<1>6. QED
  BY <1>4, <1>5

\* A program that ends, and the one that removes the data, which nobody is attached to.
LEMMA GoneAlone ==
  ASSUME LifecycleInv, Alone, Lost, NEW p \in Proc,
         StatData(p) \/ RemoveData(p) \/ RemoveSem(p) \/ Die(p)
  PROVE  Alone' /\ Lost'
<1> USE DEF LifecycleInv
<1>1. CASE RemoveData(p)
  <2>1. /\ pc[p] = "rm_data" /\ pc' = [pc EXCEPT ![p] = "rm_sem"]
        /\ valid' = valid /\ mishaps' = mishaps /\ fifokey' = fifokey
    BY <1>1 DEF RemoveData, Goto, local
  <2>2. \A q \in Proc : ~(pc[q] \in Present \/ Entering(q))
    BY <2>1 DEF DataKept, Present, Entering, Holding, Linked
  <2>3. /\ \A q \in Proc : q # p => pc'[q] = pc[q] /\ valid'[q] = valid[q]
        /\ pc'[p] \notin Present \union {"map", "mark"}
    BY <2>1 DEF TypeOK, Present
  <2>4. QED
    BY <2>1, <2>2, <2>3, QuietStep
<1>2. CASE StatData(p) /\ attached[dataid[p]] = {}
  <2>1. /\ pc' = [pc EXCEPT ![p] = "rm_data"]
        /\ UNCHANGED <<valid, mishaps, fifokey, data, datakey>>
    BY <1>2 DEF StatData, Goto, kernel, local
  <2>2. /\ \A q \in Proc : q # p => pc'[q] = pc[q] /\ valid'[q] = valid[q]
        /\ pc'[p] \notin Present \union {"map", "mark"}
    BY <2>1 DEF TypeOK, Present
  <2>3. QED
    BY <2>1, <2>2, QuietStep
<1>3. CASE Exit(p) /\ UNCHANGED <<datakey, fifokey>> /\ mishaps \subseteq mishaps'
  <2>1. /\ \A q \in Proc : q # p => pc'[q] = pc[q]
        /\ pc'[p] \notin Present \union {"map", "mark"}
    BY <1>3 DEF Exit, TypeOK, Present
  <2>2. \A q \in Proc : q # p => valid'[q] = valid[q]
    BY <1>3 DEF Exit, TypeOK
  <2>3. ASSUME NEW q \in Proc, pc[q] \in Present \/ Entering(q)
        PROVE  data'[datakey] = data[datakey]
    BY <1>3, <2>3, AttachedPlaces, ExitKeeps
  <2>4. QED
    BY <1>3, <2>1, <2>2, <2>3, QuietStep
<1>4. QED
  BY <1>1, <1>2, <1>3 DEF StatData, RemoveSem, Die

\* Every step keeps them.
LEMMA NextAlone ==
  ASSUME LifecycleInv, Alone, Lost, ~Overlap, [Next]_vars
  PROVE  Alone' /\ Lost'
<1>1. ASSUME NEW p \in Proc, Constructor(p) PROVE Alone' /\ Lost'
  BY <1>1, BeginsAlone, InitDataAlone, CheckPresentAlone, MapFifoAlone, MarkPresentAlone,
     EndsAlone DEF Constructor
<1>2. ASSUME NEW p \in Proc, Destructor(p) PROVE Alone' /\ Lost'
  BY <1>2, UnmarkAlone, EndsAlone, GoneAlone DEF Destructor
<1>3. CASE UNCHANGED vars
  BY <1>3 DEF vars, kernel, local, Alone, Lost, Counted, Admitted, Entering, FlagOf
<1>4. QED
  BY <1>1, <1>2, <1>3, GoneAlone DEF Next

\* At most one readout uses the FIFO, whoever is refused or killed and whenever; and at
\* most one data writer, until a program is refused (the flags that the constructor
\* checks at myFIFO.cpp:119-140 and the destructor clears at 203-212).
THEOREM OneOfEachType == ~Overlap => (Spec => []OneOfEach)
<1> SUFFICES ASSUME ~Overlap PROVE Spec => []OneOfEach
  OBVIOUS
<1>1. Init => AloneInv
  BY InitInv, InitAlone DEF AloneInv
<1>2. AloneInv /\ [Next]_vars => AloneInv'
  BY NextInv, NextAlone DEF AloneInv
<1>3. ASSUME Alone PROVE OneOfEach
  <2>1. \A p \in Proc : Using(p) => Admitted(p)
    BY DEF Using, Admitted, Present
  <2>2. \A p, q \in Writers : Using(p) /\ Using(q) => p = q
    BY <1>3, <2>1 DEF Alone, Counted, Peers, Proc
  <2>3. "refused" \notin mishaps => OneReader
    BY <1>3, <2>1 DEF Alone, Counted, Peers, Proc, OneReader
  <2>4. QED
    BY <2>2, <2>3 DEF OneOfEach
<1>4. AloneInv => OneOfEach
  BY <1>3 DEF AloneInv
<1>5. QED
  BY <1>1, <1>2, <1>4, PTL DEF Spec
===============================================================================
