-------------------------- MODULE TriggerControlProofs --------------------------
(***************************************************************************)
(* Proofs about TriggerControl, for every ratio of pedestals to beam       *)
(* events, quota, size of the modules' counters, and amount of noise.      *)
(***************************************************************************)
EXTENDS TriggerControl, TLAPS

\* The quota of pedestals is a number.
LEMMA QuotaNat == maxpedevts \in Nat
<1> DEFINE n == maxevts * RatioPed
           d == RatioBeam
<1>1. n \in Nat /\ d \in Nat \ {0}
  BY TriggerAssumption, SMT
<1> HIDE DEF n, d
<1>2. n \div d \in Nat
  BY <1>1, SMT
<1>3. lrint(n, d) \in Nat
  BY <1>1, <1>2, SMT DEF lrint
<1> QED
  BY <1>3 DEF maxpedevts, n, d

\* The quota does not change.
LEMMA QuotaSame == maxpedevts' = maxpedevts
BY DEF maxpedevts, lrint

\* At the start pedestals are due; a beam event keeps them due; the pedestal before
\* one that is due was due.
LEMMA DueFacts ==
  /\ Due(0, 0) /\ Due(0, -1)
  /\ \A e \in Nat, p \in Int : Due(e, p) => Due(e + 1, p)
  /\ \A e \in Nat, p \in Int : Due(e, p) => Due(e, (p + 1) - 1)
<1>1. Due(0, 0) /\ Due(0, -1)
  BY TriggerAssumption, SMT DEF Due
<1>2. ASSUME NEW e \in Nat, NEW p \in Int, Due(e, p)
      PROVE  Due(e + 1, p)
  <2>1. RatioPed * (e + 1) = RatioPed * e + RatioPed
    BY TriggerAssumption, SMT
  <2>2. RatioPed * e \in Int /\ RatioBeam * p \in Int
    BY TriggerAssumption, SMT
  <2> QED
    BY <1>2, <2>1, <2>2, TriggerAssumption, SMT DEF Due
<1>3. ASSUME NEW e \in Nat, NEW p \in Int, Due(e, p)
      PROVE  Due(e, (p + 1) - 1)
  <2>1. (p + 1) - 1 = p
    BY SMT
  <2> QED
    BY <1>3, <2>1
<1> QED
  BY <1>1, <1>2, <1>3

\* A counter that wraps shows its true value if that is small, and cannot hide a gap
\* smaller than its size.
LEMMA CounterShows ==
  ASSUME NEW a \in Nat, NEW b \in Nat
  PROVE  /\ a = b /\ b < CounterSize => a % CounterSize = b
         /\ b < a /\ a - b < CounterSize => a % CounterSize # b
<1>1. CounterSize \in Nat \ {0}
  BY TriggerAssumption
<1>2. a = b /\ b < CounterSize => a % CounterSize = b
  BY <1>1, SMT
<1>3. ASSUME b < a, a - b < CounterSize, a % CounterSize = b
      PROVE  FALSE
  <2> DEFINE q == a \div CounterSize
  <2>1. q \in Int /\ a = CounterSize * q + b
    BY <1>1, <1>3, SMT
  <2> HIDE DEF q
  <2>2. CounterSize * q < CounterSize /\ CounterSize * q > 0
    BY <1>1, <1>3, <2>1, SMT
  <2>3. q <= 0 \/ q >= 1
    BY <2>1, SMT
  <2>4. q <= 0 => CounterSize * q <= 0
    BY <1>1, <2>1, SMT
  <2>5. q >= 1 => CounterSize * q >= CounterSize
    BY <1>1, <2>1, SMT
  <2> QED
    BY <1>1, <2>1, <2>2, <2>3, <2>4, <2>5, SMT
<1> QED
  BY <1>2, <1>3

\* The TDC is the first module to be read.
LEMMA ModuleFacts ==
  /\ NQdc \in Nat /\ Tdc = 0 /\ Tdc \in Modules
  /\ \A m \in Modules : m \in Nat /\ m <= NQdc
  /\ \A m \in Nat : m <= NQdc => m \in Modules
BY TriggerAssumption, SMT DEF Modules, Tdc

\* What OwnData says of one module.
Own(m) == \/ Extra(m) >= 1
          \/ /\ Extra(m) = 0 /\ m \notin mixed
             /\ ~abort_run \/ rpc = "read" => Current(m)

\* What the modules' data buffers are made of.
LEMMA SeqFacts ==
  /\ \A q \in Seq(Nat), n \in Nat : Append(q, n) # <<>>
  /\ \A n \in Nat : Append(<<>>, n) = <<n>> /\ Head(<<n>>) = n /\ Tail(<<n>>) = <<>>
<1>1. \A q \in Seq(Nat), n \in Nat : Append(q, n) # <<>>
  <2> SUFFICES ASSUME NEW q \in Seq(Nat), NEW n \in Nat
               PROVE  Append(q, n) # <<>>
    OBVIOUS
  <2>1. Len(Append(q, n)) = Len(q) + 1 /\ Len(q) \in Nat
    BY SMT
  <2>2. Len(<<>>) = 0
    BY SMT
  <2> QED
    BY <2>1, <2>2, SMT
<1> QED
  BY <1>1, SMT

-------------------------------------------------------------------------------
\* Triggers are vetoed at the start.
LEMMA SetVetoesKeeps ==
  ASSUME TriggerInv, SetVetoes
  PROVE  TriggerInv'
<1> USE DEF Pending, Skipped, SkippedMost, Places, Starting, Looking, Handling, Inputs, vars,
            logic, modules, world, counters, history, Goto, Unlocked
<1>1. TypeOK'
  BY DEF TriggerInv, TypeOK, SetVetoes
<1>2. NothingYet'
  BY DEF TriggerInv, NothingYet, SetVetoes
<1>3. Looked'
  BY DEF TriggerInv, Looked, SetVetoes
<1>4. LetIn'
  BY DEF TriggerInv, TypeOK, NothingYet, LetIn, SetVetoes
<1>5. OwnData'
  BY DEF TriggerInv, TypeOK, Looked, OwnData, Extra, Current, Holds, SetVetoes
<1>6. PedestalsLimited'
  BY DEF TriggerInv, PedestalsLimited, SetVetoes
<1>7. EveryGateAnswered'
  BY DEF TriggerInv, TypeOK, Looked, EveryGateAnswered, Extra, SetVetoes
<1>8. Compared'
  BY DEF TriggerInv, TypeOK, Compared, SetVetoes
<1>9. ThrownAway'
  BY DEF TriggerInv, ThrownAway, SetVetoes
<1>10. SlipsTold'
  BY DEF TriggerInv, TypeOK, SlipsTold, SetVetoes
<1> QED
  BY <1>1, <1>2, <1>3, <1>4, <1>5, <1>6, <1>7, <1>8, <1>9, <1>10 DEF TriggerInv

\* The reset leaves no gate and no data.
LEMMA myReadOutInitKeeps ==
  ASSUME TriggerInv, myReadOutInit
  PROVE  TriggerInv'
<1> USE DEF Pending, Skipped, SkippedMost, Places, Starting, Looking, Handling, Inputs, vars,
            logic, modules, world, counters, history, Goto, Unlocked
<1>1. TypeOK'
  BY DEF TriggerInv, TypeOK, myReadOutInit
<1>2. NothingYet'
  BY ModuleFacts DEF TriggerInv, TypeOK, NothingYet, Holds, myReadOutInit
<1>3. Looked'
  BY DEF TriggerInv, Looked, myReadOutInit
<1>4. LetIn'
  BY DEF TriggerInv, LetIn, myReadOutInit
<1>5. OwnData'
  BY DEF TriggerInv, TypeOK, Looked, OwnData, Extra, Current, Holds, myReadOutInit
<1>6. PedestalsLimited'
  BY DEF TriggerInv, PedestalsLimited, myReadOutInit
<1>7. EveryGateAnswered'
  BY DEF TriggerInv, TypeOK, Looked, EveryGateAnswered, Extra, myReadOutInit
<1>8. Compared'
  BY DEF TriggerInv, TypeOK, Compared, myReadOutInit
<1>9. ThrownAway'
  BY DEF TriggerInv, ThrownAway, myReadOutInit
<1>10. SlipsTold'
  BY DEF TriggerInv, NothingYet, SlipsTold, myReadOutInit
<1> QED
  BY <1>1, <1>2, <1>3, <1>4, <1>5, <1>6, <1>7, <1>8, <1>9, <1>10 DEF TriggerInv

\* Clearing the data loses none that belong to an event to come.
LEMMA myReadOutArmKeeps ==
  ASSUME TriggerInv, myReadOutArm
  PROVE  TriggerInv'
<1> USE DEF Pending, Skipped, SkippedMost, Places, Starting, Looking, Handling, Inputs, vars,
            logic, modules, world, counters, history, Goto, Unlocked
<1>1. TypeOK'
  BY DEF TriggerInv, TypeOK, myReadOutArm
<1>2. NothingYet'
  BY ModuleFacts DEF TriggerInv, TypeOK, NothingYet, Holds, myReadOutArm
<1>3. Looked'
  BY DEF TriggerInv, Looked, myReadOutArm
<1>4. LetIn'
  BY DEF TriggerInv, LetIn, myReadOutArm
<1>5. OwnData'
  BY DEF TriggerInv, TypeOK, Looked, OwnData, Extra, Current, Holds, myReadOutArm
<1>6. PedestalsLimited'
  BY DEF TriggerInv, PedestalsLimited, myReadOutArm
<1>7. EveryGateAnswered'
  BY DEF TriggerInv, TypeOK, Looked, EveryGateAnswered, Extra, myReadOutArm
<1>8. Compared'
  BY DEF TriggerInv, TypeOK, Compared, myReadOutArm
<1>9. ThrownAway'
  BY DEF TriggerInv, ThrownAway, myReadOutArm
<1>10. SlipsTold'
  BY DEF TriggerInv, TypeOK, SlipsTold, myReadOutArm
<1> QED
  BY <1>1, <1>2, <1>3, <1>4, <1>5, <1>6, <1>7, <1>8, <1>9, <1>10 DEF TriggerInv

\* The trigger logic is unlocked after the event was counted.
LEMMA unlockTriggerKeeps ==
  ASSUME TriggerInv, unlockTrigger
  PROVE  TriggerInv'
<1> USE DEF Pending, Skipped, SkippedMost, Places, Starting, Looking, Handling, Inputs, vars,
            logic, modules, world, counters, history, Goto, Unlocked
<1>1. TypeOK'
  BY DEF TriggerInv, TypeOK, unlockTrigger
<1>2. NothingYet'
  BY DEF TriggerInv, NothingYet, unlockTrigger
<1>3. Looked'
  BY DEF TriggerInv, Looked, unlockTrigger
<1>4. LetIn'
  BY DEF TriggerInv, LetIn, unlockTrigger
<1>5. OwnData'
  <2> SUFFICES ASSUME rpc' \notin Starting, NEW n \in Modules, n \notin slipped' \ {Tdc}
               PROVE  Own(n)'
    BY DEF OwnData, Own
  <2>1. rpc \notin Starting => Own(n)
    BY DEF TriggerInv, OwnData, Own, unlockTrigger
  <2>2. gates[n] \in Nat /\ trignr \in Nat /\ totevents \in Nat /\ noise \in Nat
    BY DEF TriggerInv, TypeOK
  <2> QED
    BY <2>1, <2>2, ModuleFacts
       DEF TriggerInv, NothingYet, Looked, Own, Extra, Current, Holds, unlockTrigger
<1>6. PedestalsLimited'
  BY DEF TriggerInv, PedestalsLimited, unlockTrigger
<1>7. EveryGateAnswered'
  <2>1. trignr \in Nat /\ totevents \in Nat /\ noise \in Nat
    BY DEF TriggerInv, TypeOK
  <2>2. ASSUME rpc' \notin Starting, NEW n \in Modules
        PROVE  (Extra(n) \in (IF n = Tdc THEN 0 ELSE -noise) .. noise)'
    <3>1. gates[n] \in Nat
      BY DEF TriggerInv, TypeOK
    <3>2. rpc \notin Starting => Extra(n) \in (IF n = Tdc THEN 0 ELSE -noise) .. noise
      BY DEF TriggerInv, EveryGateAnswered
    <3> QED
      BY <2>1, <2>2, <3>1, <3>2 DEF TriggerInv, NothingYet, Looked, Extra, unlockTrigger
  <2>3. rpc' \notin Starting => (0 <= Skipped /\ Skipped <= IF abort_run THEN 2 ELSE 0)'
    BY <2>1 DEF TriggerInv, NothingYet, EveryGateAnswered, ThrownAway, unlockTrigger
  <2> QED
    BY <2>2, <2>3 DEF EveryGateAnswered
<1>8. Compared'
  BY DEF TriggerInv, TypeOK, Compared, unlockTrigger
<1>9. ThrownAway'
  BY DEF TriggerInv, ThrownAway, TypeOK, NothingYet, unlockTrigger
<1>10. SlipsTold'
  BY DEF TriggerInv, TypeOK, SlipsTold, unlockTrigger
<1> QED
  BY <1>1, <1>2, <1>3, <1>4, <1>5, <1>6, <1>7, <1>8, <1>9, <1>10 DEF TriggerInv

\* Beam triggers are let in.
LEMMA FirstSpillKeeps ==
  ASSUME TriggerInv, FirstSpill
  PROVE  TriggerInv'
<1> USE DEF Pending, Skipped, SkippedMost, Places, Starting, Looking, Handling, Inputs, vars,
            logic, modules, world, counters, history, Goto, Unlocked
<1>1. TypeOK'
  BY DEF TriggerInv, TypeOK, FirstSpill
<1>2. NothingYet'
  BY DEF TriggerInv, NothingYet, FirstSpill
<1>3. Looked'
  BY DEF TriggerInv, TypeOK, NothingYet, Looked, FirstSpill
<1>4. LetIn'
  BY DEF TriggerInv, LetIn, FirstSpill
<1>5. OwnData'
  BY DEF TriggerInv, TypeOK, Looked, OwnData, Extra, Current, Holds, FirstSpill
<1>6. PedestalsLimited'
  BY DEF TriggerInv, PedestalsLimited, FirstSpill
<1>7. EveryGateAnswered'
  BY DEF TriggerInv, TypeOK, Looked, EveryGateAnswered, Extra, FirstSpill
<1>8. Compared'
  BY DEF TriggerInv, TypeOK, Compared, FirstSpill
<1>9. ThrownAway'
  BY DEF TriggerInv, ThrownAway, FirstSpill
<1>10. SlipsTold'
  BY DEF TriggerInv, TypeOK, SlipsTold, FirstSpill
<1> QED
  BY <1>1, <1>2, <1>3, <1>4, <1>5, <1>6, <1>7, <1>8, <1>9, <1>10 DEF TriggerInv

\* The readout learns that there are data.
LEMMA IsDataReadyKeeps ==
  ASSUME TriggerInv, IsDataReady
  PROVE  TriggerInv'
<1> USE DEF Pending, Skipped, SkippedMost, Places, Starting, Looking, Handling, Inputs, vars,
            logic, modules, world, counters, history, Goto, Unlocked
<1>1. TypeOK'
  BY DEF TriggerInv, TypeOK, IsDataReady
<1>2. NothingYet'
  BY DEF TriggerInv, NothingYet, IsDataReady
<1>3. Looked'
  BY DEF TriggerInv, Looked, IsDataReady
<1>4. LetIn'
  BY DEF TriggerInv, LetIn, IsDataReady
<1>5. OwnData'
  BY DEF TriggerInv, TypeOK, Looked, OwnData, Extra, Current, Holds, IsDataReady
<1>6. PedestalsLimited'
  BY DEF TriggerInv, PedestalsLimited, IsDataReady
<1>7. EveryGateAnswered'
  BY DEF TriggerInv, TypeOK, Looked, EveryGateAnswered, Extra, IsDataReady
<1>8. Compared'
  BY DEF TriggerInv, TypeOK, Compared, IsDataReady
<1>9. ThrownAway'
  BY DEF TriggerInv, ThrownAway, TypeOK, IsDataReady
<1>10. SlipsTold'
  BY DEF TriggerInv, TypeOK, SlipsTold, IsDataReady
<1> QED
  BY <1>1, <1>2, <1>3, <1>4, <1>5, <1>6, <1>7, <1>8, <1>9, <1>10 DEF TriggerInv

\* The readout learns that the beam input is up; it may count the trigger.
LEMMA ReadBeamKeeps ==
  ASSUME TriggerInv, ReadBeam
  PROVE  TriggerInv'
<1> USE DEF Pending, Skipped, SkippedMost, Places, Starting, Looking, Handling, Inputs, vars,
            logic, modules, world, counters, history, Goto, Unlocked
<1>1. TypeOK'
  BY DEF TriggerInv, TypeOK, ReadBeam
<1>2. NothingYet'
  BY DEF TriggerInv, NothingYet, ReadBeam
<1>3. Looked'
  BY DEF TriggerInv, Looked, ReadBeam
<1>4. LetIn'
  BY DEF TriggerInv, TypeOK, Looked, LetIn, ReadBeam
<1>5. OwnData'
  <2> SUFFICES ASSUME rpc' \notin Starting, NEW n \in Modules, n \notin slipped' \ {Tdc}
               PROVE  Own(n)'
    BY DEF OwnData, Own
  <2>1. Own(n)
    BY DEF TriggerInv, OwnData, Own, ReadBeam
  <2>2. gates[n] \in Nat /\ trignr \in Nat /\ at = Tdc
    BY DEF TriggerInv, TypeOK, ReadBeam
  <2>3. Extra(n)' = Extra(n)
    BY <2>2 DEF TriggerInv, Looked, Extra, ReadBeam
  <2>4. Current(n) => Current(n)'
    BY <2>2, ModuleFacts DEF Current, Holds, ReadBeam
  <2>5. UNCHANGED <<abort_run, mixed>> /\ rpc # "read" /\ (rpc' = "read" => ~abort_run)
    BY DEF ReadBeam
  <2> HIDE DEF Pending
  <2> QED
    BY <2>1, <2>3, <2>4, <2>5 DEF Own
<1>6. PedestalsLimited'
  BY DEF TriggerInv, PedestalsLimited, ReadBeam
<1>7. EveryGateAnswered'
  <2>1. trignr \in Nat /\ totevents \in Nat /\ noise \in Nat
    BY DEF TriggerInv, TypeOK
  <2>2. ASSUME rpc' \notin Starting, NEW n \in Modules
        PROVE  (Extra(n) \in (IF n = Tdc THEN 0 ELSE -noise) .. noise)'
    <3>1. gates[n] \in Nat
      BY DEF TriggerInv, TypeOK
    <3>2. rpc \notin Starting => Extra(n) \in (IF n = Tdc THEN 0 ELSE -noise) .. noise
      BY DEF TriggerInv, EveryGateAnswered
    <3> QED
      BY <2>1, <2>2, <3>1, <3>2 DEF TriggerInv, NothingYet, Looked, Extra, ReadBeam
  <2>3. rpc' \notin Starting => (0 <= Skipped /\ Skipped <= IF abort_run THEN 2 ELSE 0)'
    BY <2>1 DEF TriggerInv, NothingYet, EveryGateAnswered, ThrownAway, ReadBeam
  <2> QED
    BY <2>2, <2>3 DEF EveryGateAnswered
<1>8. Compared'
  BY DEF TriggerInv, TypeOK, Compared, ReadBeam
<1>9. ThrownAway'
  BY DEF TriggerInv, ThrownAway, TypeOK, ReadBeam
<1>10. SlipsTold'
  BY DEF TriggerInv, TypeOK, SlipsTold, ReadBeam
<1> QED
  BY <1>1, <1>2, <1>3, <1>4, <1>5, <1>6, <1>7, <1>8, <1>9, <1>10 DEF TriggerInv

\* The readout learns that the pedestal input is up.
LEMMA ReadPedKeeps ==
  ASSUME TriggerInv, ReadPed
  PROVE  TriggerInv'
<1> USE DEF Pending, Skipped, SkippedMost, Places, Starting, Looking, Handling, Inputs, vars,
            logic, modules, world, counters, history, Goto, Unlocked
<1>1. TypeOK'
  BY DEF TriggerInv, TypeOK, ReadPed
<1>2. NothingYet'
  BY DEF TriggerInv, NothingYet, ReadPed
<1>3. Looked'
  BY DEF TriggerInv, Looked, ReadPed
<1>4. LetIn'
  BY DEF TriggerInv, LetIn, ReadPed
<1>5. OwnData'
  BY DEF TriggerInv, TypeOK, Looked, OwnData, Extra, Current, Holds, ReadPed
<1>6. PedestalsLimited'
  BY DEF TriggerInv, PedestalsLimited, ReadPed
<1>7. EveryGateAnswered'
  BY DEF TriggerInv, TypeOK, Looked, EveryGateAnswered, Extra, ReadPed
<1>8. Compared'
  BY DEF TriggerInv, TypeOK, Compared, ReadPed
<1>9. ThrownAway'
  BY DEF TriggerInv, ThrownAway, TypeOK, ReadPed
<1>10. SlipsTold'
  BY DEF TriggerInv, TypeOK, SlipsTold, ReadPed
<1> QED
  BY <1>1, <1>2, <1>3, <1>4, <1>5, <1>6, <1>7, <1>8, <1>9, <1>10 DEF TriggerInv

\* The trigger is counted.
LEMMA StillReadyKeeps ==
  ASSUME TriggerInv, StillReady
  PROVE  TriggerInv'
<1> USE DEF Pending, Skipped, SkippedMost, Places, Starting, Looking, Handling, Inputs, vars,
            logic, modules, world, counters, history, Goto, Unlocked
<1>1. TypeOK'
  BY DEF TriggerInv, TypeOK, StillReady
<1>2. NothingYet'
  BY DEF TriggerInv, NothingYet, StillReady
<1>3. Looked'
  BY DEF TriggerInv, Looked, StillReady
<1>4. LetIn'
  BY DEF TriggerInv, LetIn, StillReady
<1>5. OwnData'
  <2> SUFFICES ASSUME rpc' \notin Starting, NEW n \in Modules, n \notin slipped' \ {Tdc}
               PROVE  Own(n)'
    BY DEF OwnData, Own
  <2>1. Own(n)
    BY DEF TriggerInv, OwnData, Own, StillReady
  <2>2. gates[n] \in Nat /\ trignr \in Nat /\ at = Tdc
    BY DEF TriggerInv, TypeOK, StillReady
  <2>3. Extra(n)' = Extra(n)
    BY <2>2 DEF TriggerInv, Looked, Extra, StillReady
  <2>4. Current(n) => Current(n)'
    BY <2>2, ModuleFacts DEF Current, Holds, StillReady
  <2>5. UNCHANGED <<abort_run, mixed>> /\ rpc # "read" /\ (rpc' = "read" => ~abort_run)
    BY DEF StillReady
  <2> HIDE DEF Pending
  <2> QED
    BY <2>1, <2>3, <2>4, <2>5 DEF Own
<1>6. PedestalsLimited'
  BY DEF TriggerInv, PedestalsLimited, StillReady
<1>7. EveryGateAnswered'
  <2>1. trignr \in Nat /\ totevents \in Nat /\ noise \in Nat
    BY DEF TriggerInv, TypeOK
  <2>2. ASSUME rpc' \notin Starting, NEW n \in Modules
        PROVE  (Extra(n) \in (IF n = Tdc THEN 0 ELSE -noise) .. noise)'
    <3>1. gates[n] \in Nat
      BY DEF TriggerInv, TypeOK
    <3>2. rpc \notin Starting => Extra(n) \in (IF n = Tdc THEN 0 ELSE -noise) .. noise
      BY DEF TriggerInv, EveryGateAnswered
    <3> QED
      BY <2>1, <2>2, <3>1, <3>2 DEF TriggerInv, NothingYet, Looked, Extra, StillReady
  <2>3. rpc' \notin Starting => (0 <= Skipped /\ Skipped <= IF abort_run THEN 2 ELSE 0)'
    BY <2>1 DEF TriggerInv, NothingYet, EveryGateAnswered, ThrownAway, StillReady
  <2> QED
    BY <2>2, <2>3 DEF EveryGateAnswered
<1>8. Compared'
  BY DEF TriggerInv, TypeOK, Compared, StillReady
<1>9. ThrownAway'
  BY DEF TriggerInv, ThrownAway, TypeOK, StillReady
<1>10. SlipsTold'
  BY DEF TriggerInv, TypeOK, SlipsTold, StillReady
<1> QED
  BY <1>1, <1>2, <1>3, <1>4, <1>5, <1>6, <1>7, <1>8, <1>9, <1>10 DEF TriggerInv

\* The event is thrown away after SIGINT only.
LEMMA GetEventKeeps ==
  ASSUME TriggerInv, GetEvent
  PROVE  TriggerInv'
<1> USE DEF Pending, Skipped, SkippedMost, Places, Starting, Looking, Handling, Inputs, vars,
            logic, modules, world, counters, history, Goto, Unlocked
<1>1. TypeOK'
  BY DEF TriggerInv, TypeOK, GetEvent
<1>2. NothingYet'
  BY DEF TriggerInv, NothingYet, GetEvent
<1>3. Looked'
  BY DEF TriggerInv, Looked, GetEvent
<1>4. LetIn'
  BY DEF TriggerInv, TypeOK, Looked, LetIn, GetEvent
<1>5. OwnData'
  <2> SUFFICES ASSUME rpc' \notin Starting, NEW n \in Modules, n \notin slipped' \ {Tdc}
               PROVE  Own(n)'
    BY DEF OwnData, Own
  <2>1. Own(n)
    BY DEF TriggerInv, OwnData, Own, GetEvent
  <2>2. gates[n] \in Nat /\ trignr \in Nat /\ at = Tdc
    BY DEF TriggerInv, TypeOK, GetEvent
  <2>3. Extra(n)' = Extra(n)
    BY <2>2 DEF TriggerInv, Looked, Extra, GetEvent
  <2>4. rpc' = "read" /\ Current(n) => Current(n)'
    BY <2>2, ModuleFacts DEF Current, Holds, GetEvent
  <2>5. UNCHANGED <<abort_run, mixed>> /\ rpc # "read" /\ (rpc' = "read" <=> ~abort_run)
    BY DEF GetEvent
  <2> HIDE DEF Pending
  <2> QED
    BY <2>1, <2>3, <2>4, <2>5 DEF Own
<1>6. PedestalsLimited'
  BY DEF TriggerInv, PedestalsLimited, GetEvent
<1>7. EveryGateAnswered'
  <2>1. trignr \in Nat /\ totevents \in Nat /\ noise \in Nat
    BY DEF TriggerInv, TypeOK
  <2>2. ASSUME rpc' \notin Starting, NEW n \in Modules
        PROVE  (Extra(n) \in (IF n = Tdc THEN 0 ELSE -noise) .. noise)'
    <3>1. gates[n] \in Nat
      BY DEF TriggerInv, TypeOK
    <3>2. rpc \notin Starting => Extra(n) \in (IF n = Tdc THEN 0 ELSE -noise) .. noise
      BY DEF TriggerInv, EveryGateAnswered
    <3> QED
      BY <2>1, <2>2, <3>1, <3>2 DEF TriggerInv, NothingYet, Looked, Extra, GetEvent
  <2>3. rpc' \notin Starting => (0 <= Skipped /\ Skipped <= IF abort_run THEN 2 ELSE 0)'
    BY <2>1 DEF TriggerInv, NothingYet, EveryGateAnswered, ThrownAway, GetEvent
  <2> QED
    BY <2>2, <2>3 DEF EveryGateAnswered
<1>8. Compared'
  BY DEF TriggerInv, TypeOK, Compared, GetEvent
<1>9. ThrownAway'
  BY DEF TriggerInv, ThrownAway, TypeOK, GetEvent
<1>10. SlipsTold'
  BY DEF TriggerInv, TypeOK, SlipsTold, GetEvent
<1> QED
  BY <1>1, <1>2, <1>3, <1>4, <1>5, <1>6, <1>7, <1>8, <1>9, <1>10 DEF TriggerInv

\* The oldest data are those of the trigger.
LEMMA ReadEventKeeps ==
  ASSUME TriggerInv, ReadEvent
  PROVE  TriggerInv'
<1> USE DEF Pending, Skipped, SkippedMost, Places, Starting, Looking, Handling, Inputs, vars,
            logic, modules, world, counters, history, Goto, Unlocked
<1>1. TypeOK'
  <2>1. at' \in Modules /\ rpc' \in {"read", "count"} /\ (rpc' = "count" => at' = Tdc)
    BY ModuleFacts DEF TriggerInv, TypeOK, ReadEvent
  <2>2. buffer' \in [Modules -> Seq(Nat)]
    <3>1. buffer[at] # <<>> => Tail(buffer[at]) \in Seq(Nat)
      BY SMT DEF TriggerInv, TypeOK
    <3> QED
      BY <3>1 DEF TriggerInv, TypeOK, ReadEvent, Answers, GivesNothing
  <2>3. noise' \in Nat /\ mixed' \in SUBSET Modules /\ slipped' \in SUBSET Modules
    BY DEF TriggerInv, TypeOK, ReadEvent, Answers, GivesNothing, Noise
  <2>4. UNCHANGED <<logic, strobes, gates, converting, inSpill, abort_run, site, trigmask,
                    counters, alarm>>
    BY DEF ReadEvent
  <2> QED
    BY <2>1, <2>2, <2>3, <2>4 DEF TriggerInv, TypeOK
<1>2. NothingYet'
  BY DEF TriggerInv, NothingYet, ReadEvent
<1>3. Looked'
  <2>1. at' # Tdc \/ rpc' = "count"
    BY ModuleFacts DEF TriggerInv, TypeOK, ReadEvent
  <2> QED
    BY <2>1 DEF TriggerInv, Looked, ReadEvent
<1>4. LetIn'
  BY DEF TriggerInv, LetIn, ReadEvent
<1>5. OwnData'
  <2> SUFFICES ASSUME NEW n \in Modules, n \notin slipped' \ {Tdc}
               PROVE  Own(n)'
    BY DEF OwnData, Own
  <2>1. n \notin slipped \ {Tdc} /\ Own(n)
    BY DEF TriggerInv, OwnData, Own, ReadEvent, Answers, GivesNothing
  <2>2. /\ rpc = "read" /\ locked /\ locked' /\ trigger' = trigger /\ converting' = converting
        /\ Extra(n)' = Extra(n) /\ rpc' \in {"read", "count"}
    BY DEF TriggerInv, Looked, Extra, ReadEvent
  <2>3. n < at' \/ rpc' = "count" <=> n < at \/ n = at
    BY ModuleFacts DEF TriggerInv, TypeOK, ReadEvent
  <2>4. buffer \in [Modules -> Seq(Nat)] /\ converting \in [Modules -> Nat] /\ trigger \in Nat
        /\ at \in Modules
    BY DEF TriggerInv, TypeOK
  <2> HIDE DEF Pending
  <2>5. CASE n # at
    <3>1. buffer'[n] = buffer[n] /\ (n \in mixed' => n \in mixed)
      BY <2>4, <2>5 DEF ReadEvent, Answers, GivesNothing
    <3>2. Current(n) => Current(n)'
      BY <2>2, <2>3, <2>5, <3>1 DEF Current, Holds
    <3> QED
      BY <2>1, <2>2, <3>1, <3>2 DEF Own
  <2>6. CASE n = at
    <3>1. ~(n < at)
      BY <2>4, <2>6, ModuleFacts
    <3>2. CASE Answers(at)
      <4>1. buffer[n] # <<>> /\ buffer'[n] = Tail(buffer[n])
            /\ (Head(buffer[n]) = trigger => mixed' = mixed)
        BY <2>4, <2>6, <3>2 DEF Answers
      <4>2. Current(n) => Holds(n, <<trigger>>)
        BY <2>2, <3>1, <4>1 DEF Current
      <4>3. Current(n) => Holds(n, <<>>)' /\ mixed' = mixed
        BY <2>2, <2>4, <4>1, <4>2, SeqFacts DEF Holds
      <4>4. Current(n) => Current(n)'
        BY <2>2, <2>3, <2>6, <4>3 DEF Current
      <4> QED
        BY <2>1, <2>2, <4>3, <4>4 DEF Own
    <3>3. CASE GivesNothing(at)
      <4>1. n = Tdc /\ buffer[n] # <<>>
        BY <2>1, <2>6, <3>3 DEF TriggerInv, Looked, GivesNothing, ReadEvent
      <4>2. buffer' = buffer /\ mixed' = mixed
        BY <3>3 DEF GivesNothing
      <4>3. Current(n) => Holds(n, <<trigger>>)
        BY <2>2, <3>1, <4>1 DEF Current
      <4>4. Current(n) => Current(n)'
        BY <2>2, <2>3, <2>6, <4>2, <4>3 DEF Current, Holds
      <4> QED
        BY <2>1, <2>2, <4>2, <4>4 DEF Own
    <3> QED
      BY <3>2, <3>3 DEF ReadEvent
  <2> QED
    BY <2>5, <2>6
<1>6. PedestalsLimited'
  BY DEF TriggerInv, PedestalsLimited, ReadEvent
<1>7. EveryGateAnswered'
  <2>1. trignr \in Nat /\ totevents \in Nat /\ noise \in Nat
    BY DEF TriggerInv, TypeOK
  <2>2. ASSUME rpc' \notin Starting, NEW n \in Modules
        PROVE  (Extra(n) \in (IF n = Tdc THEN 0 ELSE -noise) .. noise)'
    <3>1. gates[n] \in Nat
      BY DEF TriggerInv, TypeOK
    <3>2. rpc \notin Starting => Extra(n) \in (IF n = Tdc THEN 0 ELSE -noise) .. noise
      BY DEF TriggerInv, EveryGateAnswered
    <3> QED
      BY <2>1, <2>2, <3>1, <3>2
         DEF TriggerInv, NothingYet, Looked, Extra, ReadEvent, Answers, GivesNothing, Noise
  <2>3. rpc' \notin Starting => (0 <= Skipped /\ Skipped <= IF abort_run THEN 2 ELSE 0)'
    BY <2>1
       DEF TriggerInv, NothingYet, EveryGateAnswered, ThrownAway, ReadEvent, Answers,
           GivesNothing, Noise
  <2> QED
    BY <2>2, <2>3 DEF EveryGateAnswered
<1>8. Compared'
  BY DEF TriggerInv, TypeOK, Compared, ReadEvent
<1>9. ThrownAway'
  BY DEF TriggerInv, ThrownAway, ReadEvent
<1>10. SlipsTold'
  <2> SUFFICES ASSUME noise' = 0, slipped' # slipped
               PROVE  slipped' = {Tdc} /\ gates[Tdc] >= CounterSize
    BY DEF TriggerInv, TypeOK, SlipsTold, ReadEvent, Answers, GivesNothing, Noise
  <2>1. GivesNothing(at) /\ noise = 0 /\ at \in Modules /\ rpc = "read"
    BY DEF TriggerInv, TypeOK, ReadEvent, Answers, GivesNothing, Noise
  <2>2. slipped' = slipped \union {at} /\ at \notin slipped
    BY <2>1 DEF GivesNothing
  <2>3. noise \in Nat /\ trignr \in Nat /\ totevents \in Nat /\ trigger > 0 /\ locked
        /\ gates \in [Modules -> Nat]
    BY <2>1 DEF TriggerInv, TypeOK, Looked
  <2>4. Extra(at) = 0 /\ Pending = 0 /\ Skipped >= 0
    BY <2>1, <2>3, ModuleFacts DEF TriggerInv, EveryGateAnswered, Extra
  <2>5. Own(at)
    BY <2>1, <2>2 DEF TriggerInv, OwnData, Own
  <2>6. Current(at)
    BY <2>1, <2>4, <2>5 DEF Own
  <2>7. at = Tdc
    <3>1. SUFFICES ASSUME at # Tdc
                   PROVE  FALSE
      OBVIOUS
    <3>2. buffer[at] = <<>> /\ converting[at] = 0
      BY <2>1, <2>3, <3>1 DEF GivesNothing, Noise, TriggerInv, TypeOK
    <3>3. ~(at < at)
      BY <2>1, ModuleFacts
    <3>4. Holds(at, <<trigger>>) \/ converting[at] = trigger
      BY <2>1, <2>3, <2>6, <3>3 DEF Current
    <3>5. <<trigger>> # <<>>
      BY SMT
    <3> QED
      BY <2>3, <3>2, <3>4, <3>5 DEF Holds
  <2>8. gates[Tdc] >= CounterSize
    <3>1. gates[Tdc] % CounterSize = 0
      BY <2>1, <2>3, <2>7 DEF GivesNothing, CounterValid, Noise, TriggerInv, TypeOK
    <3>2. gates[Tdc] \in Nat /\ gates[Tdc] > 0
      BY <2>1, <2>3, <2>4, <2>7 DEF Extra
    <3>3. CounterSize \in Nat \ {0}
      BY TriggerAssumption
    <3> QED
      BY <3>1, <3>2, <3>3, SMT
  <2> QED
    BY <2>1, <2>2, <2>7, <2>8 DEF TriggerInv, SlipsTold
<1> QED
  BY <1>1, <1>2, <1>3, <1>4, <1>5, <1>6, <1>7, <1>8, <1>9, <1>10 DEF TriggerInv

\* A pedestal was let in while it was due and within the quota.
LEMMA CountEventKeeps ==
  ASSUME TriggerInv, CountEvent
  PROVE  TriggerInv'
<1> USE DEF Pending, Skipped, SkippedMost, Places, Starting, Looking, Handling, Inputs, vars,
            logic, modules, world, counters, history, Goto, Unlocked
<1>1. TypeOK'
  <2>1. CASE "beam" \in trigmask
    BY <2>1 DEF TriggerInv, TypeOK, CountEvent
  <2>2. CASE "beam" \notin trigmask
    BY <2>2 DEF TriggerInv, TypeOK, CountEvent
  <2> QED
    BY <2>1, <2>2
<1>2. NothingYet'
  BY DEF TriggerInv, NothingYet, CountEvent
<1>3. Looked'
  BY DEF TriggerInv, Looked, CountEvent
<1>4. LetIn'
  <2>a. "beam" \notin trigmask => "ped" \in trigmask
    BY DEF TriggerInv, TypeOK, Looked, CountEvent
  <2>b. "ped" \in trigmask => ~pedveto
    BY DEF TriggerInv, LetIn, CountEvent
  <2>c. ~pedveto => Due(events, pedevents) /\ ped_enabled
    BY DEF TriggerInv, LetIn, CountEvent
  <2>d. ped_enabled => pedevents = 0 \/ pedevents < maxpedevts
    BY DEF TriggerInv, LetIn
  <2>e. events \in Nat /\ pedevents \in Nat
    BY DEF TriggerInv, TypeOK
  <2>1. CASE "beam" \in trigmask
    BY <2>1, DueFacts DEF TriggerInv, TypeOK, Looked, LetIn, CountEvent
  <2>2. CASE "beam" \notin trigmask
    <3>1. Due(events, pedevents) /\ ped_enabled /\ ~pedveto
      BY <2>2, <2>a, <2>b, <2>c
    <3>2. events' = events /\ pedevents' = pedevents + 1 /\ rpc' = "arm" /\ trigmask' = trigmask
      BY <2>2 DEF CountEvent
    <3>3. pedveto' = (pedevents + 1 >= maxpedevts) /\ ped_enabled' = (pedevents + 1 < maxpedevts)
      BY <2>2, <3>1 DEF CountEvent
    <3>4. pedveto' <=> ~ped_enabled'
      <4>1. (pedevents + 1 >= maxpedevts) <=> ~(pedevents + 1 < maxpedevts)
        BY <2>e, QuotaNat, SMT
      <4> QED
        BY <4>1, <3>3, Zenon
    <3>5. ped_enabled' => pedevents' < maxpedevts
      BY <3>2, <3>3, <2>e
    <3> QED
      BY <2>2, <3>2, <3>4, <3>5 DEF LetIn
  <2> QED
    BY <2>1, <2>2
<1>5. OwnData'
  BY DEF TriggerInv, TypeOK, Looked, OwnData, Extra, Current, Holds, CountEvent
<1>6. PedestalsLimited'
  <2>a. "beam" \notin trigmask => "ped" \in trigmask
    BY DEF TriggerInv, TypeOK, Looked, CountEvent
  <2>b. "ped" \in trigmask => ~pedveto
    BY DEF TriggerInv, LetIn, CountEvent
  <2>c. ~pedveto => Due(events, pedevents) /\ ped_enabled
    BY DEF TriggerInv, LetIn, CountEvent
  <2>d. ped_enabled => pedevents = 0 \/ pedevents < maxpedevts
    BY DEF TriggerInv, LetIn
  <2>e. events \in Nat /\ pedevents \in Nat
    BY DEF TriggerInv, TypeOK
  <2>1. CASE "beam" \in trigmask
    BY <2>1, DueFacts DEF TriggerInv, TypeOK, Looked, LetIn, PedestalsLimited, CountEvent
  <2>2. CASE "beam" \notin trigmask
    <3>1. Due(events, pedevents) /\ ped_enabled
      BY <2>2, <2>a, <2>b, <2>c
    <3>2. events' = events /\ pedevents' = pedevents + 1
      BY <2>2 DEF CountEvent
    <3>3. Due(events, (pedevents + 1) - 1)
      BY <3>1, <2>e, DueFacts
    <3>4. pedevents + 1 <= IF maxpedevts = 0 THEN 1 ELSE maxpedevts
      BY <3>1, <2>d, <2>e, QuotaNat
    <3> QED
      BY <3>2, <3>3, <3>4, QuotaSame DEF PedestalsLimited
  <2> QED
    BY <2>1, <2>2
<1>7. EveryGateAnswered'
  BY DEF TriggerInv, TypeOK, Looked, EveryGateAnswered, Extra, CountEvent
<1>8. Compared'
  BY DEF TriggerInv, TypeOK, Compared, CountEvent
<1>9. ThrownAway'
  BY DEF TriggerInv, ThrownAway, TypeOK, CountEvent
<1>10. SlipsTold'
  BY DEF TriggerInv, TypeOK, SlipsTold, CountEvent
<1> QED
  BY <1>1, <1>2, <1>3, <1>4, <1>5, <1>6, <1>7, <1>8, <1>9, <1>10 DEF TriggerInv

\* Afterwards pedestals are let in exactly if they are due.
LEMMA FollowRatioKeeps ==
  ASSUME TriggerInv, FollowRatio
  PROVE  TriggerInv'
<1> USE DEF Pending, Skipped, SkippedMost, Places, Starting, Looking, Handling, Inputs, vars,
            logic, modules, world, counters, history, Goto, Unlocked
<1>1. TypeOK'
  BY DEF TriggerInv, TypeOK, FollowRatio
<1>2. NothingYet'
  BY DEF TriggerInv, NothingYet, FollowRatio
<1>3. Looked'
  BY DEF TriggerInv, Looked, FollowRatio
<1>4. LetIn'
  BY DEF TriggerInv, LetIn, FollowRatio
<1>5. OwnData'
  BY DEF TriggerInv, TypeOK, Looked, OwnData, Extra, Current, Holds, FollowRatio
<1>6. PedestalsLimited'
  BY DEF TriggerInv, PedestalsLimited, FollowRatio
<1>7. EveryGateAnswered'
  BY DEF TriggerInv, TypeOK, Looked, EveryGateAnswered, Extra, FollowRatio
<1>8. Compared'
  BY DEF TriggerInv, TypeOK, Compared, FollowRatio
<1>9. ThrownAway'
  BY DEF TriggerInv, ThrownAway, FollowRatio
<1>10. SlipsTold'
  BY DEF TriggerInv, TypeOK, SlipsTold, FollowRatio
<1> QED
  BY <1>1, <1>2, <1>3, <1>4, <1>5, <1>6, <1>7, <1>8, <1>9, <1>10 DEF TriggerInv

\* The triggers are vetoed before the last look.
LEMMA CheckedKeeps ==
  ASSUME TriggerInv, Checked
  PROVE  TriggerInv'
<1> USE DEF Pending, Skipped, SkippedMost, Places, Starting, Looking, Handling, Inputs, vars,
            logic, modules, world, counters, history, Goto, Unlocked
<1>1. TypeOK'
  BY DEF TriggerInv, TypeOK, Checked
<1>2. NothingYet'
  BY DEF TriggerInv, NothingYet, Checked
<1>3. Looked'
  BY DEF TriggerInv, Looked, Checked
<1>4. LetIn'
  BY DEF TriggerInv, LetIn, Checked
<1>5. OwnData'
  BY DEF TriggerInv, TypeOK, Looked, OwnData, Extra, Current, Holds, Checked
<1>6. PedestalsLimited'
  BY DEF TriggerInv, PedestalsLimited, Checked
<1>7. EveryGateAnswered'
  BY DEF TriggerInv, TypeOK, Looked, EveryGateAnswered, Extra, Checked
<1>8. Compared'
  BY ModuleFacts DEF TriggerInv, TypeOK, Compared, Checked
<1>9. ThrownAway'
  BY DEF TriggerInv, ThrownAway, Checked
<1>10. SlipsTold'
  BY DEF TriggerInv, TypeOK, SlipsTold, Checked
<1> QED
  BY <1>1, <1>2, <1>3, <1>4, <1>5, <1>6, <1>7, <1>8, <1>9, <1>10 DEF TriggerInv

\* The counters of the modules are compared with the events.
LEMMA checkEvntCntrsKeeps ==
  ASSUME TriggerInv, checkEvntCntrs
  PROVE  TriggerInv'
<1> USE DEF Pending, Skipped, SkippedMost, Places, Starting, Looking, Handling, Inputs, vars,
            logic, modules, world, counters, history, Goto, Unlocked
<1>1. TypeOK'
  <2>1. at' \in Modules /\ rpc' \in {"counters", "wait_next"} /\ (rpc' = "wait_next" => at' = Tdc)
    BY ModuleFacts DEF TriggerInv, TypeOK, checkEvntCntrs
  <2>2. alarm' \in BOOLEAN
    BY DEF checkEvntCntrs
  <2>3. UNCHANGED <<logic, modules, world, site, trigmask, counters, mixed, slipped>>
    BY DEF checkEvntCntrs
  <2> QED
    BY <2>1, <2>2, <2>3 DEF TriggerInv, TypeOK
<1>2. NothingYet'
  BY DEF TriggerInv, NothingYet, checkEvntCntrs
<1>3. Looked'
  BY DEF TriggerInv, Looked, checkEvntCntrs
<1>4. LetIn'
  BY DEF TriggerInv, LetIn, checkEvntCntrs
<1>5. OwnData'
  BY DEF TriggerInv, TypeOK, Looked, OwnData, Extra, Current, Holds, checkEvntCntrs
<1>6. PedestalsLimited'
  BY DEF TriggerInv, PedestalsLimited, checkEvntCntrs
<1>7. EveryGateAnswered'
  BY DEF TriggerInv, TypeOK, Looked, EveryGateAnswered, Extra, checkEvntCntrs
<1>8. Compared'
  <2> DEFINE Right == alarm => noise > 0 \/ Skipped > 0 \/ locked \/ totevents >= CounterSize
  <2>1. totevents \in Nat /\ CounterSize \in Nat /\ noise \in Nat /\ trignr \in Nat
        /\ gates \in [Modules -> Nat] /\ at \in Modules /\ rpc = "counters"
    BY TriggerAssumption DEF TriggerInv, TypeOK, checkEvntCntrs
  <2>2. Skipped >= 0 /\ Skipped = trignr - totevents
        /\ Extra(at) \in (IF at = Tdc THEN 0 ELSE -noise) .. noise
    BY <2>1 DEF TriggerInv, EveryGateAnswered
  <2>3. UNCHANGED <<gates, totevents, noise, locked, mixed, slipped, trignr>>
        /\ Skipped' = Skipped
        /\ alarm' = (gates[at] % CounterSize # totevents \/ (at # Tdc /\ alarm))
    BY DEF checkEvntCntrs
  <2>4. ASSUME NEW n \in Modules, n < at' \/ rpc' = "wait_next"
        PROVE  n < at \/ n = at
    BY <2>1, <2>4, ModuleFacts DEF checkEvntCntrs
  <2>5. ASSUME at \in mixed \ (slipped \ {Tdc}), gates[at] - totevents < CounterSize
        PROVE  gates[at] % CounterSize # totevents
    <3>1. Own(at)
      BY <2>1, <2>5 DEF TriggerInv, OwnData, Own
    <3>2. Extra(at) >= 1
      BY <2>5, <3>1 DEF Own
    <3>3. gates[at] > totevents
      BY <2>1, <2>2, <3>2 DEF Extra
    <3> QED
      BY <2>1, <2>5, <3>3, CounterShows
  <2>6. gates[at] % CounterSize # totevents =>
          noise > 0 \/ Skipped > 0 \/ locked \/ totevents >= CounterSize
    <3>1. SUFFICES ASSUME noise = 0, Skipped = 0, ~locked, totevents < CounterSize
                   PROVE  gates[at] % CounterSize = totevents
      BY <2>1, <2>2
    <3>2. gates[at] = totevents
      <4>1. Extra(at) = 0 /\ Pending = 0 /\ trignr = totevents /\ gates[at] \in Nat
        BY <2>1, <2>2, <3>1
      <4> HIDE DEF Pending
      <4> QED
        BY <2>1, <4>1 DEF Extra
    <3> QED
      BY <2>1, <3>1, <3>2, CounterShows
  <2> HIDE DEF Skipped
  <2>7. at # Tdc => Right
    BY <2>1, ModuleFacts DEF TriggerInv, Compared
  <2>8. Right'
    BY <2>3, <2>6, <2>7
  <2>9. ASSUME NEW n \in Modules, n < at' \/ rpc' = "wait_next"
        PROVE  n \in mixed \ (slipped \ {Tdc}) /\ gates[n] - totevents < CounterSize => alarm'
    <3>1. CASE n = at
      BY <2>3, <2>5, <3>1
    <3>2. CASE n < at
      <4>1. at # Tdc
        BY <2>1, <3>2, ModuleFacts
      <4>2. n \in mixed \ (slipped \ {Tdc}) /\ gates[n] - totevents < CounterSize => alarm
        BY <2>1, <3>2 DEF TriggerInv, Compared
      <4> QED
        BY <2>3, <4>1, <4>2
    <3> QED
      BY <2>4, <2>9, <3>1, <3>2
  <2> QED
    BY <2>3, <2>8, <2>9 DEF Compared
<1>9. ThrownAway'
  BY DEF TriggerInv, ThrownAway, checkEvntCntrs
<1>10. SlipsTold'
  BY DEF TriggerInv, TypeOK, SlipsTold, checkEvntCntrs
<1> QED
  BY <1>1, <1>2, <1>3, <1>4, <1>5, <1>6, <1>7, <1>8, <1>9, <1>10 DEF TriggerInv

\* Waiting for a spill changes nothing.
LEMMA NextSpillKeeps ==
  ASSUME TriggerInv, NextSpill
  PROVE  TriggerInv'
<1> USE DEF Pending, Skipped, SkippedMost, Places, Starting, Looking, Handling, Inputs, vars,
            logic, modules, world, counters, history, Goto, Unlocked
<1>1. TypeOK'
  BY DEF TriggerInv, TypeOK, NextSpill
<1>2. NothingYet'
  BY DEF TriggerInv, NothingYet, NextSpill
<1>3. Looked'
  BY DEF TriggerInv, Looked, NextSpill
<1>4. LetIn'
  BY DEF TriggerInv, LetIn, NextSpill
<1>5. OwnData'
  BY DEF TriggerInv, TypeOK, Looked, OwnData, Extra, Current, Holds, NextSpill
<1>6. PedestalsLimited'
  BY DEF TriggerInv, PedestalsLimited, NextSpill
<1>7. EveryGateAnswered'
  BY DEF TriggerInv, TypeOK, Looked, EveryGateAnswered, Extra, NextSpill
<1>8. Compared'
  BY DEF TriggerInv, TypeOK, Compared, NextSpill
<1>9. ThrownAway'
  BY DEF TriggerInv, ThrownAway, NextSpill
<1>10. SlipsTold'
  BY DEF TriggerInv, TypeOK, SlipsTold, NextSpill
<1> QED
  BY <1>1, <1>2, <1>3, <1>4, <1>5, <1>6, <1>7, <1>8, <1>9, <1>10 DEF TriggerInv

\* The loop is entered again.
LEMMA EnableTriggersKeeps ==
  ASSUME TriggerInv, EnableTriggers
  PROVE  TriggerInv'
<1> USE DEF Pending, Skipped, SkippedMost, Places, Starting, Looking, Handling, Inputs, vars,
            logic, modules, world, counters, history, Goto, Unlocked
<1>1. TypeOK'
  BY DEF TriggerInv, TypeOK, EnableTriggers
<1>2. NothingYet'
  BY DEF TriggerInv, NothingYet, EnableTriggers
<1>3. Looked'
  BY DEF TriggerInv, Looked, EnableTriggers
<1>4. LetIn'
  BY DEF TriggerInv, LetIn, EnableTriggers
<1>5. OwnData'
  BY DEF TriggerInv, TypeOK, Looked, OwnData, Extra, Current, Holds, EnableTriggers
<1>6. PedestalsLimited'
  BY DEF TriggerInv, PedestalsLimited, EnableTriggers
<1>7. EveryGateAnswered'
  BY DEF TriggerInv, TypeOK, Looked, EveryGateAnswered, Extra, EnableTriggers
<1>8. Compared'
  BY DEF TriggerInv, TypeOK, Compared, EnableTriggers
<1>9. ThrownAway'
  BY DEF TriggerInv, ThrownAway, TypeOK, Looked, EnableTriggers
<1>10. SlipsTold'
  BY DEF TriggerInv, TypeOK, SlipsTold, EnableTriggers
<1> QED
  BY <1>1, <1>2, <1>3, <1>4, <1>5, <1>6, <1>7, <1>8, <1>9, <1>10 DEF TriggerInv

\* A trigger is given up when it has no data, which takes noise.
LEMMA GiveUpKeeps ==
  ASSUME TriggerInv, GiveUp
  PROVE  TriggerInv'
<1> USE DEF Pending, Skipped, SkippedMost, Places, Starting, Looking, Handling, Inputs, vars,
            logic, modules, world, counters, history, Goto, Unlocked
<1>1. TypeOK'
  <2>1. noise' \in Nat
    BY DEF TriggerInv, TypeOK, GiveUp, Noise
  <2>2. UNCHANGED <<veto, pedveto, trigger, modules, inSpill, abort_run, site, at, counters,
                    history>>
    BY DEF GiveUp
  <2>3. locked' = FALSE /\ inputs' = {} /\ trigmask' = {} /\ rpc = "again" /\ rpc' = "checked"
    BY DEF GiveUp
  <2> QED
    BY <2>1, <2>2, <2>3 DEF TriggerInv, TypeOK
<1>2. NothingYet'
  BY DEF TriggerInv, NothingYet, GiveUp
<1>3. Looked'
  BY DEF TriggerInv, Looked, GiveUp
<1>4. LetIn'
  BY DEF TriggerInv, LetIn, GiveUp
<1>5. OwnData'
  BY DEF TriggerInv, TypeOK, Looked, OwnData, Extra, Current, Holds, GiveUp
<1>6. PedestalsLimited'
  BY DEF TriggerInv, PedestalsLimited, GiveUp
<1>7. EveryGateAnswered'
  <2>1. trignr \in Nat /\ totevents \in Nat /\ noise \in Nat
    BY DEF TriggerInv, TypeOK
  <2>2. ASSUME rpc' \notin Starting, NEW n \in Modules
        PROVE  (Extra(n) \in (IF n = Tdc THEN 0 ELSE -noise) .. noise)'
    <3>1. gates[n] \in Nat
      BY DEF TriggerInv, TypeOK
    <3>2. rpc \notin Starting => Extra(n) \in (IF n = Tdc THEN 0 ELSE -noise) .. noise
      BY DEF TriggerInv, EveryGateAnswered
    <3> QED
      BY <2>1, <2>2, <3>1, <3>2 DEF TriggerInv, NothingYet, Looked, Extra, GiveUp, Noise
  <2>3. rpc' \notin Starting => (0 <= Skipped /\ Skipped <= IF abort_run THEN 2 ELSE 0)'
    BY <2>1 DEF TriggerInv, NothingYet, EveryGateAnswered, ThrownAway, GiveUp, Noise
  <2> QED
    BY <2>2, <2>3 DEF EveryGateAnswered
<1>8. Compared'
  BY DEF TriggerInv, TypeOK, Compared, GiveUp
<1>9. ThrownAway'
  BY DEF TriggerInv, ThrownAway, TypeOK, GiveUp
<1>10. SlipsTold'
  BY DEF TriggerInv, TypeOK, Looked, SlipsTold, GiveUp, Noise
<1> QED
  BY <1>1, <1>2, <1>3, <1>4, <1>5, <1>6, <1>7, <1>8, <1>9, <1>10 DEF TriggerInv

\* Data become ready while their trigger is pending.
LEMMA ConvertKeeps ==
  ASSUME TriggerInv, NEW m \in Modules, Convert(m)
  PROVE  TriggerInv'
<1> USE DEF Pending, Skipped, SkippedMost, Places, Starting, Looking, Handling, Inputs, vars,
            logic, modules, world, counters, history, Goto, Unlocked
<1>1. TypeOK'
  BY DEF TriggerInv, TypeOK, Convert
<1>2. NothingYet'
  BY ModuleFacts DEF TriggerInv, TypeOK, NothingYet, Holds, Convert
<1>3. Looked'
  <2>1. buffer' # <<>>
    BY SeqFacts DEF TriggerInv, TypeOK, Convert
  <2> QED
    BY <2>1 DEF TriggerInv, Looked, Convert
<1>4. LetIn'
  BY DEF TriggerInv, LetIn, Convert
<1>5. OwnData'
  <2> SUFFICES ASSUME rpc' \notin Starting, NEW n \in Modules, n \notin slipped' \ {Tdc}
               PROVE  Own(n)'
    BY DEF OwnData, Own
  <2>1. Own(n) /\ rpc \notin Starting
    BY DEF TriggerInv, OwnData, Own, Convert
  <2>2. buffer \in [Modules -> Seq(Nat)] /\ converting \in [Modules -> Nat]
    BY DEF TriggerInv, TypeOK
  <2>3. CASE n # m
    BY <2>1, <2>2, <2>3 DEF Own, Extra, Current, Holds, Convert
  <2>4. CASE n = m
    <3>1. /\ buffer'[n] = Append(buffer[n], converting[n])
          /\ converting[n] # 0 /\ converting'[n] = 0
      BY <2>2, <2>4 DEF Convert
    <3>2. Current(n) => /\ locked /\ rpc \notin {"ratio", "unlock", "count", "arm"}
                        /\ ~(rpc = "read" /\ n < at)
                        /\ buffer[n] = <<>> /\ converting[n] = trigger
      BY <3>1 DEF Current, Holds
    <3>3. Current(n) => buffer'[n] = <<trigger>>
      BY <3>1, <3>2, <2>2, SeqFacts
    <3>4. Current(n) => Current(n)'
      BY <3>1, <3>2, <3>3 DEF Current, Holds, Convert
    <3> QED
      BY <2>1, <3>4 DEF Own, Extra, Convert
  <2> QED
    BY <2>3, <2>4
<1>6. PedestalsLimited'
  BY DEF TriggerInv, PedestalsLimited, Convert
<1>7. EveryGateAnswered'
  BY DEF TriggerInv, TypeOK, Looked, EveryGateAnswered, Extra, Convert
<1>8. Compared'
  BY DEF TriggerInv, TypeOK, Compared, Convert
<1>9. ThrownAway'
  BY DEF TriggerInv, ThrownAway, Convert
<1>10. SlipsTold'
  BY DEF TriggerInv, TypeOK, SlipsTold, Convert
<1> QED
  BY <1>1, <1>2, <1>3, <1>4, <1>5, <1>6, <1>7, <1>8, <1>9, <1>10 DEF TriggerInv

\* A spurious gate is noise.
LEMMA SpuriousGateKeeps ==
  ASSUME TriggerInv, NEW seen \in SUBSET Modules, SpuriousGate(seen)
  PROVE  TriggerInv'
<1> USE DEF Pending, Skipped, SkippedMost, Places, Starting, Looking, Handling, Inputs, vars,
            logic, modules, world, counters, history, Goto, Unlocked
<1>1. TypeOK'
  <2>1. /\ strobes' \in Nat /\ noise' \in Nat
        /\ gates' \in [Modules -> Nat] /\ converting' \in [Modules -> Nat]
    BY DEF TriggerInv, TypeOK, SpuriousGate, Noise, Gate
  <2>2. UNCHANGED <<logic, buffer, inSpill, abort_run, rpc, site, at, trigmask, counters, history>>
    BY DEF SpuriousGate
  <2> QED
    BY <2>1, <2>2 DEF TriggerInv, TypeOK
<1>2. NothingYet'
  BY ModuleFacts DEF TriggerInv, TypeOK, NothingYet, Holds, SpuriousGate, Noise, Gate
<1>3. Looked'
  <2>1. buffer' # <<>>
    BY SeqFacts DEF TriggerInv, TypeOK, SpuriousGate
  <2> QED
    BY <2>1 DEF TriggerInv, Looked, SpuriousGate
<1>4. LetIn'
  BY DEF TriggerInv, LetIn, SpuriousGate
<1>5. OwnData'
  <2> SUFFICES ASSUME rpc' \notin Starting, NEW n \in Modules, n \notin slipped' \ {Tdc}
               PROVE  Own(n)'
    BY DEF OwnData, Own
  <2>1. rpc \notin Starting => Own(n)
    BY DEF TriggerInv, OwnData, Own, SpuriousGate, Noise, Gate
  <2>2. gates[n] \in Nat /\ trignr \in Nat /\ totevents \in Nat /\ noise \in Nat
    BY DEF TriggerInv, TypeOK
  <2> QED
    BY <2>1, <2>2, ModuleFacts
       DEF TriggerInv, NothingYet, Looked, Own, Extra, Current, Holds, SpuriousGate, Noise, Gate
<1>6. PedestalsLimited'
  BY DEF TriggerInv, PedestalsLimited, SpuriousGate
<1>7. EveryGateAnswered'
  <2>1. trignr \in Nat /\ totevents \in Nat /\ noise \in Nat
    BY DEF TriggerInv, TypeOK
  <2>2. ASSUME rpc' \notin Starting, NEW n \in Modules
        PROVE  (Extra(n) \in (IF n = Tdc THEN 0 ELSE -noise) .. noise)'
    <3>1. gates[n] \in Nat
      BY DEF TriggerInv, TypeOK
    <3>2. rpc \notin Starting => Extra(n) \in (IF n = Tdc THEN 0 ELSE -noise) .. noise
      BY DEF TriggerInv, EveryGateAnswered
    <3>3. /\ noise' = noise + 1 /\ gates'[n] \in {gates[n], gates[n] + 1}
          /\ UNCHANGED <<trignr, locked, rpc>>
      BY DEF TriggerInv, TypeOK, SpuriousGate, Noise, Gate
    <3> QED
      BY <2>1, <2>2, <3>1, <3>2, <3>3 DEF Extra
  <2>3. rpc' \notin Starting => (0 <= Skipped /\ Skipped <= IF abort_run THEN 2 ELSE 0)'
    BY <2>1 DEF TriggerInv, NothingYet, EveryGateAnswered, ThrownAway, SpuriousGate, Noise, Gate
  <2> QED
    BY <2>2, <2>3 DEF EveryGateAnswered
<1>8. Compared'
  <2>1. noise' > 0
    BY DEF TriggerInv, TypeOK, SpuriousGate, Noise
  <2>2. ASSUME NEW n \in Modules
        PROVE  gates[n] \in Nat /\ gates'[n] \in Nat /\ gates'[n] >= gates[n]
    BY DEF TriggerInv, TypeOK, SpuriousGate, Gate
  <2>3. totevents \in Nat /\ CounterSize \in Nat
    BY TriggerAssumption DEF TriggerInv, TypeOK
  <2> QED
    BY <2>1, <2>2, <2>3 DEF TriggerInv, Compared, SpuriousGate
<1>9. ThrownAway'
  BY DEF TriggerInv, ThrownAway, SpuriousGate
<1>10. SlipsTold'
  <2>1. gates[Tdc] \in Nat /\ noise \in Nat /\ CounterSize \in Nat
    BY ModuleFacts, TriggerAssumption DEF TriggerInv, TypeOK
  <2>2. noise' = 0 => noise = 0 /\ slipped' = slipped
    BY <2>1 DEF SpuriousGate, Noise, Gate
  <2>3. gates'[Tdc] >= gates[Tdc] /\ gates'[Tdc] \in Nat
    BY <2>1, ModuleFacts DEF SpuriousGate, Noise, Gate
  <2> QED
    BY <2>1, <2>2, <2>3 DEF TriggerInv, SlipsTold
<1> QED
  BY <1>1, <1>2, <1>3, <1>4, <1>5, <1>6, <1>7, <1>8, <1>9, <1>10 DEF TriggerInv

\* The spill signal is not part of the invariant.
LEMMA SpillKeeps ==
  ASSUME TriggerInv, Spill
  PROVE  TriggerInv'
<1> USE DEF Pending, Skipped, SkippedMost, Places, Starting, Looking, Handling, Inputs, vars,
            logic, modules, world, counters, history, Goto, Unlocked
<1>1. TypeOK'
  BY DEF TriggerInv, TypeOK, Spill
<1>2. NothingYet'
  BY ModuleFacts DEF TriggerInv, TypeOK, NothingYet, Holds, Spill
<1>3. Looked'
  BY DEF TriggerInv, Looked, Spill
<1>4. LetIn'
  BY DEF TriggerInv, LetIn, Spill
<1>5. OwnData'
  BY DEF TriggerInv, TypeOK, Looked, OwnData, Extra, Current, Holds, Spill
<1>6. PedestalsLimited'
  BY DEF TriggerInv, PedestalsLimited, Spill
<1>7. EveryGateAnswered'
  BY DEF TriggerInv, TypeOK, Looked, EveryGateAnswered, Extra, Spill
<1>8. Compared'
  BY DEF TriggerInv, TypeOK, Compared, Spill
<1>9. ThrownAway'
  BY DEF TriggerInv, ThrownAway, Spill
<1>10. SlipsTold'
  BY DEF TriggerInv, TypeOK, SlipsTold, Spill
<1> QED
  BY <1>1, <1>2, <1>3, <1>4, <1>5, <1>6, <1>7, <1>8, <1>9, <1>10 DEF TriggerInv

\* SIGINT only allows more.
LEMMA AbortKeeps ==
  ASSUME TriggerInv, Abort
  PROVE  TriggerInv'
<1> USE DEF Pending, Skipped, SkippedMost, Places, Starting, Looking, Handling, Inputs, vars,
            logic, modules, world, counters, history, Goto, Unlocked
<1>1. TypeOK'
  BY DEF TriggerInv, TypeOK, Abort
<1>2. NothingYet'
  BY ModuleFacts DEF TriggerInv, TypeOK, NothingYet, Holds, Abort
<1>3. Looked'
  BY DEF TriggerInv, Looked, Abort
<1>4. LetIn'
  BY DEF TriggerInv, LetIn, Abort
<1>5. OwnData'
  BY DEF TriggerInv, TypeOK, Looked, OwnData, Extra, Current, Holds, Abort
<1>6. PedestalsLimited'
  BY DEF TriggerInv, PedestalsLimited, Abort
<1>7. EveryGateAnswered'
  BY DEF TriggerInv, TypeOK, Looked, EveryGateAnswered, Extra, Abort
<1>8. Compared'
  BY DEF TriggerInv, TypeOK, Compared, Abort
<1>9. ThrownAway'
  BY DEF TriggerInv, ThrownAway, TypeOK, Abort
<1>10. SlipsTold'
  BY DEF TriggerInv, TypeOK, SlipsTold, Abort
<1> QED
  BY <1>1, <1>2, <1>3, <1>4, <1>5, <1>6, <1>7, <1>8, <1>9, <1>10 DEF TriggerInv

\* A trigger comes in while it is let in.
LEMMA TriggerKeeps ==
  ASSUME TriggerInv, NEW kinds \in SUBSET Inputs \ {{}},
         NEW missing \in SUBSET (Modules \ {Tdc}), Trigger(kinds, missing)
  PROVE  TriggerInv'
<1> USE DEF Pending, Skipped, SkippedMost, Places, Starting, Looking, Handling, Inputs, vars,
            logic, modules, world, counters, history, Goto, Unlocked
<1>1. TypeOK'
  <2>1. /\ strobes' \in Nat /\ noise' \in Nat /\ trigger' \in Nat
        /\ gates' \in [Modules -> Nat] /\ converting' \in [Modules -> Nat]
    BY DEF TriggerInv, TypeOK, Trigger, Noise, Gate
  <2>2. /\ locked' \in BOOLEAN /\ inputs' \in SUBSET Inputs /\ slipped' \in SUBSET Modules
    BY DEF TriggerInv, TypeOK, Trigger
  <2>3. UNCHANGED <<veto, pedveto, buffer, inSpill, abort_run, rpc, site, at, trigmask, counters,
                    mixed, alarm>>
    BY DEF Trigger
  <2> QED
    BY <2>1, <2>2, <2>3 DEF TriggerInv, TypeOK
<1>2. NothingYet'
  BY ModuleFacts DEF TriggerInv, TypeOK, NothingYet, Holds, Trigger, Noise, Gate
<1>3. Looked'
  <2>1. trigger' > 0
    BY DEF TriggerInv, TypeOK, Trigger
  <2> QED
    BY <2>1 DEF TriggerInv, TypeOK, Looked, Trigger
<1>4. LetIn'
  BY DEF TriggerInv, LetIn, Trigger
<1>5. OwnData'
  <2> SUFFICES ASSUME rpc' \notin Starting, NEW n \in Modules, n \notin slipped' \ {Tdc}
               PROVE  Own(n)'
    BY DEF OwnData, Own
  <2>1. rpc \notin Starting => Own(n)
    BY DEF TriggerInv, OwnData, Own, Trigger, Noise, Gate
  <2>2. gates[n] \in Nat /\ trignr \in Nat /\ totevents \in Nat /\ noise \in Nat
    BY DEF TriggerInv, TypeOK
  <2> QED
    BY <2>1, <2>2, ModuleFacts
       DEF TriggerInv, NothingYet, Looked, Own, Extra, Current, Holds, Trigger, Noise, Gate
<1>6. PedestalsLimited'
  BY DEF TriggerInv, PedestalsLimited, Trigger
<1>7. EveryGateAnswered'
  <2>1. trignr \in Nat /\ totevents \in Nat /\ noise \in Nat
    BY DEF TriggerInv, TypeOK
  <2>2. ASSUME rpc' \notin Starting, NEW n \in Modules
        PROVE  (Extra(n) \in (IF n = Tdc THEN 0 ELSE -noise) .. noise)'
    <3>1. gates[n] \in Nat
      BY DEF TriggerInv, TypeOK
    <3>2. rpc \notin Starting => Extra(n) \in (IF n = Tdc THEN 0 ELSE -noise) .. noise
      BY DEF TriggerInv, EveryGateAnswered
    <3> QED
      BY <2>1, <2>2, <3>1, <3>2 DEF TriggerInv, NothingYet, Looked, Extra, Trigger, Noise, Gate
  <2>3. rpc' \notin Starting => (0 <= Skipped /\ Skipped <= IF abort_run THEN 2 ELSE 0)'
    BY <2>1 DEF TriggerInv, NothingYet, EveryGateAnswered, ThrownAway, Trigger, Noise, Gate
  <2> QED
    BY <2>2, <2>3 DEF EveryGateAnswered
<1>8. Compared'
  BY DEF TriggerInv, Looked, Compared, Trigger
<1>9. ThrownAway'
  BY DEF TriggerInv, ThrownAway, Trigger
<1>10. SlipsTold'
  <2>1. gates[Tdc] \in Nat /\ noise \in Nat /\ CounterSize \in Nat
    BY ModuleFacts, TriggerAssumption DEF TriggerInv, TypeOK
  <2>2. noise' = 0 => noise = 0 /\ slipped' = slipped
    BY <2>1 DEF Trigger, Noise, Gate
  <2>3. gates'[Tdc] >= gates[Tdc] /\ gates'[Tdc] \in Nat
    BY <2>1, ModuleFacts DEF Trigger, Noise, Gate
  <2> QED
    BY <2>1, <2>2, <2>3 DEF TriggerInv, SlipsTold
<1> QED
  BY <1>1, <1>2, <1>3, <1>4, <1>5, <1>6, <1>7, <1>8, <1>9, <1>10 DEF TriggerInv

\* A second input comes up while it is let in.
LEMMA CoincidenceKeeps ==
  ASSUME TriggerInv, NEW kind \in Inputs, Coincidence(kind)
  PROVE  TriggerInv'
<1> USE DEF Pending, Skipped, SkippedMost, Places, Starting, Looking, Handling, Inputs, vars,
            logic, modules, world, counters, history, Goto, Unlocked
<1>1. TypeOK'
  BY DEF TriggerInv, TypeOK, Coincidence
<1>2. NothingYet'
  BY ModuleFacts DEF TriggerInv, TypeOK, NothingYet, Holds, Coincidence
<1>3. Looked'
  BY DEF TriggerInv, Looked, Coincidence
<1>4. LetIn'
  BY DEF TriggerInv, LetIn, Coincidence
<1>5. OwnData'
  BY DEF TriggerInv, TypeOK, Looked, OwnData, Extra, Current, Holds, Coincidence
<1>6. PedestalsLimited'
  BY DEF TriggerInv, PedestalsLimited, Coincidence
<1>7. EveryGateAnswered'
  BY DEF TriggerInv, TypeOK, Looked, EveryGateAnswered, Extra, Coincidence
<1>8. Compared'
  BY DEF TriggerInv, TypeOK, Compared, Coincidence
<1>9. ThrownAway'
  BY DEF TriggerInv, ThrownAway, Coincidence
<1>10. SlipsTold'
  BY DEF TriggerInv, TypeOK, SlipsTold, Coincidence
<1> QED
  BY <1>1, <1>2, <1>3, <1>4, <1>5, <1>6, <1>7, <1>8, <1>9, <1>10 DEF TriggerInv

-------------------------------------------------------------------------------
\* The invariant holds at the start ...
LEMMA TriggerInvInit == Init => TriggerInv
<1> SUFFICES ASSUME Init
             PROVE  TriggerInv
  OBVIOUS
<1> USE DEF Init, Pending, Skipped, SkippedMost, Places, Starting, Looking, Handling, Inputs
<1>1. TypeOK
  <2>1. buffer \in [Modules -> Seq(Nat)]
    <3>1. {<<>>, <<0>>} \subseteq Seq(Nat)
      BY SMT
    <3> QED
      BY <3>1
  <2>2. inputs \in SUBSET Inputs /\ trigmask \in SUBSET Inputs
    OBVIOUS
  <2>3. doubletrig \in 0 .. events /\ {trignr, totevents, events, pedevents} \subseteq Nat
    OBVIOUS
  <2>4. gates \in [Modules -> Nat] /\ converting \in [Modules -> Nat]
    OBVIOUS
  <2>5. at \in Modules
    BY ModuleFacts
  <2> QED
    BY <2>1, <2>2, <2>3, <2>4, <2>5 DEF TypeOK
<1>2. NothingYet /\ Looked /\ OwnData
  BY DEF NothingYet, Looked, OwnData
<1>3. LetIn
  BY DueFacts DEF LetIn
<1>4. PedestalsLimited
  BY DueFacts, QuotaNat DEF PedestalsLimited
<1>5. EveryGateAnswered /\ Compared /\ SlipsTold /\ ThrownAway
  BY DEF EveryGateAnswered, Compared, SlipsTold, ThrownAway
<1> QED
  BY <1>1, <1>2, <1>3, <1>4, <1>5 DEF TriggerInv

\* ... and every step keeps it.
LEMMA TriggerInvStep == TriggerInv /\ [Next]_vars => TriggerInv'
<1> SUFFICES ASSUME TriggerInv, [Next]_vars
             PROVE  TriggerInv'
  OBVIOUS
<1>1. CASE SetVetoes
  BY <1>1, SetVetoesKeeps
<1>2. CASE myReadOutInit
  BY <1>2, myReadOutInitKeeps
<1>3. CASE FirstSpill
  BY <1>3, FirstSpillKeeps
<1>4. CASE IsDataReady
  BY <1>4, IsDataReadyKeeps
<1>5. CASE ReadBeam
  BY <1>5, ReadBeamKeeps
<1>6. CASE ReadPed
  BY <1>6, ReadPedKeeps
<1>7. CASE StillReady
  BY <1>7, StillReadyKeeps
<1>8. CASE GetEvent
  BY <1>8, GetEventKeeps
<1>9. CASE ReadEvent
  BY <1>9, ReadEventKeeps
<1>10. CASE CountEvent
  BY <1>10, CountEventKeeps
<1>11. CASE myReadOutArm
  BY <1>11, myReadOutArmKeeps
<1>12. CASE FollowRatio
  BY <1>12, FollowRatioKeeps
<1>13. CASE unlockTrigger
  BY <1>13, unlockTriggerKeeps
<1>14. CASE Checked
  BY <1>14, CheckedKeeps
<1>15. CASE checkEvntCntrs
  BY <1>15, checkEvntCntrsKeeps
<1>16. CASE NextSpill
  BY <1>16, NextSpillKeeps
<1>17. CASE EnableTriggers
  BY <1>17, EnableTriggersKeeps
<1>18. CASE GiveUp
  BY <1>18, GiveUpKeeps
<1>19. ASSUME NEW m \in Modules, Convert(m)
       PROVE  TriggerInv'
  BY <1>19, ConvertKeeps
<1>20. ASSUME NEW seen \in SUBSET Modules \ {{}}, SpuriousGate(seen)
       PROVE  TriggerInv'
  BY <1>20, SpuriousGateKeeps
<1>21. CASE Spill
  BY <1>21, SpillKeeps
<1>22. CASE Abort
  BY <1>22, AbortKeeps
<1>23. ASSUME NEW kinds \in SUBSET Inputs \ {{}}, NEW missing \in SUBSET (Modules \ {Tdc}),
              Trigger(kinds, missing)
       PROVE  TriggerInv'
  BY <1>23, TriggerKeeps
<1>24. ASSUME NEW kind \in Inputs, Coincidence(kind)
       PROVE  TriggerInv'
  BY <1>24, CoincidenceKeeps
<1>25. CASE UNCHANGED vars
  <2> USE <1>25 DEF vars, logic, modules, world, counters, history
  <2>1. (TypeOK /\ NothingYet /\ Looked /\ LetIn)'
    BY DEF TriggerInv, TypeOK, NothingYet, Looked, LetIn, Due, maxpedevts, lrint, Holds
  <2>2. (OwnData /\ SlipsTold /\ Compared)'
    BY DEF TriggerInv, OwnData, SlipsTold, Compared, Extra, Current, Holds, Pending, Skipped
  <2>3. (PedestalsLimited /\ EveryGateAnswered /\ ThrownAway)'
    BY DEF TriggerInv, PedestalsLimited, EveryGateAnswered, ThrownAway, Extra, Pending, Skipped,
           SkippedMost, Due, maxpedevts, lrint
  <2> QED
    BY <2>1, <2>2, <2>3 DEF TriggerInv
<1> QED
  BY <1>1, <1>2, <1>3, <1>4, <1>5, <1>6, <1>7, <1>8, <1>9, <1>10, <1>11, <1>12,
     <1>13, <1>14, <1>15, <1>16, <1>17, <1>18, <1>19, <1>20, <1>21, <1>22, <1>23, <1>24,
     <1>25
  DEF Next, Readout, IsTriggerPresent, HandleTrigger

-------------------------------------------------------------------------------
\* Every reachable state of the readout and the trigger hardware satisfies the
\* inductive invariant.
THEOREM TriggerInvariant == Spec => []TriggerInv
BY TriggerInvInit, TriggerInvStep, PTL DEF Spec

\* The variables keep their types: no counter becomes negative.
THEOREM TriggerTyped == Spec => []TypeOK
<1>1. TriggerInv => TypeOK
  BY DEF TriggerInv
<1> QED
  BY <1>1, TriggerInvariant, PTL

\* Pedestals are let in exactly while they are due and the quota is open, and never
\* exceed the ratio by more than one.
THEOREM PedestalsAreFollowed == Spec => []PedestalsFollowRatio
<1>1. TriggerInv => PedestalsFollowRatio
  BY DEF TriggerInv, LetIn, PedestalsFollowRatio, PedestalsEnabled, Starting
<1> QED
  BY <1>1, TriggerInvariant, PTL

\* Every gate is answered once, is pending, or is noise, and SIGINT costs at most two
\* triggers.
THEOREM GatesAreAnswered == Spec => []EveryGateAnswered
<1>1. TriggerInv => EveryGateAnswered
  BY DEF TriggerInv
<1> QED
  BY <1>1, TriggerInvariant, PTL

\* A module gives an event the data of another gate only after it counted a gate too
\* many, or as a QDC that missed one or answered too late; without noise none does.
THEOREM DataAreMatched == Spec => []DataMatchTriggers
<1>1. TriggerInv => DataMatchTriggers
  <2> SUFFICES ASSUME TriggerInv
               PROVE  DataMatchTriggers
    OBVIOUS
  <2>1. ASSUME NEW m \in mixed, m \notin slipped \ {Tdc}
        PROVE  rpc \notin Starting /\ gates[m] > trignr + Pending /\ Extra(m) >= 1
               /\ m \in Modules
    <3>1. rpc \notin Starting /\ m \in Modules
      BY <2>1 DEF TriggerInv, TypeOK, NothingYet
    <3>2. Extra(m) >= 1
      BY <2>1, <3>1 DEF TriggerInv, OwnData
    <3> QED
      BY <3>1, <3>2 DEF TriggerInv, TypeOK, Extra, Pending
  <2>2. ASSUME noise = 0
        PROVE  mixed = {}
    <3>1. slipped \ {Tdc} = {}
      BY <2>2 DEF TriggerInv, SlipsTold
    <3>2. ASSUME NEW m \in mixed
          PROVE  FALSE
      <4>1. Extra(m) \in (IF m = Tdc THEN 0 ELSE -noise) .. noise /\ Extra(m) >= 1
        BY <2>1, <3>1, <3>2 DEF TriggerInv, EveryGateAnswered
      <4> QED
        BY <2>2, <4>1
    <3> QED
      BY <3>2
  <2> QED
    BY <2>1, <2>2 DEF TriggerInv, SlipsTold, DataMatchTriggers
<1> QED
  BY <1>1, TriggerInvariant, PTL

\* The alarm between spills tells of mixed data, but not of those of a QDC that
\* answered too late, and only of things that happened, until the counters wrap.
THEOREM AlarmIsRight == Spec => []AlarmTells
<1>1. TriggerInv => AlarmTells
  <2> SUFFICES ASSUME TriggerInv, rpc = "wait_next"
               PROVE  /\ \A m \in mixed \ (slipped \ {Tdc}) :
                           gates[m] - totevents < CounterSize => alarm
                      /\ alarm => noise > 0 \/ Skipped > 0 \/ locked \/ totevents >= CounterSize
    BY DEF AlarmTells
  <2>1. mixed \subseteq Modules /\ Tdc \in Modules
    BY ModuleFacts DEF TriggerInv, TypeOK
  <2> QED
    BY <2>1 DEF TriggerInv, Compared
<1> QED
  BY <1>1, TriggerInvariant, PTL
================================================================================
