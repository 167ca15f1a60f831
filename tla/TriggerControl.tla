---------------------------- MODULE TriggerControl ----------------------------
(***************************************************************************)
(* The readout and the trigger hardware (isTriggerPresent, getEvent,       *)
(* handle_trigger, check_and_handle_event and the spill loop of            *)
(* myReadOut.cpp): which triggers are let in, which event each one         *)
(* becomes, and what the event counters of the modules tell.  FIFOs and    *)
(* their locks are those of DaqRun.                                        *)
(*                                                                         *)
(* The trigger logic "goes auto-vetoed after any trigger" and stays so     *)
(* until unlockTrigger.  A gate is what makes the modules convert: the TDC *)
(* and the QDCs each count it, convert it and keep its data on their own.  *)
(* Noise is a gate that no trigger made, a gate that a QDC does not see, a *)
(* QDC that answers too late, bad data of the TDC, or a "data ready" that  *)
(* is not seen.                                                            *)
(***************************************************************************)
EXTENDS Integers, Sequences

CONSTANTS RatioBeam, RatioPed,  \* phypedratio is RatioBeam / RatioPed
          maxevts,              \* beam events the run is to take (MAXEVT)
          NQdc,                 \* the number of QDCs (n_v792)
          CounterSize,          \* 2^24: the modules count events modulo this
          MaxGates,             \* bound: gates of the run
          MaxNoise              \* bound: noise of the run

ASSUME TriggerAssumption == /\ RatioBeam \in Nat \ {0}
                            /\ RatioPed \in Nat \ {0}
                            /\ maxevts \in Nat
                            /\ NQdc \in Nat
                            /\ CounterSize \in Nat \ {0}
                            /\ MaxGates \in Nat
                            /\ MaxNoise \in Nat

VARIABLES veto,        \* output 15: all triggers are vetoed
          pedveto,     \* output 14: pedestal triggers are vetoed
          locked,      \* the trigger logic waits for unlockTrigger
          inputs,      \* the trigger inputs that are up: "beam" (T1T2), "ped"
          trigger,     \* the gate of the last trigger
          strobes,     \* the gates so far; a gate is named by its number
          gates,       \* the gates each module has counted since it was reset
          converting,  \* the gate each module is converting, or 0
          buffer,      \* the gates whose data are ready in each module
          noise,       \* noise so far
          inSpill,     \* the spill signal of the accelerator
          abort_run,   \* SIGINT came
          rpc,         \* where the readout is
          site,        \* which of its calls of check_and_handle_event it is in
          at,          \* the module it reads
          trigmask,    \* what it has read from the trigger inputs
          trignr, events, pedevents, doubletrig, totevents,  \* its counters
          ped_enabled, \* pedestals have not reached their quota
          mixed,       \* the modules that gave an event the data of another gate
          slipped,     \* the modules that missed a gate or gave an event no data
          alarm        \* checkEvntCntrs reported a mismatch when last called

logic    == <<veto, pedveto, locked, inputs, trigger>>
modules  == <<strobes, gates, converting, buffer>>
world    == <<noise, inSpill, abort_run>>
counters == <<trignr, events, pedevents, doubletrig, totevents, ped_enabled>>
history  == <<mixed, slipped, alarm>>
vars     == <<logic, modules, world, rpc, site, at, trigmask, counters, history>>

Inputs == {"beam", "ped"}

\* The modules in the order in which they are read: the TDC, then the QDCs.
Modules == 0 .. NQdc
Tdc     == 0

Starting == {"veto", "reset", "arm_first", "unlock_first"}
Looking  == {"look", "beam", "ped", "again", "beam_again"}
Handling == {"busy", "read", "count", "arm", "ratio", "unlock"}
Places   == Starting \union Looking \union Handling
            \union {"wait_spill", "checked", "counters", "wait_next", "relock", "done"}

\* events >= phypedratio * pedevents.
Due(e, p) == RatioPed * e >= RatioBeam * p

\* n / d rounded to the nearest integer, halves to the even one.
lrint(n, d) == LET q == n \div d
                   r == 2 * (n % d)
               IN  IF r < d \/ (r = d /\ q % 2 = 0) THEN q ELSE q + 1

maxpedevts == lrint(maxevts * RatioPed, RatioBeam)

\* initV513 has just cleared the outputs; a trigger and data of an earlier run may
\* be waiting.
Init == /\ veto = FALSE /\ pedveto = FALSE
        /\ locked \in BOOLEAN
        /\ inputs = IF locked THEN {"beam"} ELSE {}
        /\ trigger = 0 /\ strobes = 0
        /\ gates = [m \in Modules |-> 0]
        /\ converting = [m \in Modules |-> 0]
        /\ buffer \in [Modules -> {<<>>, <<0>>}]
        /\ noise = 0
        /\ inSpill \in BOOLEAN
        /\ abort_run = FALSE
        /\ rpc = "veto" /\ site = "loop" /\ at = Tdc
        /\ trigmask = {}
        /\ trignr = 0 /\ events = 0 /\ pedevents = 0 /\ doubletrig = 0 /\ totevents = 0
        /\ ped_enabled = TRUE
        /\ mixed = {} /\ slipped = {} /\ alarm = FALSE

-------------------------------------------------------------------------------
(***************************************************************************)
(* The trigger logic, the modules and the world.                           *)
(***************************************************************************)

\* One more piece of noise.
Noise == /\ rpc \notin {"veto", "reset"}
         /\ noise < MaxNoise
         /\ noise' = noise + 1

\* The modules in seen take a gate, which none can while one of them converts.
Gate(seen) ==
  /\ strobes < MaxGates
  /\ \A m \in Modules : converting[m] = 0
  /\ strobes' = strobes + 1
  /\ gates' = [m \in Modules |-> IF m \in seen THEN gates[m] + 1 ELSE gates[m]]
  /\ converting' = [m \in Modules |-> IF m \in seen THEN strobes + 1 ELSE 0]

\* A trigger of one kind or of both makes a gate, which the QDCs in missing do not see,
\* and vetoes further ones.
Trigger(kinds, missing) ==
  /\ ~veto /\ ~locked
  /\ "ped" \in kinds => ~pedveto
  /\ locked' = TRUE
  /\ inputs' = kinds
  /\ trigger' = strobes + 1
  /\ Gate(Modules \ missing)
  /\ \/ missing = {} /\ UNCHANGED noise
     \/ missing # {} /\ Noise
  /\ slipped' = slipped \union missing
  /\ UNCHANGED <<veto, pedveto, buffer, inSpill, abort_run, rpc, site, at, trigmask, counters,
                 mixed, alarm>>

\* The other input comes up a moment later.
Coincidence(kind) ==
  /\ locked /\ inputs # {}
  /\ kind = "ped" => ~pedveto
  /\ inputs' = inputs \union {kind}
  /\ UNCHANGED <<veto, pedveto, locked, trigger, modules, world, rpc, site, at, trigmask,
                 counters, history>>

Convert(m) ==
  /\ converting[m] # 0
  /\ buffer' = [buffer EXCEPT ![m] = Append(@, converting[m])]
  /\ converting' = [converting EXCEPT ![m] = 0]
  /\ UNCHANGED <<logic, strobes, gates, world, rpc, site, at, trigmask, counters, history>>

\* A gate that is no trigger.
SpuriousGate(seen) ==
  /\ Noise
  /\ Gate(seen)
  /\ UNCHANGED <<logic, buffer, inSpill, abort_run, rpc, site, at, trigmask, counters, history>>

Spill == /\ inSpill' = ~inSpill
         /\ UNCHANGED <<logic, modules, noise, abort_run, rpc, site, at, trigmask, counters,
                        history>>

Abort == /\ ~abort_run
         /\ abort_run' = TRUE
         /\ UNCHANGED <<logic, modules, noise, inSpill, rpc, site, at, trigmask, counters, history>>

-------------------------------------------------------------------------------
(***************************************************************************)
(* The readout: start of the run.                                          *)
(***************************************************************************)
Goto(from, to) == rpc = from /\ rpc' = to

\* What unlockTrigger does to the trigger logic.  What the readout has read from the
\* inputs is forgotten with the call of check_and_handle_event that it ends.
Unlocked == locked' = FALSE /\ inputs' = {} /\ trigmask' = {}

\* Mutant of SetVetoes: disableTriggers is forgotten.
SetVetoesPed ==
  /\ Goto("veto", "reset")
  /\ pedveto' = TRUE
  /\ UNCHANGED <<veto, locked, inputs, trigger, modules, world, site, at, trigmask, counters,
                 history>>

\* disableTriggers and disablePedTriggers.
SetVetoes ==
  /\ Goto("veto", "reset")
  /\ veto' = TRUE /\ pedveto' = TRUE
  /\ UNCHANGED <<locked, inputs, trigger, modules, world, site, at, trigmask, counters, history>>

\* myReadOutInit: the modules' counters and data are reset.
myReadOutInit ==
  /\ Goto("reset", "arm_first")
  /\ gates' = [m \in Modules |-> 0]
  /\ converting' = [m \in Modules |-> 0]
  /\ buffer' = [m \in Modules |-> <<>>]
  /\ UNCHANGED <<logic, strobes, world, site, at, trigmask, counters, history>>

\* The data of all modules are cleared, at the start and after every event.  What a
\* module is still converting is not.
myReadOutArm ==
  /\ Goto("arm_first", "unlock_first") \/ Goto("arm", "ratio")
  /\ buffer' = [m \in Modules |-> <<>>]
  /\ UNCHANGED <<logic, strobes, gates, converting, world, site, at, trigmask, counters, history>>

\* unlockTrigger, at the start and after every event.
unlockTrigger ==
  /\ Goto("unlock_first", "wait_spill") \/ Goto("unlock", "checked")
  /\ Unlocked
  /\ UNCHANGED <<veto, pedveto, trigger, modules, world, site, at, counters, history>>

\* A spill, or SIGINT, opens the triggers.
FirstSpill ==
  /\ Goto("wait_spill", "look")
  /\ inSpill \/ abort_run
  /\ veto' = FALSE
  /\ UNCHANGED <<pedveto, locked, inputs, trigger, modules, world, site, at, trigmask, counters,
                 history>>

-------------------------------------------------------------------------------
(***************************************************************************)
(* isTriggerPresent: five reads of the hardware.                           *)
(***************************************************************************)
\* Mutants of IsDataReady: only the inputs tell of a trigger; all modules are waited for.
IsDataReadyBlind ==
  /\ Goto("look", "beam")
  /\ UNCHANGED <<logic, modules, world, site, at, trigmask, counters, history>>

IsDataReadyAll ==
  /\ \/ (\E m \in Modules : buffer[m] = <<>>) /\ Goto("look", "checked")
     \/ (\A m \in Modules : buffer[m] # <<>>) /\ Goto("look", "beam")
  /\ UNCHANGED <<logic, modules, world, site, at, trigmask, counters, history>>

\* Only the TDC is asked.
IsDataReady ==
  /\ \/ buffer[Tdc] = <<>> /\ Goto("look", "checked")
     \/ buffer[Tdc] # <<>> /\ Goto("look", "beam")
  /\ UNCHANGED <<logic, modules, world, site, at, trigmask, counters, history>>

\* isT1T2Trig, before and after isPedTrig.
ReadBeam ==
  /\ \/ Goto("beam", "ped") /\ trigmask' = inputs \intersect {"beam"}
     \/ Goto("beam_again", "busy") /\ trigmask' = {"ped"} \union (inputs \intersect {"beam"})
  /\ trignr' = IF rpc = "beam_again" THEN trignr + 1 ELSE trignr
  /\ UNCHANGED <<logic, modules, world, site, at, events, pedevents, doubletrig, totevents,
                 ped_enabled, history>>

\* isPedTrig.  Without any input the data are left where they are.
ReadPed ==
  /\ trigmask' = trigmask \union (inputs \intersect {"ped"})
  /\ IF trigmask' = {} THEN Goto("ped", "checked") ELSE Goto("ped", "again")
  /\ UNCHANGED <<logic, modules, world, site, at, counters, history>>

\* The TDC has data on the second look.
StillReady ==
  /\ buffer[Tdc] # <<>>
  /\ IF "ped" \in trigmask THEN Goto("again", "beam_again") ELSE Goto("again", "busy")
  /\ trignr' = IF "ped" \in trigmask THEN trignr ELSE trignr + 1
  /\ UNCHANGED <<logic, modules, world, site, at, trigmask, events, pedevents, doubletrig,
                 totevents, ped_enabled, history>>

\* It has none, which takes noise, and the trigger is given up.
GiveUp ==
  /\ Goto("again", "checked")
  /\ \/ buffer[Tdc] = <<>> /\ UNCHANGED noise
     \/ Noise
  /\ Unlocked
  /\ UNCHANGED <<veto, pedveto, trigger, modules, inSpill, abort_run, site, at, counters,
                 history>>

-------------------------------------------------------------------------------
(***************************************************************************)
(* handle_trigger and the rest of check_and_handle_event.                  *)
(***************************************************************************)

\* getEvent waits for the busy input (what is wired to it is not in the code: a QDC
\* may still be converting), and reads nothing once SIGINT came.
GetEvent ==
  /\ \/ abort_run /\ Goto("busy", "arm")
     \/ ~abort_run /\ Goto("busy", "read")
  /\ UNCHANGED <<logic, modules, world, site, at, trigmask, counters, history>>

\* The counter of the TDC is 0xffffff when it has counted a multiple of 2^24 gates.
CounterValid == gates[Tdc] % CounterSize # 0

\* The module's oldest data go to the event.
Answers(m) ==
  /\ buffer[m] # <<>>
  /\ m = Tdc => CounterValid
  /\ buffer' = [buffer EXCEPT ![m] = Tail(@)]
  /\ mixed' = IF Head(buffer[m]) = trigger THEN mixed ELSE mixed \union {m}
  /\ UNCHANGED <<noise, slipped>>

\* The module gives the event no data: the TDC's counter is not valid or its data are
\* bad (0xffffffff); the module has no data, or is still converting them when the 100
\* polls are over.
GivesNothing(m) ==
  /\ \/ m = Tdc /\ (IF CounterValid THEN Noise ELSE UNCHANGED noise)
     \/ m # Tdc /\ buffer[m] = <<>> /\ (IF converting[m] # 0 THEN Noise ELSE UNCHANGED noise)
  /\ slipped' = slipped \union {m}
  /\ UNCHANGED <<buffer, mixed>>

\* myReadEvent reads one module after the other; myWriteEvent follows the last.
ReadEvent ==
  /\ IF at < NQdc THEN rpc = "read" /\ at' = at + 1 /\ UNCHANGED rpc
     ELSE Goto("read", "count") /\ at' = Tdc
  /\ Answers(at) \/ GivesNothing(at)
  /\ UNCHANGED <<logic, strobes, gates, converting, inSpill, abort_run, site, trigmask,
                 counters, alarm>>

\* Mutant of CountEvent: doubletrig counts every pedestal input.
CountEventBoth ==
  /\ Goto("count", "arm")
  /\ IF "beam" \in trigmask
     THEN events' = events + 1 /\ UNCHANGED <<pedevents, ped_enabled, pedveto>>
     ELSE /\ pedevents' = pedevents + 1
          /\ pedveto' = (pedveto \/ pedevents' >= maxpedevts)
          /\ ped_enabled' = (ped_enabled /\ pedevents' < maxpedevts)
          /\ UNCHANGED events
  /\ doubletrig' = IF "ped" \in trigmask THEN doubletrig + 1 ELSE doubletrig
  /\ totevents' = totevents + 1
  /\ UNCHANGED <<veto, locked, inputs, trigger, modules, world, site, at, trigmask, trignr,
                 history>>

\* The event is counted; a pedestal that meets the quota is the last.
CountEvent ==
  /\ Goto("count", "arm")
  /\ IF "beam" \in trigmask
     THEN /\ events' = events + 1
          /\ doubletrig' = IF "ped" \in trigmask THEN doubletrig + 1 ELSE doubletrig
          /\ UNCHANGED <<pedevents, ped_enabled, pedveto>>
     ELSE /\ pedevents' = pedevents + 1
          /\ pedveto' = (pedveto \/ pedevents' >= maxpedevts)
          /\ ped_enabled' = (ped_enabled /\ pedevents' < maxpedevts)
          /\ UNCHANGED <<events, doubletrig>>
  /\ totevents' = totevents + 1
  /\ UNCHANGED <<veto, locked, inputs, trigger, modules, world, site, at, trigmask, trignr,
                 history>>

\* Mutant of FollowRatio: the pedestal that was just taken is left out.
FollowRatioLate ==
  /\ Goto("ratio", "unlock")
  /\ pedveto' = IF "beam" \in trigmask
                THEN pedveto /\ ~(ped_enabled /\ Due(events, pedevents))
                ELSE pedveto \/ ~Due(events, pedevents - 1)
  /\ UNCHANGED <<veto, locked, inputs, trigger, modules, world, site, at, trigmask, counters,
                 history>>

\* Pedestals are enabled after a beam event and vetoed after a pedestal.
FollowRatio ==
  /\ Goto("ratio", "unlock")
  /\ pedveto' = IF "beam" \in trigmask
                THEN pedveto /\ ~(ped_enabled /\ Due(events, pedevents))
                ELSE pedveto \/ ~Due(events, pedevents)
  /\ UNCHANGED <<veto, locked, inputs, trigger, modules, world, site, at, trigmask, counters,
                 history>>

-------------------------------------------------------------------------------
(***************************************************************************)
(* The spill loop.                                                         *)
(***************************************************************************)

\* After check_and_handle_event: the loop goes on, or triggers are vetoed and a
\* last look is taken.
Checked ==
  /\ \/ site = "loop" /\ Goto("checked", "look")
     \/ site = "spill_end" /\ Goto("checked", "counters")
     \/ site = "run_end" /\ Goto("checked", "done")
  /\ site' = IF site # "loop" THEN site
             ELSE IF events >= maxevts \/ abort_run THEN "run_end"
             ELSE IF inSpill THEN "loop" ELSE "spill_end"
  /\ veto' = (veto \/ site' # "loop")
  /\ UNCHANGED <<pedveto, locked, inputs, trigger, modules, world, at, trigmask, counters,
                 history>>

\* Mutant of checkEvntCntrs: the counters of the QDCs are compared with that of the TDC.
checkEvntCntrsGates ==
  /\ IF at < NQdc THEN rpc = "counters" /\ at' = at + 1 /\ UNCHANGED rpc
     ELSE Goto("counters", "wait_next") /\ at' = Tdc
  /\ alarm' = (gates[at] # gates[Tdc] \/ (at # Tdc /\ alarm))
  /\ UNCHANGED <<logic, modules, world, site, trigmask, counters, mixed, slipped>>

\* The modules count from -1; one after the other is compared with the events.
checkEvntCntrs ==
  /\ IF at < NQdc THEN rpc = "counters" /\ at' = at + 1 /\ UNCHANGED rpc
     ELSE Goto("counters", "wait_next") /\ at' = Tdc
  /\ alarm' = (gates[at] % CounterSize # totevents \/ (at # Tdc /\ alarm))
  /\ UNCHANGED <<logic, modules, world, site, trigmask, counters, mixed, slipped>>

NextSpill ==
  /\ Goto("wait_next", "relock")
  /\ inSpill \/ abort_run
  /\ UNCHANGED <<logic, modules, world, site, at, trigmask, counters, history>>

\* After myFIFOlock.
EnableTriggers ==
  /\ Goto("relock", "look")
  /\ site' = IF abort_run THEN "run_end" ELSE "loop"
  /\ veto' = abort_run
  /\ UNCHANGED <<pedveto, locked, inputs, trigger, modules, world, at, trigmask, counters,
                 history>>

-------------------------------------------------------------------------------
IsTriggerPresent == IsDataReady \/ ReadBeam \/ ReadPed \/ StillReady

HandleTrigger == GetEvent \/ ReadEvent \/ CountEvent \/ myReadOutArm \/ FollowRatio
                 \/ unlockTrigger

Readout == \/ SetVetoes \/ myReadOutInit
           \/ FirstSpill \/ IsTriggerPresent \/ HandleTrigger
           \/ Checked \/ checkEvntCntrs \/ NextSpill \/ EnableTriggers

Next == \/ Readout \/ GiveUp
        \/ \E kinds \in SUBSET Inputs \ {{}}, missing \in SUBSET (Modules \ {Tdc}) :
             Trigger(kinds, missing)
        \/ \E kind \in Inputs : Coincidence(kind)
        \/ \E m \in Modules : Convert(m)
        \/ \E seen \in SUBSET Modules \ {{}} : SpuriousGate(seen)
        \/ Spill \/ Abort

Spec == Init /\ [][Next]_vars

(***************************************************************************)
(* Fairness: the readout runs, the modules convert, and a readout that     *)
(* polls for a spill does not miss every one.                              *)
(***************************************************************************)
FairSpec == /\ Spec
            /\ WF_vars(Readout)
            /\ WF_vars(\E m \in Modules : Convert(m))
            /\ SF_vars(FirstSpill \/ NextSpill)

-------------------------------------------------------------------------------
TypeOK == /\ veto \in BOOLEAN /\ pedveto \in BOOLEAN /\ locked \in BOOLEAN
          /\ inputs \in SUBSET Inputs /\ trigmask \in SUBSET Inputs
          /\ trigger \in Nat /\ strobes \in Nat /\ noise \in Nat
          /\ gates \in [Modules -> Nat] /\ converting \in [Modules -> Nat]
          /\ buffer \in [Modules -> Seq(Nat)]
          /\ inSpill \in BOOLEAN /\ abort_run \in BOOLEAN
          /\ rpc \in Places
          /\ site \in {"loop", "spill_end", "run_end"}
          /\ at \in Modules /\ (rpc \notin {"read", "counters"} => at = Tdc)
          /\ trignr \in Nat /\ totevents \in Nat
          /\ events \in Nat /\ pedevents \in Nat /\ doubletrig \in 0 .. events
          /\ ped_enabled \in BOOLEAN
          /\ mixed \in SUBSET Modules /\ slipped \in SUBSET Modules /\ alarm \in BOOLEAN

\* There is never more than one pedestal above the ratio, and no more than the
\* quota, except that a quota of none lets one through.
PedestalsLimited == /\ Due(events, pedevents - 1)
                    /\ pedevents <= IF maxpedevts = 0 THEN 1 ELSE maxpedevts

\* At every look for a trigger pedestals are let in exactly if they are due and the
\* quota is open, from the first beam event on.
PedestalsEnabled ==
  rpc = "look" /\ events > 0 => (~pedveto <=> ped_enabled /\ Due(events, pedevents))

\* Pedestals follow the ratio to beam events, whatever the order in which triggers
\* of both kinds come, coincide and are given up (myReadOut.cpp:601-612, 631-635).
PedestalsFollowRatio == PedestalsLimited /\ PedestalsEnabled

\* A trigger that waits for its answer.
Pending == IF locked /\ rpc \notin Handling THEN 1 ELSE 0

\* Triggers that were answered and became no event.
Skipped == trignr - totevents - IF rpc \in {"busy", "read", "count"} THEN 1 ELSE 0

\* The gates a module counted beyond those of the triggers.
Extra(m) == gates[m] - trignr - Pending

\* Every gate is a trigger that was answered once, the one that is pending, or
\* noise, which may also hide a gate from a QDC; and only SIGINT makes the readout
\* throw answered triggers away, two at most (myReadOut.cpp:552, 738, 760).
EveryGateAnswered ==
  rpc \notin Starting =>
    /\ \A m \in Modules : Extra(m) \in (IF m = Tdc THEN 0 ELSE -noise) .. noise
    /\ 0 <= Skipped /\ Skipped <= IF abort_run THEN 2 ELSE 0

\* The readout waits for the data of the TDC only (myReadOut.cpp:563, 574), and yet a
\* module gives an event the data of another gate only if it has counted a gate too
\* many, or is a QDC that missed a gate or answered too late (myV792AC.cpp:99) before.
\* Without noise no module ever does, and none gives an event nothing but the TDC, at
\* every 2^24th gate (myV775.cpp:91).
DataMatchTriggers ==
  /\ \A m \in mixed : m \in slipped \ {Tdc} \/ gates[m] > trignr + Pending
  /\ noise = 0 => /\ mixed = {}
                  /\ slipped = {} \/ (slipped = {Tdc} /\ gates[Tdc] >= CounterSize)

\* checkEvntCntrs between spills (myReadOut.cpp:755).  If a module gave an event the
\* data of another gate there is an alarm, unless it counted as many gates too many
\* as it can count, or is a QDC that missed a gate or answered too late: that one's data
\* slip without an alarm.  An alarm means noise, a trigger thrown away or still pending,
\* or a run of 2^24 events, from which on there is one at every spill.
AlarmTells ==
  rpc = "wait_next" =>
    /\ \A m \in mixed \ (slipped \ {Tdc}) : gates[m] - totevents < CounterSize => alarm
    /\ alarm => noise > 0 \/ Skipped > 0 \/ locked \/ totevents >= CounterSize

\* As long as there are spills, the trigger logic does not stay vetoed by a trigger
\* that nobody answers, except after the end of the run.
TriggersAnswered == []<>inSpill => []<>(~locked \/ rpc = "done")

-------------------------------------------------------------------------------
(***************************************************************************)
(* The inductive invariant behind the safety properties.                   *)
(***************************************************************************)

\* The module has the data of these gates and converts none.
Holds(m, data) == buffer[m] = data /\ converting[m] = 0

\* Before the first spill nothing was counted and no trigger is let in.
NothingYet ==
  /\ rpc \in Starting \union {"wait_spill"} =>
       /\ trignr = 0 /\ totevents = 0 /\ events = 0 /\ pedevents = 0
       /\ ped_enabled /\ mixed = {} /\ slipped = {} /\ site = "loop"
  /\ rpc \in {"reset", "arm_first", "unlock_first", "wait_spill"} => veto
  /\ rpc \in {"arm_first", "unlock_first"} =>
       \A m \in Modules : gates[m] <= noise /\ (gates[m] = 0 => Holds(m, <<>>))
  /\ rpc \in {"veto", "reset"} => noise = 0

\* What the readout knows at its place in check_and_handle_event: the TDC has data,
\* the trigger logic is locked, and it has read an input.
Looked ==
  /\ rpc \in (Looking \ {"look"}) \union {"busy"} => buffer[Tdc] # <<>>
  /\ rpc = "read" /\ at = Tdc => buffer[Tdc] # <<>>
  /\ rpc \in {"again", "beam_again"} \union Handling => locked /\ trigmask # {}
  /\ rpc = "ped" => trigmask \subseteq {"beam"} /\ (trigmask # {} => locked)
  /\ rpc = "beam_again" => "ped" \in trigmask
  /\ rpc \notin Starting /\ inputs # {} => locked
  /\ rpc \notin Starting /\ locked => trigger > 0
  /\ rpc \in {"counters", "wait_next", "relock"} => site = "spill_end"
  /\ site # "loop" => veto

\* Pedestals are let in only while they are due and the quota is open; what was let
\* in is handled before that changes.
LetIn ==
  /\ ped_enabled => pedevents = 0 \/ pedevents < maxpedevts
  /\ ~pedveto => ped_enabled
  /\ ~pedveto => Due(events, pedevents) \/ (rpc \in {"arm", "ratio"} /\ "beam" \notin trigmask)
  /\ events > 0 /\ ped_enabled /\ Due(events, pedevents) =>
       ~pedveto \/ rpc \in {"arm", "ratio"}
  /\ rpc \notin Starting \union {"arm", "ratio", "unlock"} /\ "ped" \in inputs => ~pedveto
  /\ rpc \in (Looking \ {"look", "beam"}) \union {"busy", "read", "count"}
        /\ "ped" \in trigmask => ~pedveto
  /\ rpc \in {"arm", "ratio"} /\ "beam" \notin trigmask /\ ped_enabled => ~pedveto

\* How many answered triggers may have been thrown away.
SkippedMost == IF ~abort_run THEN 0
               ELSE (IF site = "run_end" THEN 1 ELSE 0)
                    + (IF rpc \in {"arm", "ratio", "unlock", "checked", "counters", "wait_next",
                                   "relock", "done"} THEN 1 ELSE 0)

\* A module that counted no gate too many and missed none holds exactly the data of
\* the trigger that is pending or about to be read, until SIGINT has made the readout
\* throw a trigger away.  Data that the TDC did not give are cleared with the others.
Current(m) ==
  IF ~locked \/ rpc \in {"ratio", "unlock"} THEN Holds(m, <<>>)
  ELSE IF rpc \in {"count", "arm"} \/ (rpc = "read" /\ m < at)
  THEN Holds(m, <<>>) \/ Holds(m, <<trigger>>)
  ELSE Holds(m, <<trigger>>) \/ (buffer[m] = <<>> /\ converting[m] = trigger)

OwnData ==
  rpc \notin Starting =>
    \A m \in Modules \ (slipped \ {Tdc}) :
      \/ Extra(m) >= 1
      \/ /\ Extra(m) = 0 /\ m \notin mixed
         /\ ~abort_run \/ rpc = "read" => Current(m)

\* The modules that were compared already, in the middle of checkEvntCntrs and after it.
Compared ==
  rpc \in {"counters", "wait_next"} =>
    \A m \in Modules : m < at \/ rpc = "wait_next" =>
      /\ m \in mixed \ (slipped \ {Tdc}) /\ gates[m] - totevents < CounterSize => alarm
      /\ alarm => noise > 0 \/ Skipped > 0 \/ locked \/ totevents >= CounterSize

\* Without noise no module misses a gate, but the TDC at every 2^24th.
SlipsTold == noise = 0 => slipped = {} \/ (slipped = {Tdc} /\ gates[Tdc] >= CounterSize)

ThrownAway == rpc \notin Starting => Skipped <= SkippedMost

TriggerInv ==
  /\ TypeOK /\ NothingYet /\ Looked /\ LetIn /\ OwnData /\ SlipsTold /\ Compared
  /\ PedestalsLimited /\ EveryGateAnswered /\ ThrownAway
===============================================================================
