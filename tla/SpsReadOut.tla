------------------------------ MODULE SpsReadOut ------------------------------
(***************************************************************************)
(* The readouts of the SPS test beam of 2021, myReadOutSPS2021 and         *)
(* myReadOutNoStop: one process that writes a line for each trigger, and   *)
(* that compares the event counters of the modules with its own.  At a     *)
(* mismatch the first program ends; the second resets the modules, adds a  *)
(* fake line if every module is one event ahead, and goes on.              *)
(*                                                                         *)
(* The lines are later merged, by their numbers, with the events of FERS,  *)
(* electronics that is read out by another program.  A strobe is what      *)
(* makes all electronics take an event; strobes are numbered as FERS       *)
(* counts them.  Modules are numbered in the order in which they are read. *)
(***************************************************************************)
EXTENDS Integers, Sequences, FiniteSets

CONSTANTS NQdc, NTdc,  \* QDC and TDC modules
          Fraction,    \* beam triggers for each pedestal: 10 in the code
          MaxStrobes,  \* bound: strobes of the run
          MaxNoise     \* bound: spurious strobes, gates and late data

ASSUME SpsAssumption == /\ NQdc \in Nat \ {0} /\ NTdc \in Nat /\ NQdc + NTdc >= 2
                        /\ Fraction \in Nat \ {0}
                        /\ MaxStrobes \in Nat /\ MaxNoise \in Nat

VARIABLES program,    \* which of the two programs runs
          veto,       \* TRIGGER_DISA_ALL
          pedveto,    \* PEDESTAL_VETO
          locked,     \* the trigger logic waits for unlockTrigger
          inputs,     \* the trigger mask: "beam", "ped"
          strobes,    \* strobes so far, the event number of FERS
          count,      \* gates of each module since its last reset
          buffer,     \* data in each module: the strobe and the count of each gate
          noise,      \* noise so far
          abort_run, pause_run,  \* SIGINT and SIGUSR1
          pc, at,     \* where the program is, and at which module
          running, exit_now,
          beamcts, pedcts,  \* Tcts[0] and Tcts[1]
          got, nev,   \* readEvent: the data and the counter of each module
          offset,     \* numevofs and the modules' eventCounterOffset
          trignum,
          lines,      \* the data file
          base,       \* history: the last strobe that a line stands for
          disturbed,  \* history: there was noise since the last reset
          lucky       \* history: no noise that the fake line is not meant for

trigger_logic == <<veto, pedveto, locked, inputs>>
modules == <<strobes, count, buffer>>
signals == <<abort_run, pause_run>>
luck    == <<noise, disturbed, lucky>>
control == <<pc, at, running, exit_now>>
tallies == <<beamcts, pedcts>>
event   == <<got, nev>>
file    == <<offset, trignum, lines, base>>
vars    == <<program, trigger_logic, modules, signals, luck, control, tallies, event, file>>

Programs == {"SPS2021", "NoStop"}
Modules  == 1 .. NQdc + NTdc
Qdcs     == 1 .. NQdc
Inputs   == {"beam", "ped"}
NoData   == [strobe |-> 0, num |-> -1]  \* a module that did not answer in time

Init == /\ program \in Programs
        /\ veto = FALSE /\ pedveto = FALSE /\ locked = FALSE /\ inputs = {}
        /\ strobes = 0
        /\ count = [m \in Modules |-> 0]
        /\ buffer = [m \in Modules |-> <<>>]
        /\ noise = 0 /\ disturbed = FALSE /\ lucky = TRUE
        /\ abort_run = FALSE /\ pause_run = FALSE
        /\ pc = "top" /\ at = 1 /\ running = TRUE /\ exit_now = FALSE
        /\ beamcts = 0 /\ pedcts = 0
        /\ got = [m \in Modules |-> NoData]
        /\ nev = [m \in Modules |-> 0]
        /\ offset = 0 /\ trignum = 0
        /\ lines = <<>> /\ base = 0

-------------------------------------------------------------------------------
(***************************************************************************)
(* readEvent's findings.  The counters begin at -1.                        *)
(***************************************************************************)
\* Mutant of Wrong: the first module is asked for all.
WrongFirst == {m \in Modules : nev[1] # trignum}

Wrong == {m \in Modules : nev[m] # trignum}
Empty == {q \in Qdcs : got[q] = NoData}

\* The event number in the trailer of the last QDC that answered.
WrongTrailer == \E q \in Qdcs \ Empty : /\ \A r \in Qdcs \ Empty : r <= q
                                        /\ offset + got[q].num # trignum

Failed == Wrong # {} \/ Empty # {} \/ WrongTrailer

\* retcode 0xff: every module is ahead, the first one by one event.
Spurious == Wrong = Modules /\ nev[1] = trignum + 1

-------------------------------------------------------------------------------
(***************************************************************************)
(* The trigger logic, the modules and the operator.                        *)
(***************************************************************************)

\* The modules in S take an event.
Gate(S, n) ==
  /\ buffer' = [m \in Modules |-> IF m \in S
                                  THEN Append(buffer[m], [strobe |-> n, num |-> count[m]])
                                  ELSE buffer[m]]
  /\ count' = [m \in Modules |-> IF m \in S THEN count[m] + 1 ELSE count[m]]

Trigger(kinds) ==
  /\ ~veto /\ ~locked /\ strobes < MaxStrobes
  /\ "ped" \in kinds => ~pedveto
  /\ locked' = TRUE /\ inputs' = kinds
  /\ strobes' = strobes + 1
  /\ Gate(Modules, strobes + 1)
  /\ UNCHANGED <<program, veto, pedveto, signals, luck, control, tallies, event, file>>

Noise(bad) == /\ noise < MaxNoise
              /\ noise' = noise + 1
              /\ disturbed' = TRUE
              /\ lucky' = (lucky /\ ~disturbed /\ ~bad)

\* A strobe without a trigger.  It is not to come while counters are read.
SpuriousStrobe ==
  /\ strobes < MaxStrobes
  /\ Noise(pc = "counters" /\ at > 1)
  /\ strobes' = strobes + 1
  /\ Gate(Modules, strobes + 1)
  /\ UNCHANGED <<program, trigger_logic, signals, control, tallies, event, file>>

\* A gate that only one module sees.
SpuriousGate(m) ==
  /\ Noise(FALSE)
  /\ Gate({m}, strobes)
  /\ UNCHANGED <<program, trigger_logic, strobes, signals, control, tallies, event, file>>

SIGINT == /\ ~abort_run
          /\ abort_run' = TRUE
          /\ UNCHANGED <<program, trigger_logic, modules, pause_run, luck, control, tallies,
                         event, file>>

SIGUSR1 == /\ pause_run' = ~pause_run
           /\ UNCHANGED <<program, trigger_logic, modules, abort_run, luck, control, tallies,
                          event, file>>

-------------------------------------------------------------------------------
(***************************************************************************)
(* The main loop.                                                          *)
(***************************************************************************)
Goto(from, to) == pc = from /\ pc' = to

\* Mutant of Top: a paused run does not look for SIGINT.
TopRunning ==
  /\ Goto("top", "look")
  /\ exit_now' = (exit_now \/ (abort_run /\ ~pause_run))
  /\ running' = ~pause_run
  /\ veto' = IF ~running /\ ~pause_run THEN FALSE
             ELSE veto \/ exit_now' \/ (running /\ pause_run)
  /\ UNCHANGED <<program, pedveto, locked, inputs, modules, signals, luck, at, tallies, event,
                 file>>

\* SIGINT vetoes triggers, and so does SIGUSR1; the next SIGUSR1 lets them in again.
Top ==
  /\ Goto("top", "look")
  /\ exit_now' = (exit_now \/ abort_run)
  /\ running' = ~pause_run
  /\ veto' = IF ~running /\ ~pause_run THEN FALSE
             ELSE veto \/ exit_now' \/ (running /\ pause_run)
  /\ UNCHANGED <<program, pedveto, locked, inputs, modules, signals, luck, at, tallies, event,
                 file>>

NoTrigger ==
  /\ Goto("look", "end")
  /\ ~locked
  /\ UNCHANGED <<program, trigger_logic, modules, signals, luck, at, running, exit_now, tallies,
                 event, file>>

\* Mutant of IsTrig: pedestals are let in at the fraction, not below it.
IsTrigAtMost ==
  /\ Goto("look", "data")
  /\ locked
  /\ beamcts' = beamcts + IF "beam" \in inputs THEN 1 ELSE 0
  /\ pedcts' = pedcts + IF "ped" \in inputs THEN 1 ELSE 0
  /\ pedveto' = ~(pedcts' * Fraction <= beamcts')
  /\ UNCHANGED <<program, veto, locked, inputs, modules, signals, luck, at, running, exit_now,
                 event, file>>

\* The trigger is counted, and pedestals follow beam triggers.
IsTrig ==
  /\ Goto("look", "data")
  /\ locked
  /\ beamcts' = beamcts + IF "beam" \in inputs THEN 1 ELSE 0
  /\ pedcts' = pedcts + IF "ped" \in inputs THEN 1 ELSE 0
  /\ pedveto' = ~(pedcts' * Fraction < beamcts')
  /\ UNCHANGED <<program, veto, locked, inputs, modules, signals, luck, at, running, exit_now,
                 event, file>>

\* The oldest data of every module, but for those that answer too late.
ReadData(late) ==
  /\ Goto("data", "counters")
  /\ IF late = {} THEN UNCHANGED luck
     ELSE IF late \intersect Qdcs = {}
     THEN noise < MaxNoise /\ noise' = noise + 1 /\ UNCHANGED <<disturbed, lucky>>
     ELSE Noise(FALSE)
  /\ LET answers(m) == m \notin late /\ buffer[m] # <<>>
     IN  /\ got' = [m \in Modules |-> IF answers(m) THEN Head(buffer[m]) ELSE NoData]
         /\ buffer' = [m \in Modules |-> IF answers(m) THEN Tail(buffer[m]) ELSE buffer[m]]
  /\ at' = 1
  /\ UNCHANGED <<program, trigger_logic, strobes, count, signals, running, exit_now, tallies,
                 nev, file>>

ReadCounter ==
  /\ pc = "counters"
  /\ nev' = [nev EXCEPT ![at] = offset + count[at] - 1]
  /\ IF at < NQdc + NTdc THEN at' = at + 1 /\ UNCHANGED pc ELSE at' = 1 /\ pc' = "judge"
  /\ UNCHANGED <<program, trigger_logic, modules, signals, luck, running, exit_now, tallies,
                 got, file>>

\* Without any QDC data the trailer is looked for far outside the buffer.
Crash ==
  /\ Goto("judge", "crashed")
  /\ Empty = Qdcs
  /\ UNCHANGED <<program, trigger_logic, modules, signals, luck, at, running, exit_now, tallies,
                 event, file>>

Line(bad) == [marked |-> bad, data |-> [m \in Modules |-> got[m].strobe]]
FakeLine  == [marked |-> TRUE, data |-> [m \in Modules |-> 0]]

\* Mutant of WriteLines: the fake line is forgotten.
WriteLinesNoFake == lines' = Append(lines, Line(Failed)) /\ trignum' = trignum + 1

WriteLines ==
  IF program = "NoStop" /\ Spurious
  THEN lines' = Append(Append(lines, Line(TRUE)), FakeLine) /\ trignum' = trignum + 2
  ELSE lines' = Append(lines, Line(Failed)) /\ trignum' = trignum + 1

\* The event is written; at an error triggers are vetoed.
Judge ==
  /\ Empty # Qdcs
  /\ WriteLines
  /\ base' = IF Failed THEN base ELSE base + 1
  /\ veto' = (veto \/ Failed)
  /\ exit_now' = (exit_now \/ (Failed /\ program = "SPS2021"))
  /\ got' = [m \in Modules |-> NoData]
  /\ nev' = [m \in Modules |-> 0]
  /\ IF Failed /\ program = "NoStop" THEN Goto("judge", "reset") ELSE Goto("judge", "unlock")
  /\ UNCHANGED <<program, pedveto, locked, inputs, modules, signals, luck, at, running, tallies,
                 offset>>

resetHardware ==
  /\ pc = "reset"
  /\ count' = [count EXCEPT ![at] = 0]
  /\ buffer' = [buffer EXCEPT ![at] = <<>>]
  /\ base' = strobes
  /\ IF at < NQdc + NTdc THEN at' = at + 1 /\ UNCHANGED pc ELSE at' = 1 /\ pc' = "align"
  /\ UNCHANGED <<program, trigger_logic, strobes, signals, luck, running, exit_now, tallies,
                 event, offset, trignum, lines>>

\* Mutant of alignEventCounter: the number is that of the event after the next.
alignEventCounterNext ==
  /\ Goto("align", "unlock")
  /\ offset' = trignum + 1
  /\ veto' = FALSE
  /\ disturbed' = FALSE
  /\ UNCHANGED <<program, pedveto, locked, inputs, modules, signals, noise, lucky, at, running,
                 exit_now, tallies, event, trignum, lines, base>>

\* alignEventCounter and enableTriggers.
alignEventCounter ==
  /\ Goto("align", "unlock")
  /\ offset' = trignum
  /\ veto' = FALSE
  /\ disturbed' = FALSE
  /\ UNCHANGED <<program, pedveto, locked, inputs, modules, signals, noise, lucky, at, running,
                 exit_now, tallies, event, trignum, lines, base>>

UnlockTrigger ==
  /\ Goto("unlock", "end")
  /\ IF exit_now THEN UNCHANGED <<locked, inputs>> ELSE locked' = FALSE /\ inputs' = {}
  /\ UNCHANGED <<program, veto, pedveto, modules, signals, luck, at, running, exit_now, tallies,
                 event, file>>

\* myReadOutNoStop vetoes triggers once more when it ends.
End ==
  /\ IF exit_now THEN Goto("end", "done") ELSE Goto("end", "top")
  /\ veto' = (veto \/ (exit_now /\ program = "NoStop"))
  /\ UNCHANGED <<program, pedveto, locked, inputs, modules, signals, luck, at, running,
                 exit_now, tallies, event, file>>

Program == \/ Top \/ NoTrigger \/ IsTrig
           \/ \E late \in SUBSET Modules : ReadData(late)
           \/ ReadCounter \/ Crash \/ Judge
           \/ resetHardware \/ alignEventCounter
           \/ UnlockTrigger \/ End

Next == \/ Program
        \/ \E kinds \in SUBSET Inputs \ {{}} : Trigger(kinds)
        \/ SpuriousStrobe
        \/ \E m \in Modules : SpuriousGate(m)
        \/ SIGINT \/ SIGUSR1

Spec == Init /\ [][Next]_vars

\* The program runs; nothing is assumed of triggers, noise and signals.
FairSpec == Spec /\ WF_vars(Program)

-------------------------------------------------------------------------------
TypeOK ==
  /\ program \in Programs
  /\ veto \in BOOLEAN /\ pedveto \in BOOLEAN /\ locked \in BOOLEAN
  /\ inputs \in SUBSET Inputs
  /\ strobes \in Nat /\ noise \in Nat
  /\ count \in [Modules -> Nat]
  /\ buffer \in [Modules -> Seq([strobe : Nat, num : Nat])]
  /\ got \in [Modules -> [strobe : Nat, num : Int]]
  /\ nev \in [Modules -> Int]
  /\ abort_run \in BOOLEAN /\ pause_run \in BOOLEAN
  /\ running \in BOOLEAN /\ exit_now \in BOOLEAN
  /\ pc \in {"top", "look", "data", "counters", "judge", "reset", "align", "unlock", "end",
             "done", "crashed"}
  /\ at \in Modules
  /\ beamcts \in Nat /\ pedcts \in Nat
  /\ trignum \in Nat /\ offset \in 0 .. trignum
  /\ lines \in Seq([marked : BOOLEAN, data : [Modules -> Nat]]) /\ base \in 0 .. strobes
  /\ disturbed \in BOOLEAN /\ lucky \in BOOLEAN

\* The lines are numbered without gaps, from 0, and myReadOutSPS2021 marks the last only.
\* From an unmarked line to the next one every QDC goes on by one strobe, whatever the
\* noise; a TDC is at another strobe than the QDCs only after a line without its data.
SlipsAreMarked ==
  /\ Len(lines) = trignum
  /\ program = "SPS2021" => \A i \in 1 .. Len(lines) - 1 : ~lines[i].marked
  /\ \A i \in 1 .. Len(lines) - 1, q \in Qdcs :
       ~lines[i].marked /\ ~lines[i + 1].marked
         => lines[i].data[q] # 0 /\ lines[i + 1].data[q] = lines[i].data[q] + 1
  /\ \A i \in 1 .. Len(lines), m \in Modules :
       ~lines[i].marked /\ lines[i].data[m] # lines[i].data[1]
         => m \notin Qdcs /\ \E j \in 1 .. i : ~lines[j].marked /\ lines[j].data[m] = 0

\* One spurious strobe, gate or late answer between two resets, no strobe while counters
\* are read, and the lines do not shift: the n-th line, unless it is marked, has the n-th
\* event of FERS.
AlignedWithFers ==
  lucky => \A i \in 1 .. Len(lines) :
             ~lines[i].marked => lines[i].data[1] = i

\* After the first one, a pedestal is taken only when fewer than one in Fraction were
\* taken before, also if it comes together with a beam trigger.
PedestalsKeepFraction == pedcts > 1 => (pedcts - 1) * Fraction < beamcts

\* A paused run takes no triggers.
PausedMeansVetoed == pc = "look" /\ ~running => veto

Ended == pc \in {"done", "crashed"}

\* After SIGINT the program ends, also when it is paused or has to reset the modules.
AbortEndsRun == abort_run ~> Ended

-------------------------------------------------------------------------------
(***************************************************************************)
(* The inductive invariant behind the safety properties.                   *)
(***************************************************************************)

\* No event follows a marked line of myReadOutSPS2021.
Live == program = "SPS2021" => \A i \in 1 .. Len(lines) : ~lines[i].marked

\* The trigger logic waits while an event is handled, and what it waits for has a strobe.
Waiting ==
  /\ pc \in {"data", "counters", "judge", "reset", "align", "unlock"} => locked
  /\ Live /\ (pc \in {"data", "counters", "judge"} \/ (locked /\ pc \in {"top", "look"})
                \/ (locked /\ pc = "end" /\ ~exit_now)) => base < strobes
  /\ program = "SPS2021" => pc \notin {"reset", "align"}
  /\ ~Live => exit_now /\ pc \in {"unlock", "end", "done"}
  /\ pc \in {"counters", "judge", "crashed"} \/ \A m \in Modules : got[m] = NoData
  /\ pc \in {"counters", "reset"} \/ at = 1

\* A pedestal is let in, or waits for its answer, only if it keeps the fraction.
MayCome == pedcts = 0 \/ pedcts * Fraction < beamcts

PedestalsLetIn ==
  /\ ~pedveto => MayCome
  /\ locked /\ "ped" \in inputs /\ (pc \in {"top", "look"} \/ (pc = "end" /\ ~exit_now))
       => MayCome

\* Every answer of module m in an unmarked line was in time.
InTime(m) == \A i \in 1 .. Len(lines) : ~lines[i].marked => lines[i].data[m] # 0

\* Module m has seen every strobe after b, where n gates are those up to b.  If it has
\* seen nothing else, its data are theirs.
Fresh(m, n, b) ==
  /\ count[m] - n >= strobes - b
  /\ InTime(m) /\ count[m] - n = strobes - b =>
       /\ strobes = b => buffer[m] = <<>>
       /\ strobes = b + 1 => buffer[m] = <<[strobe |-> b + 1, num |-> n]>>
       /\ strobes > b => buffer[m] # <<>>

\* The same after its data were read ...
Popped(m, n, b) ==
  /\ count[m] - n >= strobes - b
  /\ InTime(m) /\ count[m] - n = strobes - b /\ strobes = b + 1 /\ got[m] # NoData =>
       /\ buffer[m] = <<>>
       /\ got[m] = [strobe |-> b + 1, num |-> n]

\* ... and after its counter was read.
Counted(m, n, b) ==
  nev[m] = trignum =>
    /\ count[m] - (n + 1) >= strobes - (b + 1)
    /\ InTime(m) /\ got[m] # NoData =>
         Fresh(m, n + 1, b + 1) /\ got[m] = [strobe |-> b + 1, num |-> n]

WasRead(m) == pc = "judge" \/ (pc = "counters" /\ m < at)

BuffersFresh ==
  /\ Live /\ pc \in {"top", "look", "data", "unlock", "end"} =>
       \A m \in Modules : Fresh(m, trignum - offset, base)
  /\ pc \in {"counters", "judge"} =>
       \A m \in Modules : IF WasRead(m) THEN Counted(m, trignum - offset, base)
                                        ELSE Popped(m, trignum - offset, base)
  /\ pc = "reset" => \A m \in Modules : m < at => Fresh(m, 0, base)
  /\ pc = "align" => \A m \in Modules : Fresh(m, 0, base)

\* The last line, unless it is marked, has the data of the last strobe, and no unmarked
\* line is without data of a QDC.
LastLine ==
  /\ \A q \in Qdcs : InTime(q)
  /\ Len(lines) > 0 /\ ~lines[Len(lines)].marked =>
       \A q \in Qdcs : lines[Len(lines)].data[q] = base
  /\ pc \in {"reset", "align"} => Len(lines) > 0 /\ lines[Len(lines)].marked

\* Strobes in excess of those that lines stand for and of the one that is pending.
Excess == strobes - base
          - IF pc \in {"top", "look", "end", "data", "counters", "judge"} /\ locked THEN 1 ELSE 0

\* Module m has counted the strobes and nothing else.
Exact(m) == /\ count[m] - (trignum - offset) = strobes - base
            /\ WasRead(m) => nev[m] = trignum

\* All is in step, or one module has noise, or all have seen a strobe too many.
InStep ==
  lucky /\ Live =>
    /\ pc \in {"top", "look", "data", "counters", "judge", "unlock"}
         \/ (pc = "end" /\ ~exit_now) =>
         /\ base = trignum
         /\ ~disturbed => /\ Excess = 0 /\ (pc \in {"counters", "judge"} => Empty = {})
                          /\ \A m \in Modules : Exact(m)
         /\ disturbed =>
              \/ Excess = 0 /\ \E x \in Modules : \A m \in Modules \ {x} : Exact(m)
              \/ /\ Excess = 1 /\ (pc \in {"counters", "judge"} => Empty = {})
                 /\ \A m \in Modules : count[m] - (trignum - offset) = strobes - base
                 /\ \/ \A m \in Modules : WasRead(m) => nev[m] = trignum + 1
                    \/ pc = "judge" /\ \A m \in Modules : nev[m] = trignum
    /\ pc \in {"reset", "align"} =>
         disturbed /\ strobes = trignum /\ (pc = "align" => base = strobes)
    /\ pc = "reset" => \A m \in Modules : m < at => count[m] = 0
    /\ pc = "align" => \A m \in Modules : count[m] = 0

SpsInv == /\ TypeOK /\ Waiting /\ PedestalsLetIn /\ BuffersFresh /\ LastLine /\ InStep
          /\ SlipsAreMarked /\ AlignedWithFers /\ PedestalsKeepFraction
===============================================================================
