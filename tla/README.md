# Verification of the DREMTubes data acquisition

TLA+ models, TLC runs and TLAPS proofs for `src/DreamDaq`, the data acquisition
of the DREAM/IDEA dual-readout test beams. Paths below are relative to `src/DreamDaq`
unless they start with `src/`.

## 1. Inventory

A run of the acquisition is a handful of programs on one machine, started by
shell scripts, that share two FIFOs in System V shared memory: one of physics
events, one of pedestal events.

    trigger hardware --> myReadOut --write--> FIFO (physics)  --dumpData--> myDataWriter data     --> files
                             |                     |
                             |                     +--read--> sampler (histograms, up to 16)
                             +-------write--> FIFO (pedestal) --dumpData--> myDataWriter pedestal --> files

| component | source | state | operations |
|---|---|---|---|
| FIFO lock | `FIFOlib/myFIFO.cpp` 231-412 | semaphore 1, lock word `status`, `sam_locker` | `waitlock`, `unlock` |
| FIFO ring | `FIFOlib/myFIFOWriter.cpp`, `myFIFOReader.cpp`, `myFIFOSampler.cpp` | `offsetWR`, `offsetRD`, `space`, per sampler `offsetSM`, `monspace` | `write`, `bufferOccupancy`, `updateSamplingPoint`, `dumpData`, `read` |
| FIFO lifecycle | `FIFOlib/myFIFO.cpp` 16-229 | semaphore set, two segments, presence flags, `nsampler` | constructor, destructor |
| Readout | `myReadOut.cpp`, `FIFOlib/myFIFO-IO.cpp` | `events`, `pedevents`, `spills`, `abort_run`, trigger enables | `myOpenRun`, spill loop, `check_and_handle_event`, `myWriteEvent`, `myFIFOlock`/`unlock`, `myCloseRun` |
| Trigger control | `myReadOut.cpp` 529-640, 714-760 | vetoes, trigger inputs, `trignr`, `doubletrig`, `totevents`, `ped_enabled`; in the modules: event counters, data | `isTriggerPresent`, `getEvent`, `handle_trigger`, `check_and_handle_event`, `checkEvntCntrs` |
| Data writer | `myDataWriter.cpp` | open file, `nevtsaved`, `nfiles` | poll, dump, roll over, end of run |
| Sampler | `sampler.cpp`, `dreammon.c` | histograms | poll, read |
| Event format, offline readers | `FIFOlib/myFIFO-IO.cpp` 200-305, `FIFOlib/myRawFile.cpp`, `myFileChecker.cpp` | position in an event | sub-event framing, seek, decode |
| Offline realignment | `realign.cpp`, `fixLostTriggers.cpp`, `decode/` | counters of two streams | match, drop, merge |
| SPS 2021 readouts | `myReadOutSPS2021.cpp`, `myReadOutNoStop.cpp`, `scripts/run4ever.sh` | trigger number, tallies, counter offset, pause and abort flags, the file | read, compare counters, write a line, reset, fake line, restart |
| Control interface | `DaqControlInterface/`, `QDAC/` | run state, timers, log positions | start, stop, clean up, poll logs |
| Scripts | `scripts/` | none | start programs, SIGINT to the readout, `ipcclean` |
| VME modules, FSM | `VMElib/`, `FSM/` | hardware registers | register access |
| Simulation, preparation, analysis | `src/DREMTubes`, `src/TBDataPreparation`, `src/TBDataAnalysis` | - | sequential batch programs |

`codeBackup`, generated Qt files, `json.hpp` and the remaining variants of the
readout (`myReadOutDesy.cpp`, `myReadOutCosmics.cpp`, ...) are left aside: they share
the FIFO library and the shape of `myReadOut.cpp`. The repository has no tests.

The SPS readouts are programs of their own: one process, no FIFO, a text file
with a line per trigger. That file is merged afterwards, line by line, with the events
of FERS, electronics that another program reads out, so a line too many or too few
shifts every event after it.

How they interact: only through the shared memory (offsets, flags, counters),
two semaphores per FIFO, and signals. There are no messages and no threads. What
is hard here follows from that:

* several processes step through `waitlock`, `unlock`, constructor and
  destructor in any order, and some flags and counters (`isWriterPresent`,
  `getNevt`) are read without the lock;
* the ring tells full, empty and wrapped apart with two offsets and one flag;
* samplers are lapped by the writer;
* SIGINT arrives at any point and interrupts blocked system calls; programs are
  killed, refused, or start while others leave;
* the readout blocks on a full FIFO, on the hardware and on the beam, and still has
  to end;
* triggers, data and noise come between any two looks at the hardware: two inputs
  that rise one after the other, data that are not there on the second look, a gate
  without a trigger, a module that answers late, of which the readout asks one (the TDC)
  for all.

What makes each component correct: the lock excludes and names its holder; the
ring loses, repeats and reorders nothing and its answers FULL and EMPTY are
exact; the programs of a run share one FIFO and leave none behind; spills are
taken under the lock and accounted for before anyone sees them; the headers of a run
add up; SIGINT ends the run; pedestals follow their ratio to beam events, every
gate is answered, an event has the data of its own trigger unless a module counted or
answered wrongly, and the check of the event counters tells of what it can see; the lines of the SPS readouts stay in step with FERS or
are marked. `PROJECT.json` lists the hazards at their lines
with the properties that guard them.

## 2. Modules

| module | models | main constants |
|---|---|---|
| `FifoMutex` | abstract: the FIFO is lent to one process at a time | `Proc` |
| `FifoLock` | `waitlock`, `unlock` | `Writer`, `Reader`, `Samplers`, `sam_ind`, `Interruptible` |
| `MCFifoLock` | two samplers with slots 0 and 1 for TLC | |
| `FifoLockProofs` | theorems about `FifoLock` | |
| `FifoQueue` | abstract: a bounded queue of words | `Size`, `EventSizes`, `Chunk` |
| `FifoRing` | the ring with writer, reader and samplers | and `MAXSM`, `JunkSizes`, `FlakyDisk` |
| `FifoRingProofs` | theorems about `FifoRing`: writer and reader | |
| `FifoSamplerProofs` | theorems about `FifoRing`: samplers | |
| `FifoLifecycle` | constructor and destructor | `Writers`, `Readers`, `Samplers`, `Overlap`, `Killable` |
| `FifoLifecycleProofs` | theorems about `FifoLifecycle` | |
| `DaqRun` | readout and both data writers over both FIFOs | `Capacity`, `Chunk`, `maxevts`, `MAX_FILE_SIZE`, `FlakyDisk` |
| `DaqRunProofs` | theorems about `DaqRun` | |
| `TriggerControl` | readout, trigger logic and modules, one register or module at a time | `RatioBeam`, `RatioPed`, `maxevts`, `NQdc`, `CounterSize` |
| `TriggerControlProofs` | theorems about `TriggerControl` | |
| `SpsReadOut` | the two SPS readouts, trigger logic and modules | `NQdc`, `NTdc`, `Fraction` |
| `SpsReadOutProofs` | theorems about `SpsReadOut` | |

They are layers. `FifoLock` implements `FifoMutex`; `FifoRing`, whose operations
are single steps because their callers have the lock, implements `FifoQueue`;
`DaqRun` composes the programs over locks that are `FifoMutex` and FIFOs that are
`FifoQueue`s with room for `Capacity` events. `FifoLifecycle` says when the
programs meet in the same FIFO at all. `TriggerControl` opens up what is one choice in
`DaqRun` (which trigger comes at a look) and leaves the FIFOs out. `SpsReadOut`
stands alone, like the programs.

### FifoLock

Variables are the fields of `myFIFOData` (`status`, `sam_locker`), the value of
semaphore 1 (`sem`), each process's place in the two functions (`pc`) and the
processes the FIFO is lent to (`holds`, which records the return of `waitlock` and
the call of `unlock`). Every `semop` and every access to the lock word is a
step. A process polls `wl_sleep -> wl_recheck -> wl_retry` like the loop at line
262. The readout may call `waitlock` when it already has the lock and `unlock`
when it has not (that is what `myOpenRun`/`myFIFOlock` and
`myFIFOunlock`/`myCloseRun` do); the others call them in turns, as
`myDataWriter` and `sampler` do. A process in `Interruptible` may return from a
blocked `semop` without effect.

### FifoRing

Offsets and sizes are in words. A word *is* its position in the stream, so that loss,
repetition and reordering are visible; `ring` holds what memory holds, `written`
and `dumped` count words, `file` is what is on disk. `HasRoom`, `WriteEnd`,
`LeavesMore`, `DumpEnd`, `SampleEndsInData` are the branch conditions of `write`,
`dumpData` and `read`. `DumpFails(k, l)` is a `dumpData` whose two `fwrite` calls
stored `k` and `l` words. `Occupancy` is what `bufferOccupancy` returns, `rint` included,
in ten-thousandths. A sampler takes the third word from its offset (`SizeWord`) for the size,
without a look at the end of the ring (`myFIFOSampler.cpp:31-45`): if that word is not the
`evsiz` of a header, because the offset is that of no event or because the end of the ring
splits the header before it (`HeaderSplit`), it reads any number in `JunkSizes`. `spill`,
read the same way, is only printed. Samplers attach at any moment and the last one leaves;
what happens when an earlier one leaves (`nsampler--` frees the wrong slot) is not modelled
here.

### FifoLifecycle

One step per system call of the constructor and destructor. A semaphore set or
segment has a number, reused only when nothing refers to the old one; the key
variables (`semkey`, `datakey`, `fifokey`) say what `semget`/`shmget` would find,
`attached` and `mapped` are the kernel's attach counts. `start` records which
process wrote each of the pointers that live in the shared segment (nobody for the -1 that a
failed `shmat` leaves): `shmdt` of a pointer that another process wrote detaches or does
not, as that address is or is not the caller's own. A refused writer dies of
its null pointer, a refused reader or sampler runs the destructor. `Killable`
programs may die anywhere. `mishaps` remembers whether a program was ever
refused or killed, because some promises hold only without.

The FIFO is one of the two; where they differ, for a refused readout, it is that of the
pedestals, which the readout opens first: refused there it follows the null pointer of
the other and dies. A readout that gets that one and is refused only by the FIFO of events
(its predecessor was killed, and one data writer left since while the other stayed) goes on
with a FIFO that is not valid; that is not modelled.

### DaqRun

`rpc` and `site` are the place of the readout in `main`, `check_and_handle_event`,
`myWriteEvent`; `wpc[f]` that of the data writer of FIFO `f`. A trigger is any
choice of physics or pedestal at any look; the beam (`inSpill`) changes at
any time, SIGINT comes once or never. Flags and counters read without the lock
(`isWriterPresent`, `getNevt`) are read in steps of their own. An event is
the unit: a dump moves up to `Chunk` events, so a file begins and ends with a
whole event, where the code may split one between two files of a full FIFO
(`dumpData` counts bytes; files are changed only on FIFOEMPTY, when the last
event is whole). `DumpFails` is the answer FAILED: some events may be in the file, none
is taken from the FIFO, and the data writer gives the lock back and tries again without a look
for the readout. `HeldUp` names the two waits of the readout that do not look at `abort_run`:
for a FIFO that a data writer has whenever it looks, and for room in a full one. SIGINT to a
data writer is not modelled: the stop command sends it to
the readout only (`scripts/desyProc.sh:62-67`).

### TriggerControl

The registers (`veto`, `pedveto`, `locked`, `inputs`) are the outputs and inputs of the
V513 as `myReadOut.cpp` uses them. Each module, the TDC (0) and `NQdc` QDCs, has its own
counter (`gates`), the gate it is `converting` and the gates whose data it holds (`buffer`);
a gate is named by its number. `rpc` is the place of the readout: `look`, `beam`, `ped`,
`again`, `beam_again` are the five reads of `isTriggerPresent` (line 561), `busy` to `unlock`
are `handle_trigger` and the end of `check_and_handle_event`, `site` the three places it is
called from; `at` is the module that `myReadEvent` or `checkEvntCntrs` is at, since they take
them one after the other. `IsDataReady` and `StillReady` ask the TDC only, as lines 563 and
574 do. The world may act between any two of these: `Trigger` (one input or both),
`Coincidence` (the other input comes up a moment later), `Convert(m)` of each module on its
own, `SpuriousGate`, `Spill`, `Abort`. Noise is a gate without a trigger in any of the
modules, a trigger that some QDCs do not see, a QDC that still converts when the 100 polls of
`readEvent` are over (`myV792AC.cpp:99` returns 0 and leaves the datum to a later event), a
TDC whose data are bad (449-450), a second look that finds no data (`GiveUp`). The TDC also
gives no data when its counter is at 0xffffff (`CounterValid`, `myV775.cpp:91`).

`mixed`, `slipped` and `alarm` are history: the modules that gave an event another gate's
data, those that missed a gate or gave an event none, and what `checkEvntCntrs` last
reported. A late QDC shows why both are needed: its datum comes after
`myReadOutArm` has cleared the modules, so the next event has its data of the event before,
while its counter is right and no alarm comes. `DataMatchTriggers` and `AlarmTells`
say so in their text, and what holds in all other cases. `Due` compares by cross
multiplication what the code compares in floating point; `maxpedevts` rounds as `lrint` does.

### SpsReadOut

`program`, which never changes, says which of the two programs runs, so that each
property speaks of both. `pc` and `at` are the place in the main loop and the module that
is being read or reset; `got` and `nev` are the data and the counter that
`readEvent` has from each module, `offset` the number that `alignEventCounter` sets the
counters' origin to. Strobes are numbered as FERS counts them; each module has
its own gate count and data, so that any of them can be out of step. Noise is
a strobe without a trigger, a gate that one module sees, or a module that answers too
late, at any step. `Crash` is what happens when no QDC answers: the trailer is looked
for far outside the buffer (nothing more is said of such a run). `base` (the last strobe
that a line stands for), `disturbed` and `lucky` are history: the fake line is made
for one disturbance between two resets, and `lucky` says that there were no others.

## 3. Runs

| run | shows | states |
|---|---|---|
| `lock` | typing, exclusion, holder, refinement of `FifoMutex`; a free FIFO is taken by one of those who wait | 5,253 |
| `lock_signal` | **violation**: an interrupted `semop` | - |
| `ring` | FULL/EMPTY exact, occupancy to four decimals, nothing overwritten or skipped, short writes | 33,412 |
| `sampling` | refinement of `FifoQueue`; samplers stay aligned, read whole events in order, but for split headers | 450,088 |
| `lifecycle` | one FIFO, one readout and one data writer at a time, flags have owners, nothing left behind | 340,851 |
| `two_readers` | **violation**: a refused reader unlocks the door | - |
| `unguarded` | **violation**: constructor against destructor | - |
| `daq` | spills locked and accounted for, headers add up, quota; SIGINT ends the readout or finds it held up, the data writers end after it | 122,206 |
| `daq_count` | **violation**: events after the last FIFOEMPTY | - |
| `trigger` | ratio and quota of pedestals, gates answered, when data are of the wrong gate and when the alarm tells; no trigger stays unanswered | 775,328 |
| `sps` | slips are marked, lines aligned with FERS, pedestal fraction; SIGINT ends the program | 154,438 |
| `sps_pause` | **violation**: a paused run takes triggers | - |

Bounds. A ring of 6 words with events of 3-5 words and chunks of 4 meets every
branch: an event or chunk that ends before, at and after the end of the ring and
the other's offset, on nearly two laps (`MaxWords` 11, `MaxFile` 10); an event has at least
3 words because the third is its size. The sampling run has 7 words and three laps (22 words),
so that a sampler is overtaken with and without wrapping and headers begin in every cell,
whole and split; where a size is not one it reads 0, 3 (an event's size) or 9 (more than the
ring). The proofs cover all other sizes. In the lock, two samplers are
the fewest that contend with each other. The lifecycle run has two readouts and two
readers, so that one is refused, or a reader killed, while the other is there, and each
program may come back any number of times. In `daq` a FIFO holds two events and a
file is full after two, so that a FIFO is full within a spill and a file is changed within a run;
a dump moves up to two, so that it can fail after one; the quota is one physics event, with one
pedestal; a file of three events grows no more by failing dumps. In `trigger` the ratio is 3 to
2, so that rounding matters and pedestals are let in and vetoed in 4 gates; the
modules count modulo 3, so that their counters wrap within the run; a TDC and one QDC are the
fewest of which the second can be late or miss a gate while the first is asked, and one
piece of noise shifts every later event. In `sps` two QDCs and a TDC can disagree with each other in
every way the checks tell apart, and 4 strobes are enough for a line, an error, its reset
and a line after it; the fraction is 2. One piece of noise is the case the fake line is made
for; the invariant was also checked with two (2,403,132 states) before it was
proved for any number. `CHECK_DEADLOCK FALSE` is set where the system stops: bounds
reached, run over, or everybody waits for the semaphore of a program that was killed.

Fairness. In `FifoLock`, a process inside `waitlock` or `unlock` is scheduled, a
process blocked in `semop` is served in its turn (the kernel keeps a queue for each semaphore),
and a holder gives the lock back. Nothing is assumed of the polls of the lock word: a process may
miss every moment at which it is free, and nothing says that a given one gets it. `NoDeadlock`
says what is left: a free FIFO does not stay free while somebody waits. In `DaqRun` the
programs are scheduled (weak fairness only) and the data writers poll. Nothing is assumed of beam,
triggers, operator, disk, or of who gets a lock, so `AbortEndsReadout` ends in `done` or
`HeldUp`, and `WritersEnd` speaks of disks that do not fail for ever. That one side may be
held up so is true of the code and is listed as hazards without a property (`myFIFO.cpp:283`,
`myFIFO-IO.cpp:253`). In
`TriggerControl`, the readout runs, the modules convert, and a readout that polls for a
spill does not miss every one (`SF` on the two loops); `TriggersAnswered` asks in its
own text that spills keep coming. In `SpsReadOut` the program runs; nothing is
assumed of triggers, noise and signals, so `AbortEndsRun` holds in a beam
that stops and in a run that is paused.

### Findings

1. `lock_signal`: `semop` returns `EINTR` when SIGINT, the stop command, meets the
   readout in `waitlock` or `unlock`; the result is ignored (`myFIFO.cpp:250`, 265, 284, 302,
   381) and the lock word is used unguarded, against the comment "lock the
   variable before read".
2. `two_readers`: the destructor of a reader that was refused ("A reader is
   already present") sets the reader flag to MISSING (`myFIFO.cpp:204`), so the
   next reader is let in beside the one that reads.
3. `unguarded`: the destructor takes no semaphore; a semaphore set removed while
   another program waits on it no longer guards the constructor
   (`myFIFO.cpp:224-226`).
4. `daq_count`: between FIFOEMPTY and `isWriterPresent` (`myDataWriter.cpp:192`, 209)
   the readout may take its last events (it locks, meets the quota, unlocks and closes in
   one go) and leave; they are counted in the
   header and are in no file, which `myFileChecker` calls "Wrong event count". The
   per-file count is also wrong when a file is changed in the middle of a spill because
   the FIFO is full. `HeadersAddUp` shows that the sum over the files is still
   the number of events the readout has written.

5. `sps_pause`: `myReadOutNoStop` recovers from an error with `enableTriggers`
   (`myReadOutNoStop.cpp:549`), also when SIGUSR1 has just paused the run and the
   event in error was already pending; the veto of line 448 is behind the test of
   `running` (line 446), so no later turn sets it again, against "pausing run" (line 235).

### Mutants

Each property of a passing run has a mutant: an operator beside the definition
it changes, with the change a slip in the code would make (a dropped wait, a
flag not looked at, `<` for `<=`, a part forgotten). With the mutant in place of the
definition TLC finds that property violated. `PROJECT.json` pairs them.

## 4. Proofs

TLAPS proves, for every value of the constants that satisfies the named assumptions:

**FifoLock** (`FifoLockProofs`), under `DistinctSlots` (attached samplers have
slots of their own) and `NoSignals` (no `semop` is interrupted; finding 1 shows it
is needed): `Spec` keeps `IInv`, hence `TypeOK`, `LockWordGuarded`,
`MutualExclusion`, and implements `FifoMutex`. `MutualExclusion` is not inductive:
a process that is about to write the lock word must still find it as it last saw
it. `IInv` therefore says that semaphore 1 is up while any process is between its two
`semop` calls (`SemaphoreUp`, `LockWordGuarded`), what each process knows about the
word at its place (`KnowsFree`, `KnowsTaken`, `KnowsReset`, `StillLocked`), and
that a holder is named by the word until it gives it up (`HolderNamed`,
`GivenBack`). Two holders would both be named by one word (`LockWordNamesOne`).

**FifoLifecycle** (`FifoLifecycleProofs`), for any number of programs of each type and of
slots, whoever is killed and whenever, under `~Overlap` (no program starts while another
one leaves; finding 3 shows it is needed): `Spec` keeps `LifecycleInv`, hence `TypeOK`,
`InitGuarded`, `SameFifo`, `FlagsHaveOwners`, `LeavesNothing`. Starting and leaving
exclude each other (`Phases`), so a semaphore set or a segment is made only when nobody
refers to an old one: all numbers are free then, and the least of them exists without
counting. `Guarded` says who has semaphore 0, `DataKept` that data are
removed only when nobody is attached and before the semaphores, `Contents` that what
nobody refers to is gone and that initialised data name the semaphores of the key, `Words`
that programs are attached only to the words of the key. `Owned` and `Clean` are what
holds until a program is killed, and until one is killed or refused; for the second, `nsampler`
counts the samplers. `OneOfEach` needs more: the flag of a type is up from the moment a
program of that type is admitted and is found down by the one that passes the check
(`Alone`), and a program whose constructor failed without a refusal, which will clear the
flag too, finds nobody admitted (`Lost`). The invariants were checked by TLC
on small instances before they were proved.

**FifoRing** (`FifoRingProofs`), for every ring size, set of event sizes, chunk,
number of samplers, and a disk that may fail: `Spec` keeps `RingInv`, hence `TypeOK`,
`DataIntact`, `EmptyMeansDrained`, `FullMeansNoRoom`, `OccupancyNearest`, and from it
`NoWordSkipped`. `OccupancyNearest` needs that `rint` is off by a half at most
(both are stated with the division multiplied out). The flag `space` may say anything while the offsets differ (a rejected
write leaves FULL, a dump over the end leaves EMPTY), so the invariant ties it to the stream only
when they meet (`FlagTells`), and ties offsets to stream positions modulo `Size`, at most one
lap apart (`Positions`). From these follow what `HasRoom` and the chunk computed
by `dumpData` mean (`RoomMeaning`, `DumpMeaning`), which carry the proof. With
`FileIsStream`, on a disk that stores every word (`~FlakyDisk`), the ring
implements `FifoQueue` (`RingImplementsQueue`).

**The samplers** (`FifoSamplerProofs`), for any number of them and any numbers read
where no size is: `Spec` keeps `SampleInv`, hence `AlignedNeverFails`, and has the
action properties `AlignedStaysAligned` and `SamplesWholeEventsInOrder`. `SampleInv`
says that the ring holds the last `Size` words of the stream, each in the cell that its
age gives (`RingIsStream`), that events tile the stream (`EventsTile`), and that a sampler
whose last sample is an event is aligned to a later one (`SamplesPast`). A header in the ring
whose size is before the end is then the head of an event that is whole in the ring
(`HeaderMeaning`, `EventWords`). A split header gives any size: the three properties exempt
it, each by name (`HeaderSplit`), and the invariant holds in spite of it: if what is then
read happens to be an event, the sampler is at its end. A
write that does not overtake a sampler leaves its cell alone or puts the new header
there (`WriteMoves`).

**DaqRun** (`DaqRunProofs`), for every FIFO capacity, chunk, quota and file size:
`Spec` keeps `DaqInv`, hence `TypeOK`, `SpillsAreLocked`, `SpillsAreAccounted`,
`QuotaKept`. None of the three is inductive: `DaqInv` adds at which places of the
readout and the data writers each lock word has which value (`Has`, `LocksMatch`),
that a written event is counted except between `myWriteEvent` and the counter
(`Counted`), that the counts are in the shared data outside the spills (`Accounted`;
a data writer that has a FIFO proves that the readout is not in a spill), and how many
physics events there may be before and after each of the three calls of
`check_and_handle_event` (`Quota`, `Limit`). `HeadersAddUp` has an invariant of its own,
`HeadersInv`: a data writer that ends does so after the FIFO is deleted, when the counts are
final, and has saved that count (`Followed`); and the headers of the closed files add up to what
is saved. That sum is a recursive function. The invariant carries that there is
one way to add the headers up, and only one (`AddUpTo`), so that a file more adds one step to
it (`OneFileMore`), and no induction over the files is needed.

**TriggerControl** (`TriggerControlProofs`), for every ratio, quota, number of QDCs, counter
size and amount of noise: `Spec` keeps `TriggerInv`, hence `TypeOK`,
`PedestalsFollowRatio`, `EveryGateAnswered`, `DataMatchTriggers`, `AlarmTells`. The
properties speak of moments; the invariant says what holds between them: what the readout
knows after each of its reads (`Looked`: the TDC has data, the logic is locked, an input was
up), that a pedestal that was let in is handled before the counters it was let in on change
(`LetIn`), and how many answered triggers SIGINT may have cost at each place
(`SkippedMost`). The data are argued module by module (`OwnData`): a module that
counted a gate too many (`Extra(m) >= 1`) keeps it as long as it misses none; one that has
none, and is not a QDC that slipped, has given no event the data of another gate and, at each place, holds or converts just the
gate of the pending trigger (`Current`). So whoever mixes data has slipped or counts too many,
and the comparison of its counter shows that (`Compared`), unless the excess is a
multiple of the counter's size or SIGINT took away as many triggers. `SlipsTold` says that without
noise nothing slips but the TDC at its last count.

**SpsReadOut** (`SpsReadOutProofs`), for every number of modules, fraction and amount
of noise: `Spec` keeps `SpsInv`, hence `TypeOK`, `SlipsAreMarked`, `AlignedWithFers`,
`PedestalsKeepFraction`. The argument: a module counts at least the strobes, and
`Fresh` says that one which counted nothing else, and was never late, holds exactly their
data. A line is unmarked only when each counter shows one gate since the last line;
the trigger that is being handled made a strobe (`Waiting`); so there was that one
strobe and nothing else, and the data read are its data (`Popped`, `Counted` carry this
through the reading of data and counters, `LastLine` into the file). With
one disturbance between resets (`lucky`), `InStep` says that either one module has extra
gates or all have one strobe too many, that the program can tell the two apart when
it judges, and that the line numbers therefore equal the strobes (`base = trignum`).

Only model-checked: liveness under fairness (`NoDeadlock`, `AbortEndsReadout`,
`WritersEnd`, `TriggersAnswered`, `AbortEndsRun`), which is out of the prover's
reach like ENABLED. Every other property that a passing run checks is proved. No module
declares a RECURSIVE operator.

## 5. Plan

Done: the FIFO (lock, ring with samplers, lifecycle), the run above it, the trigger
control below it, and the SPS readouts. What could come next, in this order:

1. `FifoSamplers`: slots shared after an earlier sampler leaves, the sampler's loop,
   with the lock; a crash of a lock holder.
2. `Realign` (`realign.cpp` 370-532, `fixLostTriggers.cpp`): the match of two streams
   after a lost trigger.
3. `EventFormat`: framing of events and sub-events against a reference reader
   (`myFIFO-IO.cpp` 259-305, `myRawFile.cpp` 169-325).
4. A theorem for both FIFOs at once: that the readout opens the one of the pedestals first
   keeps two readouts apart in the other too.

### Not modelled

* Offline readers, realignment, merging: sequential programs over finished files. What they
  may rely on is stated for the programs that write the files (`NoWordSkipped`,
  `SamplesWholeEventsInOrder`, `SlipsAreMarked`, `AlignedWithFers`).
* Restart of an SPS run by `run4ever.sh` and the run numbers: `SpsReadOut` is one run.
  The wrap of its 24-bit counters, header and trailer words, bad TDC words.
* The V1742 digitizer, which only a build with `-DUSE_DRS_V1742` reads.
* Contents of events and the VME transfers that fill them; in `FifoRing`, the
  updatable's pointers, backup and restore, and the overloads of `read` that no
  program of a run calls.
* SIGINT to a data writer; the start of a data writer after the run it should have
  written.
* The control interface: windows that start scripts and poll log files on timers; it
  shares no memory with the run.
* VME register access, the unused `FSM`, the simulation, data preparation and analysis
  (numeric programs over finished files).
