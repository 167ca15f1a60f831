------------------------------- MODULE FifoRing -------------------------------
(***************************************************************************)
(* The ring of words in shared memory (FIFOlib): write of the readout      *)
(* (myFIFOWriter.cpp), dumpData of the data writer (myFIFOReader.cpp),     *)
(* read of the samplers (myFIFOSampler.cpp).  Each is one step: the caller *)
(* has the lock of FifoLock.                                               *)
(*                                                                         *)
(* Offsets and sizes are in 32-bit words.  A word is named by the number   *)
(* of words written before it, so the ring holds stream positions; Nothing *)
(* is what a fresh segment holds.                                          *)
(***************************************************************************)
EXTENDS Integers, Sequences, FiniteSets

CONSTANTS Size,         \* words of the ring (internalData->size)
          EventSizes,   \* sizes an event may have, in words (evsiz / 4)
          Chunk,        \* words of one dumpData call (bytes / 4)
          MAXSM,        \* sampler slots
          JunkSizes,    \* evsiz / 4 if that is not the size of an event
          FlakyDisk,    \* TRUE if fwrite may write less than it was asked to
          MaxWords,     \* bound: words written in a behaviour
          MaxFile       \* bound: words in the file

\* The place of evsiz in an EventHeader.
SizeWord == 2

ASSUME RingAssumption ==
  /\ Size \in Nat \ {0}
  /\ EventSizes \subseteq SizeWord + 1 .. Size
  /\ Chunk \in Nat \ {0}
  /\ MAXSM \in Nat
  /\ JunkSizes \subseteq Nat
  /\ FlakyDisk \in BOOLEAN
  /\ MaxWords \in Nat
  /\ MaxFile \in Nat

VARIABLES offsetWR, offsetRD,  \* next word to write and to dump
          space,               \* tells full from empty when they are equal
          nsampler,            \* attached samplers, in slots 0 .. nsampler-1
          offsetSM,            \* next word to sample, of every slot
          monspace,            \* the same flag, of every slot
          ring,                \* the words
          written,             \* words written since the FIFO was created
          dumped,              \* words that offsetRD has moved over
          file,                \* words in the data file
          events,              \* the events written: first word and size
          sample               \* the words each slot's read last returned

shared  == <<offsetWR, offsetRD, space>>
sampler == <<nsampler, offsetSM, monspace>>
stream  == <<ring, written, dumped, file, events, sample>>
vars    == <<shared, sampler, stream>>

Cells   == 0 .. Size - 1
Slots   == 0 .. MAXSM - 1
Space   == {"EMPTY", "FREE", "FULL"}
Nothing == -1

\* The cell k words after cell c, for k <= Size.
Cell(c, k) == IF c + k < Size THEN c + k ELSE c + k - Size

\* The k words that start in cell c.
Words(c, k) == [j \in 1 .. k |-> ring[Cell(c, j - 1)]]

Init == /\ offsetWR = 0 /\ offsetRD = 0 /\ space = "EMPTY"
        /\ nsampler = 0
        /\ offsetSM = [i \in Slots |-> 0]
        /\ monspace = [i \in Slots |-> "EMPTY"]
        /\ ring = [c \in Cells |-> Nothing]
        /\ written = 0 /\ dumped = 0
        /\ file = <<>>
        /\ events = {}
        /\ sample = [i \in Slots |-> <<>>]

-------------------------------------------------------------------------------
(***************************************************************************)
(* myFIFOWriter                                                            *)
(***************************************************************************)

\* The event of n words reaches the end of the ring.
Wraps(n) == offsetWR >= offsetRD /\ offsetWR + n >= Size

\* Mutants of HasRoom: the flag is not looked at; an event may not end where the
\* reader is.
HasRoomNoFlag(n) == IF offsetWR >= offsetRD
                    THEN offsetWR + n < Size \/ offsetWR + n - Size <= offsetRD
                    ELSE offsetWR + n <= offsetRD
HasRoomStrict(n) == /\ ~(offsetWR = offsetRD /\ space = "FULL")
                    /\ IF offsetWR >= offsetRD
                       THEN offsetWR + n < Size \/ offsetWR + n - Size < offsetRD
                       ELSE offsetWR + n < offsetRD

\* write finds room for n words.
HasRoom(n) == /\ ~(offsetWR = offsetRD /\ space = "FULL")
              /\ IF offsetWR >= offsetRD
                 THEN offsetWR + n < Size \/ offsetWR + n - Size <= offsetRD
                 ELSE offsetWR + n <= offsetRD

\* Mutant of WriteEnd: an event that ends at the end of the ring does not wrap.
WriteEndLate(n) == IF offsetWR + n > Size THEN offsetWR + n - Size ELSE offsetWR + n

\* Where the next event begins.
WriteEnd(n) == IF Wraps(n) THEN offsetWR + n - Size ELSE offsetWR + n

\* Mutant of Overtakes: the part of the event that wrapped is forgotten.
OvertakesFirstPart(i, n) == offsetWR < offsetSM[i] /\ (Wraps(n) \/ WriteEnd(n) > offsetSM[i])

\* The event overwrites the word that slot i would sample next.
Overtakes(i, n) ==
  IF Wraps(n)
  THEN \/ offsetWR < offsetSM[i]
       \/ offsetWR > offsetSM[i] /\ WriteEnd(n) > offsetSM[i]
  ELSE offsetWR < offsetSM[i] /\ WriteEnd(n) > offsetSM[i]

\* A sampler that is overtaken is moved to the end of the event.
MoveSamplers(n) ==
  /\ offsetSM' = [i \in Slots |-> IF i < nsampler /\ Overtakes(i, n)
                                  THEN WriteEnd(n) ELSE offsetSM[i]]
  /\ monspace' = [i \in Slots |-> IF i >= nsampler THEN monspace[i]
                                  ELSE IF Overtakes(i, n) THEN "EMPTY" ELSE "FREE"]

Write(n) ==
  /\ written + n <= MaxWords
  /\ HasRoom(n)
  /\ offsetWR' = WriteEnd(n)
  /\ space' = IF WriteEnd(n) = offsetRD THEN "FULL" ELSE "FREE"
  /\ MoveSamplers(n)
  /\ ring' = [c \in Cells |->
                IF c >= offsetWR /\ c < offsetWR + n THEN written + c - offsetWR
                ELSE IF c + Size < offsetWR + n THEN written + c + Size - offsetWR
                ELSE ring[c]]
  /\ written' = written + n
  /\ events' = events \union {<<written, n>>}
  /\ UNCHANGED <<offsetRD, nsampler, dumped, file, sample>>

\* FIFOFULL.
WriteFull(n) ==
  /\ ~HasRoom(n)
  /\ space' = "FULL"
  /\ UNCHANGED <<offsetWR, offsetRD, sampler, stream>>

\* At the start of a spill (myFIFOlock) the samplers skip to the present.
updateSamplingPoint ==
  /\ monspace' = [i \in Slots |-> IF i < nsampler THEN "EMPTY" ELSE monspace[i]]
  /\ offsetSM' = [i \in Slots |-> IF i < nsampler THEN offsetWR ELSE offsetSM[i]]
  /\ UNCHANGED <<shared, nsampler, stream>>

\* n / d rounded to the nearest integer, halves to the even one.
rint(n, d) == LET q == n \div d
                  r == 2 * (n % d)
              IN  IF r < d \/ (r = d /\ q % 2 = 0) THEN q ELSE q + 1

\* From the reader's offset to the writer's, around the ring.
Distance == IF offsetWR < offsetRD THEN offsetWR - offsetRD + Size ELSE offsetWR - offsetRD

\* Mutant of Occupancy: a full ring looks empty.
OccupancyNoFlag == rint(10000 * Distance, Size)

\* bufferOccupancy, a fraction with four decimals, in units of the last one.
Occupancy == IF offsetRD = offsetWR /\ space = "FULL" THEN 10000
             ELSE IF offsetRD = offsetWR /\ space = "EMPTY" THEN 0
             ELSE rint(10000 * Distance, Size)

-------------------------------------------------------------------------------
(***************************************************************************)
(* myFIFOReader::dumpData(file, bytes)                                     *)
(***************************************************************************)

\* The answer FIFOEMPTY.
ReadsEmpty == offsetRD = offsetWR /\ space = "EMPTY"

\* Mutant of LeavesMore: a chunk that takes all there is, is not the last.
LeavesMoreOrNone == offsetRD + Chunk <= (IF offsetRD >= offsetWR THEN Size ELSE offsetWR)

\* What is left after the chunk does not reach the end of the ring, or the
\* writer's offset.
LeavesMore == offsetRD + Chunk < (IF offsetRD >= offsetWR THEN Size ELSE offsetWR)

\* Mutant of DumpEnd: over the end of the ring, everything is taken.
DumpEndAll == IF LeavesMore THEN offsetRD + Chunk ELSE offsetWR

\* Where the chunk ends.
DumpEnd == IF LeavesMore THEN offsetRD + Chunk
           ELSE IF offsetRD >= offsetWR /\ offsetRD + Chunk - Size < offsetWR
           THEN offsetRD + Chunk - Size
           ELSE offsetWR

DumpSize == IF LeavesMore \/ DumpEnd > offsetRD THEN DumpEnd - offsetRD
            ELSE DumpEnd - offsetRD + Size

dumpData ==
  /\ ~ReadsEmpty
  /\ Len(file) + DumpSize <= MaxFile
  /\ file' = file \o Words(offsetRD, DumpSize)
  /\ space' = IF LeavesMore THEN "FREE" ELSE "EMPTY"
  /\ offsetRD' = DumpEnd
  /\ dumped' = dumped + DumpSize
  /\ UNCHANGED <<offsetWR, sampler, ring, written, events, sample>>

\* The words the first of the two fwrite calls is asked for.
FirstPart == IF offsetRD + DumpSize > Size THEN Size - offsetRD ELSE DumpSize

\* Mutant of DumpFails: the reader moves on.
DumpFailsForward(k, l) ==
  /\ FlakyDisk
  /\ ~ReadsEmpty
  /\ k + l < DumpSize
  /\ Len(file) + k + l <= MaxFile
  /\ file' = file \o Words(offsetRD, k) \o Words(0, l)
  /\ offsetRD' = DumpEnd
  /\ dumped' = dumped + DumpSize
  /\ UNCHANGED <<offsetWR, space, sampler, ring, written, events, sample>>

\* FAILED: the fwrite calls stored k and l words of their parts, offsetRD stays.
DumpFails(k, l) ==
  /\ FlakyDisk
  /\ ~ReadsEmpty
  /\ k <= FirstPart /\ l <= DumpSize - FirstPart /\ k + l < DumpSize
  /\ Len(file) + k + l <= MaxFile
  /\ file' = file \o Words(offsetRD, k) \o Words(0, l)
  /\ UNCHANGED <<shared, sampler, ring, written, dumped, events, sample>>

-------------------------------------------------------------------------------
(***************************************************************************)
(* myFIFOSampler                                                           *)
(***************************************************************************)

\* A sampler takes the next slot; the slot keeps the offset it had.
Attach == /\ nsampler < MAXSM
          /\ nsampler' = nsampler + 1
          /\ sample' = [sample EXCEPT ![nsampler] = <<>>]
          /\ UNCHANGED <<shared, offsetSM, monspace, ring, written, dumped, file, events>>

\* The sampler in the last slot leaves.
Detach == /\ nsampler > 0
          /\ nsampler' = nsampler - 1
          /\ UNCHANGED <<shared, offsetSM, monspace, stream>>

\* A header in cell c goes over the end of the ring before its size.
HeaderSplit(c) == c + SizeWord >= Size

\* The events whose size is in the word that read takes for it from a header in cell
\* c: it reads on behind the end of the ring.
Headed(c) == IF HeaderSplit(c) THEN {}
             ELSE {e \in events : e[1] + SizeWord = ring[c + SizeWord]}

\* Mutant of HeaderSizes: the size is taken without the header.
HeaderSizesShort(c) == IF Headed(c) = {} THEN JunkSizes ELSE {e[2] - 1 : e \in Headed(c)}

\* The sizes in words that read may find for cell c.  Behind the end of the ring it
\* may also find no memory and crash: then it reads nothing any more.
HeaderSizes(c) == IF Headed(c) = {} THEN JunkSizes ELSE {e[2] : e \in Headed(c)}

SampleEmpty(i) == offsetSM[i] = offsetWR /\ monspace[i] = "EMPTY"

\* Mutant of SampleEndsInData: an event may not end where the writer is.
SampleEndsBefore(i, n) ==
  IF offsetSM[i] >= offsetWR
  THEN offsetSM[i] + n < Size \/ offsetSM[i] + n - Size < offsetWR
  ELSE offsetSM[i] + n < offsetWR

\* An event of n words at the slot's offset ends where the writer says there
\* is data (otherwise read answers FAILED, or FIFOEMPTY).
SampleEndsInData(i, n) ==
  IF offsetSM[i] >= offsetWR
  THEN offsetSM[i] + n < Size \/ offsetSM[i] + n - Size <= offsetWR
  ELSE offsetSM[i] + n <= offsetWR

\* read returns the event: SUCCESS.
Sample(i) ==
  /\ i < nsampler
  /\ ~SampleEmpty(i)
  /\ space # "FULL"
  /\ \E n \in HeaderSizes(offsetSM[i]) :
       LET end == offsetSM[i] + n
           wraps == offsetSM[i] >= offsetWR /\ end >= Size
       IN /\ SampleEndsInData(i, n)
          /\ sample' = [sample EXCEPT ![i] = Words(offsetSM[i], n)]
          /\ offsetSM' = [offsetSM EXCEPT ![i] = IF wraps THEN end - Size ELSE end]
          /\ monspace' = [monspace EXCEPT ![i] =
                IF /\ wraps \/ offsetSM[i] < offsetWR
                   /\ offsetSM'[i] = offsetWR
                THEN "EMPTY" ELSE "FREE"]
  /\ UNCHANGED <<shared, nsampler, ring, written, dumped, file, events>>

\* read finds an event that goes beyond the writer's offset: it answers
\* FIFOEMPTY, and a slot that is still at offset 0 jumps to the present.
SampleBeyond(i) ==
  /\ i < nsampler
  /\ ~SampleEmpty(i)
  /\ space # "FULL"
  /\ offsetSM[i] = 0 /\ offsetWR > 0
  /\ \E n \in HeaderSizes(0) : ~SampleEndsInData(i, n)
  /\ offsetSM' = [offsetSM EXCEPT ![i] = offsetWR]
  /\ UNCHANGED <<shared, nsampler, monspace, stream>>

-------------------------------------------------------------------------------
Next == \/ \E n \in EventSizes : Write(n) \/ WriteFull(n)
        \/ updateSamplingPoint
        \/ dumpData
        \/ \E k, l \in 0 .. Size : DumpFails(k, l)
        \/ Attach
        \/ Detach
        \/ \E i \in Slots : Sample(i) \/ SampleBeyond(i)

Spec == Init /\ [][Next]_vars

-------------------------------------------------------------------------------
TypeOK == /\ offsetWR \in Cells
          /\ offsetRD \in Cells
          /\ space \in Space
          /\ nsampler \in 0 .. MAXSM
          /\ offsetSM \in [Slots -> Cells]
          /\ monspace \in [Slots -> Space]
          /\ ring \in [Cells -> Int]
          /\ written \in Nat
          /\ dumped \in Nat
          /\ file \in Seq(Int)
          /\ events \subseteq Nat \X EventSizes
          /\ sample \in [Slots -> Seq(Int)]

\* The writer never overwrites a word that has not been dumped, and the reader
\* finds the words at its offset in the order of the stream.
DataIntact == \A k \in 0 .. written - dumped - 1 :
                ring[Cell(offsetRD, k)] = dumped + k

\* dumpData answers FIFOEMPTY exactly when every word written was dumped: the
\* data writer ends the run and changes files on this answer
\* (myDataWriter.cpp:195-209).
EmptyMeansDrained == ReadsEmpty <=> written = dumped

\* write answers FIFOFULL exactly when the event does not fit, whatever the
\* flag "space" was left at by earlier calls.
FullMeansNoRoom ==
  \A n \in EventSizes : HasRoom(n) <=> written - dumped + n <= Size

\* bufferOccupancy, which the readout logs at the end of a spill, is the filled
\* part of the ring to the nearest ten-thousandth (a few words in a large ring are
\* none), also when the ring is full or the flag is stale.
OccupancyNearest ==
  2 * (Occupancy * Size - 10000 * (written - dumped)) \in -Size .. Size

\* On a disk that takes every word, the ring is a bounded FIFO queue.
Queue == INSTANCE FifoQueue WITH Size <- Size, EventSizes <- EventSizes, Chunk <- Chunk,
                                 written <- written, file <- file
ImplementsQueue == Queue!Spec

\* fwrite may fail and the chunk is written again, but no word is skipped.
NoWordSkipped == \A w \in 0 .. dumped - 1 : \E i \in 1 .. Len(file) : file[i] = w

\* The slot's offset is at the beginning of an event that is whole in the ring,
\* or at the present.
Aligned(i) == \/ SampleEmpty(i)
              \/ /\ \E e \in events : e[1] = ring[offsetSM[i]]
                 /\ ring[offsetSM[i]] >= written - Size

\* A sampler that is aligned stays so while it reads, the readout overtakes it and
\* updateSamplingPoint moves it; it only loses its place when it reads a header
\* that is split.
AlignedStaysAligned ==
  [][\A i \in Slots :
       i < nsampler /\ i < nsampler' /\ Aligned(i) =>
         Aligned(i)' \/ (HeaderSplit(offsetSM[i]) /\ Sample(i))]_vars

\* A word sequence is one event, from its header to its last word.
IsEvent(s) == /\ s # <<>>
              /\ <<s[1], Len(s)>> \in events
              /\ \A j \in 1 .. Len(s) : s[j] = s[1] + j - 1

\* From a header that is not split an aligned sampler gets a whole event, and never
\* one twice or an older one after a newer one.
SamplesWholeEventsInOrder ==
  [][\A i \in Slots :
       sample'[i] \notin {sample[i], <<>>} /\ Aligned(i) /\ ~HeaderSplit(offsetSM[i]) =>
         /\ IsEvent(sample'[i])
         /\ IsEvent(sample[i]) => sample[i][1] < sample'[i][1]]_vars

\* Neither failure answer of read ("FIFO buh", "FIFO bah") comes up for an aligned
\* sampler at a header that is not split: sampler.cpp exits on the first of them.
AlignedNeverFails ==
  \A i \in Slots :
    i < nsampler /\ ~SampleEmpty(i) /\ Aligned(i) /\ ~HeaderSplit(offsetSM[i]) =>
      \A n \in HeaderSizes(offsetSM[i]) : SampleEndsInData(i, n)

-------------------------------------------------------------------------------
(***************************************************************************)
(* The inductive invariant behind DataIntact, EmptyMeansDrained,           *)
(* FullMeansNoRoom and ImplementsQueue.                                    *)
(***************************************************************************)

\* The offsets are the stream positions modulo Size, and the writer is at most
\* one lap ahead.
Positions == /\ dumped <= written
             /\ written <= dumped + Size
             /\ \/ written - offsetWR = dumped - offsetRD
                \/ written - offsetWR = dumped - offsetRD + Size

\* When the offsets are equal the flag tells full from empty; when they are not
\* it may say anything (a rejected write and a dump over the end of the ring
\* leave FULL and EMPTY behind).
FlagTells == offsetRD = offsetWR =>
               \/ space = "EMPTY" /\ written = dumped
               \/ space = "FULL" /\ written = dumped + Size

RingInv == TypeOK /\ Positions /\ FlagTells /\ DataIntact

\* Without disk errors the file is the stream up to the reader's position.
FileIsStream == /\ Len(file) = dumped
                /\ \A i \in 1 .. Len(file) : file[i] = i - 1

-------------------------------------------------------------------------------
(***************************************************************************)
(* The inductive invariant behind the properties of the samplers.          *)
(***************************************************************************)

\* The words written since the last one in cell c was, and that one.
Age(c) == IF c < offsetWR THEN offsetWR - c ELSE offsetWR - c + Size

\* The ring holds the last Size words of the stream.
RingIsStream ==
  \A c \in Cells : ring[c] = IF Age(c) <= written THEN written - Age(c) ELSE Nothing

\* Every event ends where another one begins, or where the stream ends.
EventsTile ==
  \A e \in events : /\ e[1] + e[2] <= written
                    /\ e[1] + e[2] = written \/ \E f \in events : f[1] = e[1] + e[2]

\* Samples are of words that were written ...
SamplesWritten == \A i \in Slots : \A j \in 1 .. Len(sample[i]) : sample[i][j] < written

\* ... and a sampler that got an event is aligned, to a later one.
SamplesPast ==
  \A i \in Slots : i < nsampler /\ IsEvent(sample[i]) =>
     Aligned(i) /\ (~SampleEmpty(i) => sample[i][1] < ring[offsetSM[i]])

SampleInv == RingIsStream /\ EventsTile /\ SamplesWritten /\ SamplesPast
===============================================================================
