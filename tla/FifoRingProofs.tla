---------------------------- MODULE FifoRingProofs ----------------------------
(***************************************************************************)
(* The ring is a bounded FIFO queue for every size of the ring, of the     *)
(* events that fit it and of the chunk.                                    *)
(***************************************************************************)
EXTENDS FifoRing, SequenceTheorems, TLAPS

\* An event has a word at least and fits in the ring.
LEMMA SizesFit == \A n \in EventSizes : n \in 1 .. Size
BY RingAssumption DEF SizeWord

\* Going at most Size words further from a cell leads to a cell.
LEMMA CellType ==
  ASSUME NEW c \in Cells, NEW k \in 0 .. Size
  PROVE  Cell(c, k) \in Cells
  BY RingAssumption DEF Cells, Cell

\* Going k and then l words further is going k + l words further.
LEMMA CellAdd ==
  ASSUME NEW c \in Cells, NEW k \in Nat, NEW l \in Nat, k + l <= Size
  PROVE  Cell(Cell(c, k), l) = Cell(c, k + l)
  BY RingAssumption DEF Cells, Cell

\* The words read from k consecutive cells are a sequence of k integers.
LEMMA WordsType ==
  ASSUME TypeOK, NEW c \in Cells, NEW k \in 0 .. Size
  PROVE  /\ Words(c, k) \in Seq(Int)
         /\ Len(Words(c, k)) = k
         /\ \A j \in 1 .. k : Words(c, k)[j] = ring[Cell(c, j - 1)]
<1>1. \A j \in 1 .. k : Cell(c, j - 1) \in Cells
  BY CellType, RingAssumption
<1>2. \A j \in 1 .. k : ring[Cell(c, j - 1)] \in Int
  BY <1>1 DEF TypeOK
<1>3. QED
  BY <1>2, RingAssumption DEF Words

\* What HasRoom means: the event fits in what is not taken by undumped words.
LEMMA RoomMeaning ==
  ASSUME RingInv, NEW n \in EventSizes
  PROVE  HasRoom(n) <=> written - dumped + n <= Size
  BY SizesFit, RingAssumption DEF RingInv, TypeOK, Positions, FlagTells, HasRoom, Cells, Space

\* dumpData takes at least one word, at most a chunk and no more than there is.
LEMMA DumpMeaning ==
  ASSUME RingInv, ~ReadsEmpty
  PROVE  /\ DumpSize \in 1 .. Chunk
         /\ DumpSize <= written - dumped
         /\ DumpEnd \in Cells
         /\ DumpEnd = Cell(offsetRD, DumpSize)
         /\ LeavesMore => DumpEnd # offsetWR
         /\ DumpEnd = offsetWR => DumpSize = written - dumped
  BY RingAssumption DEF RingInv, TypeOK, Positions, FlagTells, ReadsEmpty, LeavesMore,
     DumpEnd, DumpSize, Cells, Cell

\* The facts of RingInv that hold of a FIFO that was just created.
LEMMA InitRing == Init => RingInv /\ FileIsStream
  BY RingAssumption DEF Init, RingInv, TypeOK, Positions, FlagTells, DataIntact,
     FileIsStream, Cells, Slots, Space, Nothing

\* Types are kept by every step.
LEMMA WriteTyped ==
  ASSUME TypeOK, NEW n \in EventSizes, Write(n)
  PROVE  TypeOK'
<1> USE DEF Write
<1>1. n \in 1 .. Size
  BY SizesFit, RingAssumption
<1>2. WriteEnd(n) \in Cells
  BY SizesFit, RingAssumption DEF HasRoom, WriteEnd, Wraps, TypeOK, Cells
<1>3. offsetWR' \in Cells /\ offsetRD' \in Cells /\ space' \in Space
  BY <1>2 DEF TypeOK, Space
<1>4. /\ nsampler' \in 0 .. MAXSM
      /\ offsetSM' \in [Slots -> Cells]
      /\ monspace' \in [Slots -> Space]
  BY <1>2 DEF TypeOK, MoveSamplers, Space
<1>5. ring' \in [Cells -> Int]
  BY RingAssumption DEF TypeOK, Cells
<1>6. written' \in Nat /\ events' \subseteq Nat \X EventSizes
  BY SizesFit, RingAssumption DEF TypeOK
<1>7. QED
  BY <1>3, <1>4, <1>5, <1>6 DEF TypeOK

\* A dump leaves every variable in its type.
LEMMA DumpTyped ==
  ASSUME RingInv, dumpData
  PROVE  TypeOK'
<1>1. ~ReadsEmpty
  BY DEF dumpData
<1>2. /\ DumpEnd \in Cells
      /\ DumpSize \in 0 .. Size
      /\ DumpSize \in Nat
  BY <1>1, DumpMeaning, RingAssumption DEF RingInv, TypeOK, Positions
<1>3. Words(offsetRD, DumpSize) \in Seq(Int)
  BY <1>2, WordsType DEF RingInv, TypeOK
<1>4. QED
  BY <1>2, <1>3 DEF dumpData, RingInv, TypeOK, Space, sampler

\* read leaves every variable in its type.
LEMMA SampleTyped ==
  ASSUME RingInv, NEW i \in Slots, Sample(i) \/ SampleBeyond(i)
  PROVE  TypeOK'
<1>1. CASE Sample(i)
  <2>1. PICK n \in HeaderSizes(offsetSM[i]) :
          LET end == offsetSM[i] + n
              wraps == offsetSM[i] >= offsetWR /\ end >= Size
          IN /\ SampleEndsInData(i, n)
             /\ sample' = [sample EXCEPT ![i] = Words(offsetSM[i], n)]
             /\ offsetSM' = [offsetSM EXCEPT ![i] = IF wraps THEN end - Size ELSE end]
             /\ monspace' = [monspace EXCEPT ![i] =
                   IF /\ wraps \/ offsetSM[i] < offsetWR
                      /\ offsetSM'[i] = offsetWR
                   THEN "EMPTY" ELSE "FREE"]
    BY <1>1 DEF Sample
  <2>2. n \in Nat
    <3>1. ASSUME NEW e \in events PROVE e[2] \in Nat
      <4>1. e \in Nat \X EventSizes
        BY DEF RingInv, TypeOK
      <4>2. e[2] \in EventSizes
        BY <4>1
      <4>3. \A m \in EventSizes : m \in Nat
        BY SizesFit, RingAssumption
      <4>4. QED
        BY <4>2, <4>3, Zenon
    <3>2. QED
      BY <3>1, RingAssumption DEF HeaderSizes, Headed
  <2>3. offsetSM[i] \in Cells
    BY DEF RingInv, TypeOK
  <2>4. n \in 0 .. Size
    BY <2>1, <2>2, <2>3, RingAssumption DEF SampleEndsInData, RingInv, TypeOK, Cells
  <2>5. Words(offsetSM[i], n) \in Seq(Int)
    BY <2>3, <2>4, WordsType DEF RingInv
  <2>6. sample' \in [Slots -> Seq(Int)]
    BY <2>1, <2>5 DEF RingInv, TypeOK
  <2>7. offsetSM' \in [Slots -> Cells]
    <3> DEFINE end == offsetSM[i] + n
               next == IF offsetSM[i] >= offsetWR /\ end >= Size THEN end - Size ELSE end
    <3>0. SampleEndsInData(i, n)
      BY <2>1
    <3>1. next \in Cells
      <4>1. CASE offsetSM[i] >= offsetWR
        <5>1. offsetSM[i] + n < Size \/ offsetSM[i] + n - Size <= offsetWR
          <6>1. IF offsetSM[i] >= offsetWR
                THEN offsetSM[i] + n < Size \/ offsetSM[i] + n - Size <= offsetWR
                ELSE offsetSM[i] + n <= offsetWR
            BY <3>0, Zenon DEF SampleEndsInData
          <6>2. QED
            BY <6>1, <4>1, Zenon
        <5>2. Size \in Nat \ {0} /\ offsetWR \in 0 .. Size - 1 /\ end \in Nat
          BY <2>2, <2>3, RingAssumption DEF RingInv, TypeOK, Cells
        <5>3. QED
          BY <2>2, <2>3, <4>1, <5>1, <5>2 DEF Cells
      <4>2. CASE ~(offsetSM[i] >= offsetWR)
        <5>1. next = end /\ end <= offsetWR
          BY <3>0, <4>2 DEF SampleEndsInData
        <5>2. QED
          BY <2>2, <2>3, <5>1, RingAssumption DEF RingInv, TypeOK, Cells
      <4>3. QED
        BY <4>1, <4>2
    <3>2. offsetSM' = [offsetSM EXCEPT ![i] = next]
      BY <2>1
    <3> HIDE DEF next
    <3>3. QED
      BY <3>1, <3>2 DEF RingInv, TypeOK
  <2>8. monspace' \in [Slots -> Space]
    BY <2>1 DEF RingInv, TypeOK, Space
  <2>9. QED
    BY <1>1, <2>6, <2>7, <2>8 DEF Sample, shared, RingInv, TypeOK
<1>2. CASE SampleBeyond(i)
  BY <1>2 DEF SampleBeyond, shared, stream, RingInv, TypeOK
<1>3. QED
  BY <1>1, <1>2

\* A short fwrite only adds integers to the file.
LEMMA DumpFailsTyped ==
  ASSUME RingInv, NEW k \in 0 .. Size, NEW l \in 0 .. Size, DumpFails(k, l)
  PROVE  TypeOK'
<1>1. Words(offsetRD, k) \in Seq(Int) /\ Words(0, l) \in Seq(Int)
  BY WordsType, RingAssumption DEF RingInv, TypeOK, Cells
<1>2. QED
  BY <1>1 DEF DumpFails, shared, sampler, RingInv, TypeOK

\* write puts its event where no undumped word is.
LEMMA WriteRing ==
  ASSUME RingInv, NEW n \in EventSizes, Write(n)
  PROVE  (Positions /\ FlagTells /\ DataIntact)'
<1>1. /\ n \in 1 .. Size
      /\ written - dumped + n <= Size
  BY SizesFit, RoomMeaning, RingAssumption DEF Write
<1>2. Positions'
  BY <1>1, RingAssumption DEF Write, WriteEnd, Wraps, HasRoom, RingInv, TypeOK, Positions,
     Cells
<1>3. FlagTells'
  BY <1>1, RingAssumption DEF Write, WriteEnd, Wraps, HasRoom, RingInv, TypeOK, Positions,
     FlagTells, Cells, Space
<1>4. DataIntact'
  <2>0. written' = written + n /\ dumped' = dumped /\ offsetRD' = offsetRD
    BY DEF Write
  <2> SUFFICES ASSUME NEW k \in 0 .. written + n - dumped - 1
               PROVE  ring'[Cell(offsetRD, k)] = dumped + k
    BY <1>1, <2>0 DEF DataIntact, Cell, RingInv, TypeOK
  <2>a. k \in 0 .. Size - 1
    BY <1>1, RingAssumption DEF RingInv, TypeOK
  <2>b. k \in 0 .. Size /\ offsetRD \in Cells
    BY <2>a, RingAssumption DEF RingInv, TypeOK
  <2>1. k \in 0 .. Size - 1 /\ Cell(offsetRD, k) \in Cells
    BY <2>a, <2>b, CellType
  <2>2. CASE k < written - dumped
    <3>1. ring[Cell(offsetRD, k)] = dumped + k
      BY <2>2 DEF RingInv, DataIntact, TypeOK
    <3>2. ring'[Cell(offsetRD, k)] = ring[Cell(offsetRD, k)]
      BY <1>1, <2>1, <2>2, RingAssumption
         DEF Write, RingInv, TypeOK, Positions, Cells, Cell
    <3>3. QED
      BY <3>1, <3>2
  <2>3. CASE k >= written - dumped
    <3> DEFINE c == Cell(offsetRD, k)
    <3>1. ring'[c] = IF c >= offsetWR /\ c < offsetWR + n THEN written + c - offsetWR
                     ELSE IF c + Size < offsetWR + n THEN written + c + Size - offsetWR
                     ELSE ring[c]
      BY <2>1 DEF Write
    <3>2. CASE offsetRD + k < Size
      <4>1. c = offsetRD + k
        BY <3>2 DEF Cell
      <4>2. c >= offsetWR /\ c < offsetWR + n /\ written + c - offsetWR = dumped + k
        BY <1>1, <2>1, <2>3, <3>2, <4>1, RingAssumption
           DEF RingInv, TypeOK, Positions, Cells
      <4>3. QED
        BY <3>1, <4>2
    <3>3. CASE offsetRD + k >= Size
      <4>1. c = offsetRD + k - Size
        BY <2>1, <3>3, RingAssumption DEF Cell, RingInv, TypeOK, Cells
      <4>2. \/ /\ c >= offsetWR /\ c < offsetWR + n
               /\ written + c - offsetWR = dumped + k
            \/ /\ c < offsetWR /\ c + Size < offsetWR + n
               /\ written + c + Size - offsetWR = dumped + k
        BY <1>1, <2>1, <2>3, <3>3, <4>1, RingAssumption
           DEF RingInv, TypeOK, Positions, Cells
      <4>3. QED
        BY <2>1, <3>1, <4>2 DEF RingInv, TypeOK, Cells
    <3>4. QED
      BY <2>1, <3>2, <3>3, RingAssumption DEF RingInv, TypeOK, Cells
  <2>4. QED
    BY <2>2, <2>3 DEF RingInv, TypeOK
<1>5. QED
  BY <1>2, <1>3, <1>4

\* dumpData moves to the first word that it leaves in the ring.
LEMMA DumpRing ==
  ASSUME RingInv, dumpData
  PROVE  (Positions /\ FlagTells /\ DataIntact)'
<1>1. /\ DumpSize \in Nat \ {0}
      /\ DumpSize <= written - dumped
      /\ DumpEnd \in Cells
      /\ DumpEnd = Cell(offsetRD, DumpSize)
      /\ LeavesMore => DumpEnd # offsetWR
      /\ DumpEnd = offsetWR => DumpSize = written - dumped
  BY DumpMeaning, RingAssumption DEF dumpData
<1>2. Positions'
  BY <1>1, RingAssumption DEF dumpData, RingInv, TypeOK, Positions, Cells, Cell
<1>3. FlagTells'
  BY <1>1 DEF dumpData, RingInv, TypeOK, FlagTells
<1>4. DataIntact'
  <2> SUFFICES ASSUME NEW k \in 0 .. written - (dumped + DumpSize) - 1
               PROVE  ring[Cell(DumpEnd, k)] = dumped + DumpSize + k
    BY DEF dumpData, DataIntact, Cell
  <2>1. Cell(DumpEnd, k) = Cell(offsetRD, DumpSize + k)
    BY <1>1, CellAdd, RingAssumption DEF RingInv, TypeOK, Positions
  <2>2. DumpSize + k \in 0 .. written - dumped - 1
    BY <1>1 DEF RingInv, TypeOK
  <2>3. QED
    BY <1>1, <2>1, <2>2 DEF RingInv, DataIntact, TypeOK
<1>5. QED
  BY <1>2, <1>3, <1>4

\* A write that is rejected leaves the flag FULL, which is right only because it
\* is never rejected while the offsets are equal and the ring is empty.
LEMMA WriteFullRing ==
  ASSUME RingInv, NEW n \in EventSizes, WriteFull(n)
  PROVE  RingInv'
<1>1. written - dumped + n > Size /\ n \in 1 .. Size
  BY SizesFit, RoomMeaning, RingAssumption DEF WriteFull, RingInv, TypeOK
<1>2. FlagTells'
  BY <1>1, RingAssumption DEF WriteFull, sampler, stream, RingInv, TypeOK, FlagTells
<1>3. (TypeOK /\ Positions /\ DataIntact)'
  BY DEF WriteFull, sampler, stream, RingInv, TypeOK, Positions, DataIntact, Cell, Space
<1>4. QED
  BY <1>2, <1>3 DEF RingInv

\* Every call preserves the invariant of the ring.
LEMMA NextRing ==
  ASSUME RingInv, [Next]_vars
  PROVE  RingInv'
<1>1. ASSUME NEW n \in EventSizes, Write(n) PROVE RingInv'
  BY <1>1, WriteTyped, WriteRing DEF RingInv
<1>2. ASSUME NEW n \in EventSizes, WriteFull(n) PROVE RingInv'
  BY <1>2, WriteFullRing
<1>3. CASE dumpData
  BY <1>3, DumpTyped, DumpRing DEF RingInv
<1>4. ASSUME NEW k \in 0 .. Size, NEW l \in 0 .. Size, DumpFails(k, l)
      PROVE RingInv'
  <2>1. TypeOK'
    BY <1>4, DumpFailsTyped
  <2>2. QED
    BY <1>4, <2>1 DEF DumpFails, shared, sampler, RingInv, Positions, FlagTells, DataIntact,
       Cell
<1>5. ASSUME NEW i \in Slots, Sample(i) \/ SampleBeyond(i) PROVE RingInv'
  <2>1. TypeOK'
    BY <1>5, SampleTyped
  <2>2. QED
    BY <1>5, <2>1 DEF Sample, SampleBeyond, shared, stream, RingInv, Positions, FlagTells,
       DataIntact, Cell
<1>6. CASE updateSamplingPoint
  BY <1>6 DEF updateSamplingPoint, shared, stream, RingInv, TypeOK, Positions, FlagTells,
     DataIntact, Cell, Space
<1>7. CASE Attach
  <2>1. nsampler' \in 0 .. MAXSM /\ sample' \in [Slots -> Seq(Int)]
    BY <1>7, RingAssumption DEF Attach, RingInv, TypeOK, Slots
  <2>2. QED
    BY <1>7, <2>1 DEF Attach, shared, RingInv, TypeOK, Positions, FlagTells, DataIntact, Cell
<1>8. CASE Detach
  BY <1>8, RingAssumption DEF Detach, shared, stream, RingInv, TypeOK, Positions, FlagTells,
     DataIntact, Cell
<1>9. CASE UNCHANGED vars
  BY <1>9 DEF vars, shared, sampler, stream, RingInv, TypeOK, Positions, FlagTells,
     DataIntact, Cell
<1>10. QED
  BY <1>1, <1>2, <1>3, <1>4, <1>5, <1>6, <1>7, <1>8, <1>9 DEF Next

-------------------------------------------------------------------------------
\* In every behaviour the offsets, the flag and the words agree with the stream.
THEOREM RingInvariant == Spec => []RingInv
<1>1. Init => RingInv
  BY InitRing
<1>2. QED
  BY <1>1, NextRing, PTL DEF Spec

\* The offsets stay inside the ring, of the writer, the reader and the samplers.
THEOREM RingTyped == Spec => []TypeOK
<1>1. RingInv => TypeOK
  BY DEF RingInv
<1>2. QED
  BY <1>1, RingInvariant, PTL

\* No write overwrites a word that is still to be dumped.
THEOREM NothingOverwritten == Spec => []DataIntact
<1>1. RingInv => DataIntact
  BY DEF RingInv
<1>2. QED
  BY <1>1, RingInvariant, PTL

\* FIFOEMPTY means that every word was dumped, and only that.
THEOREM EmptyIsExact == Spec => []EmptyMeansDrained
<1>1. ASSUME RingInv PROVE EmptyMeansDrained
  <2>1. CASE offsetRD = offsetWR
    BY <1>1, <2>1, RingAssumption
       DEF RingInv, TypeOK, FlagTells, EmptyMeansDrained, ReadsEmpty
  <2>2. CASE offsetRD # offsetWR
    <3>1. written # dumped
      BY <1>1, <2>2, RingAssumption DEF RingInv, TypeOK, Positions, Cells
    <3>2. QED
      BY <2>2, <3>1 DEF EmptyMeansDrained, ReadsEmpty
  <2>3. QED
    BY <2>1, <2>2
<1>2. QED
  BY <1>1, RingInvariant, PTL

\* FIFOFULL means that the event does not fit, and only that.
THEOREM FullIsExact == Spec => []FullMeansNoRoom
<1>1. RingInv => FullMeansNoRoom
  BY RoomMeaning DEF FullMeansNoRoom
<1>2. QED
  BY <1>1, RingInvariant, PTL

\* Rounding moves a fraction by at most one half.
LEMMA RintNearest ==
  ASSUME NEW n \in Nat, NEW d \in Nat \ {0}
  PROVE  rint(n, d) \in Int /\ 2 * (rint(n, d) * d - n) \in -d .. d
<1> DEFINE q == n \div d
           r == n % d
<1>1. q \in Int /\ r \in 0 .. d - 1 /\ n = d * q + r
  BY SMT
<1>2. rint(n, d) = IF 2 * r < d \/ (2 * r = d /\ q % 2 = 0) THEN q ELSE q + 1
  BY DEF rint
<1> HIDE DEF q, r
<1>3. d * q \in Int /\ q * d = d * q /\ (q + 1) * d = d * q + d
  BY <1>1, SMT
<1>4. CASE rint(n, d) = q /\ 2 * r <= d
  <2>1. rint(n, d) * d - n = 0 - r
    BY <1>1, <1>3, <1>4, SMT
  <2>2. QED
    BY <1>1, <1>4, <2>1, SMT
<1>5. CASE rint(n, d) = q + 1 /\ 2 * r >= d
  <2>1. rint(n, d) * d - n = d - r
    BY <1>1, <1>3, <1>5, SMT
  <2>2. QED
    BY <1>1, <1>5, <2>1, SMT
<1>6. QED
  BY <1>1, <1>2, <1>4, <1>5, SMT

\* The occupancy that the readout logs is the filled part of the ring, rounded.
THEOREM OccupancyIsNearest == Spec => []OccupancyNearest
<1>1. ASSUME RingInv PROVE OccupancyNearest
  <2>1. written - dumped \in 0 .. Size /\ Size \in Nat \ {0}
    BY <1>1, RingAssumption DEF RingInv, TypeOK, Positions
  <2> DEFINE k == written - dumped
  <2>2. \/ k = Size /\ Occupancy = 10000
        \/ k = 0 /\ Occupancy = 0
        \/ Distance = k /\ Occupancy = rint(10000 * Distance, Size)
    BY <1>1, RingAssumption DEF RingInv, TypeOK, Positions, FlagTells, Occupancy, Distance,
       Cells
  <2> HIDE DEF k
  <2>3. k \in Nat
    BY <2>1 DEF k
  <2>4. CASE Distance = k /\ Occupancy = rint(10000 * Distance, Size)
    <3>1. 10000 * k \in Nat
      BY <2>3
    <3>2. 2 * (rint(10000 * k, Size) * Size - 10000 * k) \in -Size .. Size
      BY <2>1, <3>1, RintNearest
    <3>3. QED
      BY <2>4, <3>2 DEF OccupancyNearest, k
  <2>5. CASE k = Size /\ Occupancy = 10000
    BY <2>1, <2>5 DEF OccupancyNearest, k
  <2>6. CASE k = 0 /\ Occupancy = 0
    BY <2>1, <2>6 DEF OccupancyNearest, k
  <2>7. QED
    BY <2>2, <2>4, <2>5, <2>6
<1>2. QED
  BY <1>1, RingInvariant, PTL

-------------------------------------------------------------------------------
\* What is appended to a file leaves the words there that it has.
LEMMA AppendKeeps ==
  ASSUME NEW f \in Seq(Int), NEW s \in Seq(Int), NEW W,
         \A w \in W : \E i \in 1 .. Len(f) : f[i] = w
  PROVE  \A w \in W : \E i \in 1 .. Len(f \o s) : (f \o s)[i] = w
<1> SUFFICES ASSUME NEW w \in W
             PROVE  \E i \in 1 .. Len(f \o s) : (f \o s)[i] = w
  OBVIOUS
<1>1. PICK i \in 1 .. Len(f) : f[i] = w
  OBVIOUS
<1>2. Len(f \o s) = Len(f) + Len(s) /\ (f \o s)[i] = w
  BY <1>1, ConcatProperties
<1>3. i \in 1 .. Len(f \o s)
  BY <1>2
<1>4. QED
  BY <1>2, <1>3

\* A chunk that is dumped whole has every word the reader's offset moves over.
LEMMA DumpSkipsNone ==
  ASSUME RingInv, NoWordSkipped, dumpData
  PROVE  NoWordSkipped'
<1> DEFINE chunk == Words(offsetRD, DumpSize)
<1>1. /\ DumpSize \in Nat \ {0}
      /\ DumpSize \in 0 .. Size
      /\ DumpSize <= written - dumped
  BY DumpMeaning, RingAssumption DEF dumpData, RingInv, TypeOK, Positions
<1>2. /\ chunk \in Seq(Int)
      /\ Len(chunk) = DumpSize
      /\ \A j \in 1 .. DumpSize : chunk[j] = ring[Cell(offsetRD, j - 1)]
  BY <1>1, WordsType DEF RingInv, TypeOK
<1>3. /\ file \in Seq(Int) /\ dumped \in Nat
      /\ file' = file \o chunk /\ dumped' = dumped + DumpSize
  BY DEF dumpData, RingInv, TypeOK
<1> HIDE DEF chunk
<1>4. \A w \in 0 .. dumped - 1 : \E i \in 1 .. Len(file') : file'[i] = w
  <2> DEFINE W == 0 .. dumped - 1
             f == file \o chunk
  <2>1. \A w \in W : \E i \in 1 .. Len(file) : file[i] = w
    BY DEF NoWordSkipped
  <2> HIDE DEF W
  <2>2. \A w \in W : \E i \in 1 .. Len(f) : f[i] = w
    BY <1>2, <1>3, <2>1, AppendKeeps
  <2>3. file' = f
    BY <1>3
  <2> HIDE DEF f
  <2>4. QED
    BY <2>2, <2>3, Zenon DEF W
<1>5. ASSUME NEW k \in 0 .. DumpSize - 1
      PROVE  \E i \in 1 .. Len(file') : file'[i] = dumped + k
  <2>1. ring[Cell(offsetRD, k)] = dumped + k
    BY <1>1, <1>3 DEF RingInv, TypeOK, DataIntact
  <2>2. chunk[k + 1] = dumped + k
    <3>1. k + 1 \in 1 .. DumpSize /\ (k + 1) - 1 = k
      BY <1>1
    <3>2. QED
      BY <1>2, <2>1, <3>1
  <2>3. Len(file) + (k + 1) \in Len(file) + 1 .. Len(file) + Len(chunk)
    BY <1>1, <1>2, <1>3
  <2>4. /\ Len(file') = Len(file) + Len(chunk)
        /\ file'[Len(file) + (k + 1)] = chunk[k + 1]
    <3> DEFINE i == Len(file) + (k + 1)
    <3>1. Len(file) \in Nat /\ Len(chunk) \in Nat
      BY <1>2, <1>3
    <3>2. i \in 1 .. Len(file) + Len(chunk) /\ ~(i <= Len(file)) /\ i - Len(file) = k + 1
      BY <2>3, <3>1
    <3> HIDE DEF i
    <3>3. (file \o chunk)[i] = chunk[i - Len(file)]
      BY <1>2, <1>3, <3>2, ConcatProperties
    <3>4. QED
      BY <1>2, <1>3, <3>2, <3>3, ConcatProperties DEF i
  <2>5. Len(file) + (k + 1) \in 1 .. Len(file')
    BY <1>3, <2>3, <2>4
  <2>6. QED
    BY <2>2, <2>4, <2>5
<1>6. ASSUME NEW w \in 0 .. dumped + DumpSize - 1
      PROVE  \E i \in 1 .. Len(file') : file'[i] = w
  <2>1. CASE w < dumped
    BY <1>3, <1>4, <2>1
  <2>2. CASE w >= dumped
    <3>1. w - dumped \in 0 .. DumpSize - 1 /\ dumped + (w - dumped) = w
      BY <1>1, <1>3, <2>2
    <3>2. QED
      BY <1>5, <3>1
  <2>3. QED
    BY <1>3, <2>1, <2>2
<1>7. SUFFICES ASSUME NEW w \in 0 .. dumped' - 1
               PROVE  \E i \in 1 .. Len(file') : file'[i] = w
  BY DEF NoWordSkipped
<1>8. dumped' = dumped + DumpSize /\ dumped \in Nat /\ DumpSize \in Nat
  BY <1>1, <1>3
<1>9. w \in 0 .. dumped + DumpSize - 1
  BY <1>8
<1>10. QED
  BY <1>6, <1>9

\* fwrite may fail and the chunk is written again, but no word is skipped: a chunk is
\* moved over only when all of it was written.
THEOREM NothingSkipped == Spec => []NoWordSkipped
<1>1. Init => NoWordSkipped
  BY DEF Init, NoWordSkipped
<1>2. ASSUME RingInv, NoWordSkipped, [Next]_vars
      PROVE  NoWordSkipped'
  <2>1. CASE dumpData
    BY <1>2, <2>1, DumpSkipsNone
  <2>2. ASSUME NEW k \in 0 .. Size, NEW l \in 0 .. Size, DumpFails(k, l)
        PROVE  NoWordSkipped'
    <3> DEFINE first == Words(offsetRD, k)
               second == Words(0, l)
    <3>1. first \in Seq(Int) /\ second \in Seq(Int)
      <4>1. TypeOK
        BY <1>2 DEF RingInv
      <4>2. 0 \in Cells /\ offsetRD \in Cells
        BY <4>1, RingAssumption DEF TypeOK, Cells
      <4>3. QED
        BY <2>2, <4>1, <4>2, WordsType
    <3>2. /\ file \in Seq(Int) /\ dumped' = dumped
          /\ file' = (file \o first) \o second
      BY <1>2, <2>2 DEF DumpFails, RingInv, TypeOK
    <3> HIDE DEF first, second
    <3> DEFINE f == file \o first
               W == 0 .. dumped - 1
    <3>3. \A w \in W : \E i \in 1 .. Len(f) : f[i] = w
      BY <1>2, <3>1, <3>2, AppendKeeps DEF NoWordSkipped
    <3>4. f \in Seq(Int)
      BY <3>1, <3>2
    <3> HIDE DEF f, W
    <3>5. \A w \in W : \E i \in 1 .. Len(f \o second) : (f \o second)[i] = w
      BY <3>1, <3>3, <3>4, AppendKeeps
    <3>6. QED
      BY <3>2, <3>5, Zenon DEF NoWordSkipped, f, W
  <2>3. CASE \/ \E n \in EventSizes : Write(n) \/ WriteFull(n)
             \/ updateSamplingPoint \/ Attach \/ Detach
             \/ \E i \in Slots : Sample(i) \/ SampleBeyond(i)
             \/ UNCHANGED vars
    BY <1>2, <2>3 DEF Write, WriteFull, updateSamplingPoint, Attach, Detach, Sample,
       SampleBeyond, vars, stream, NoWordSkipped
  <2>4. QED
    BY <1>2, <2>1, <2>2, <2>3 DEF Next
<1>3. QED
  BY <1>1, <1>2, RingInvariant, PTL DEF Spec

\* A chunk that is dumped whole holds the next words of the stream.
LEMMA DumpIsStream ==
  ASSUME RingInv, FileIsStream, dumpData
  PROVE  /\ FileIsStream'
         /\ file' = file \o [j \in 1 .. DumpSize |-> Len(file) + j - 1]
<1> DEFINE chunk == Words(offsetRD, DumpSize)
<1>1. /\ DumpSize \in Nat \ {0}
      /\ DumpSize \in 0 .. Size
      /\ DumpSize <= written - dumped
  BY DumpMeaning, RingAssumption DEF dumpData, RingInv, TypeOK, Positions
<1>2. /\ chunk \in Seq(Int)
      /\ Len(chunk) = DumpSize
      /\ \A j \in 1 .. DumpSize : chunk[j] = ring[Cell(offsetRD, j - 1)]
  BY <1>1, WordsType DEF RingInv, TypeOK
<1>3. \A j \in 1 .. DumpSize : chunk[j] = dumped + j - 1
  <2> SUFFICES ASSUME NEW j \in 1 .. DumpSize
               PROVE  ring[Cell(offsetRD, j - 1)] = dumped + j - 1
    BY <1>2
  <2>1. j - 1 \in 0 .. written - dumped - 1
    BY <1>1 DEF RingInv, TypeOK
  <2>2. QED
    BY <2>1 DEF RingInv, TypeOK, DataIntact
<1>4. file' = file \o chunk /\ dumped' = dumped + DumpSize
  BY DEF dumpData
<1>5. file \in Seq(Int) /\ Len(file) = dumped /\ dumped \in Nat
  BY DEF RingInv, TypeOK, FileIsStream
<1>6. chunk = [j \in 1 .. DumpSize |-> Len(file) + j - 1]
  <2>1. chunk = [j \in 1 .. DumpSize |-> ring[Cell(offsetRD, j - 1)]]
    BY DEF Words
  <2>2. \A j \in 1 .. DumpSize : ring[Cell(offsetRD, j - 1)] = Len(file) + j - 1
    BY <1>2, <1>3, <1>5
  <2>3. QED
    BY <2>1, <2>2
<1> HIDE DEF chunk
<1>7. Len(file') = dumped + DumpSize
  BY <1>1, <1>2, <1>4, <1>5, ConcatProperties
<1>8. \A i \in 1 .. Len(file') : file'[i] = i - 1
  <2> SUFFICES ASSUME NEW i \in 1 .. dumped + DumpSize
               PROVE  (file \o chunk)[i] = i - 1
    BY <1>4, <1>7
  <2>1. CASE i <= dumped
    <3>1. i \in 1 .. Len(file)
      BY <1>5, <2>1
    <3>2. (file \o chunk)[i] = file[i]
      BY <1>2, <1>5, <3>1, ConcatProperties
    <3>3. QED
      BY <3>1, <3>2 DEF FileIsStream
  <2>2. CASE i > dumped
    <3>1. (file \o chunk)[i] = chunk[i - dumped]
      <4>1. i \in Len(file) + 1 .. Len(file) + Len(chunk)
        BY <1>1, <1>2, <1>5, <2>2
      <4>2. QED
        BY <1>2, <1>5, <4>1, ConcatProperties
    <3>2. i - dumped \in 1 .. DumpSize
      BY <1>1, <1>5, <2>2
    <3>3. chunk[i - dumped] = dumped + (i - dumped) - 1
      BY <1>3, <3>2
    <3>4. QED
      BY <1>1, <1>5, <3>1, <3>3
  <2>3. i <= dumped \/ i > dumped
    BY <1>1, <1>5
  <2>4. QED
    BY <2>1, <2>2, <2>3
<1>9. QED
  BY <1>4, <1>6, <1>7, <1>8 DEF FileIsStream

\* Every step of the ring is a step of the queue, or none of its business.
LEMMA StepImplementsQueue ==
  ASSUME ~FlakyDisk, RingInv, FileIsStream, [Next]_vars
  PROVE  FileIsStream' /\ [Queue!Next]_<<written, file>>
<1>1. ASSUME NEW n \in EventSizes, Write(n)
      PROVE  FileIsStream' /\ [Queue!Next]_<<written, file>>
  <2>1. written - Len(file) + n <= Size
    BY <1>1, RoomMeaning DEF Write, FileIsStream
  <2>2. Queue!Put(n)
    BY <1>1, <2>1 DEF Write, Queue!Put
  <2>3. QED
    BY <1>1, <2>2 DEF Write, FileIsStream, Queue!Next
<1>2. CASE dumpData
  <2>1. FileIsStream' /\ file' = file \o [j \in 1 .. DumpSize |-> Len(file) + j - 1]
    BY <1>2, DumpIsStream
  <2>2. DumpSize \in 1 .. Chunk /\ Len(file) + DumpSize <= written
    BY <1>2, DumpMeaning DEF dumpData, RingInv, TypeOK, FileIsStream
  <2>3. Queue!Take(DumpSize)
    BY <1>2, <2>1, <2>2 DEF dumpData, Queue!Take
  <2>4. QED
    BY <2>1, <2>2, <2>3 DEF Queue!Next
<1>3. CASE \/ \E n \in EventSizes : WriteFull(n)
           \/ updateSamplingPoint \/ Attach \/ Detach
           \/ \E i \in Slots : Sample(i) \/ SampleBeyond(i)
           \/ UNCHANGED vars
  BY <1>3 DEF WriteFull, updateSamplingPoint, Attach, Detach, Sample, SampleBeyond, vars,
     stream, FileIsStream
<1>4. QED
  BY <1>1, <1>2, <1>3 DEF Next, DumpFails

\* On a disk that takes what it is given, the data file is the stream of events,
\* in order, complete up to what is still in the ring.
THEOREM RingImplementsQueue ==
  ASSUME ~FlakyDisk
  PROVE  Spec => ImplementsQueue
<1>1. Init => Queue!Init
  BY DEF Init, Queue!Init
<1>2. Init => FileIsStream
  BY InitRing
<1>3. QED
  BY <1>1, <1>2, RingInvariant, StepImplementsQueue, PTL
     DEF Spec, ImplementsQueue, Queue!Spec
===============================================================================
