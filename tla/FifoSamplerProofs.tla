--------------------------- MODULE FifoSamplerProofs ---------------------------
(***************************************************************************)
(* A sampler that begins at the start of an event gets whole events, in    *)
(* the order they were written, for every size of the ring, whatever the   *)
(* readout and the data writer do, until it reads a header that is split   *)
(* at the end of the ring.                                                 *)
(***************************************************************************)
EXTENDS FifoRingProofs

\* A cell was written at most Size words ago.
LEMMA AgeType ==
  ASSUME TypeOK, NEW c \in Cells
  PROVE  Age(c) \in 1 .. Size
  BY RingAssumption DEF TypeOK, Cells, Age

\* An event has a first word and a size, which leaves room for its size word.
LEMMA EventType ==
  ASSUME TypeOK, NEW e \in events
  PROVE  e = <<e[1], e[2]>> /\ e[1] \in Nat /\ e[2] \in 1 .. Size /\ SizeWord < e[2]
<1>1. e \in Nat \X EventSizes
  BY DEF TypeOK
<1>2. e = <<e[1], e[2]>> /\ e[1] \in Nat /\ e[2] \in EventSizes
  BY <1>1
<1>3. e[2] \in SizeWord + 1 .. Size
  BY <1>2, RingAssumption, Zenon
<1>4. QED
  BY <1>2, <1>3, RingAssumption DEF SizeWord

\* An event whose first word is in the ring is whole in the ring.
LEMMA HeaderMeaning ==
  ASSUME TypeOK, RingIsStream, EventsTile, NEW c \in Cells, NEW e \in events, e[1] = ring[c]
  PROVE  Age(c) <= written /\ e[1] = written - Age(c) /\ e[2] <= Age(c)
<1>1. Age(c) \in 1 .. Size /\ e[1] \in Nat /\ e[2] \in 1 .. Size
  BY AgeType, EventType
<1>2. e[1] + e[2] <= written
  BY DEF EventsTile
<1>3. ring[c] = IF Age(c) <= written THEN written - Age(c) ELSE -1
  BY DEF RingIsStream, Nothing
<1>4. Age(c) <= written
  BY <1>1, <1>3, RingAssumption DEF TypeOK
<1>5. QED
  BY <1>1, <1>2, <1>3, <1>4, RingAssumption DEF TypeOK

\* The words after the first one of an event are its words.
LEMMA EventWords ==
  ASSUME TypeOK, RingIsStream, EventsTile, NEW c \in Cells, NEW e \in events, e[1] = ring[c],
         NEW j \in 0 .. e[2] - 1
  PROVE  ring[Cell(c, j)] = e[1] + j
<1>1. Age(c) \in 1 .. Size /\ e[1] \in Nat /\ e[2] \in 1 .. Size
  BY AgeType, EventType
<1>2. Age(c) <= written /\ e[1] = written - Age(c) /\ e[2] <= Age(c)
  BY HeaderMeaning
<1>3. j \in 0 .. Size /\ j < Age(c)
  BY <1>1, <1>2, RingAssumption
<1>4. Cell(c, j) \in Cells
  BY <1>3, CellType
<1>5. Age(Cell(c, j)) = Age(c) - j
  <2>1. /\ Size \in Nat \ {0} /\ c \in 0 .. Size - 1 /\ offsetWR \in 0 .. Size - 1
        /\ j \in Nat
    BY <1>3, RingAssumption DEF TypeOK, Cells
  <2>2. QED
    BY <1>3, <2>1 DEF Cell, Age
<1>6. ring[Cell(c, j)] = written - (Age(c) - j)
  BY <1>1, <1>2, <1>3, <1>4, <1>5, RingAssumption DEF RingIsStream, TypeOK
<1>7. QED
  BY <1>1, <1>2, <1>3, <1>6, RingAssumption DEF TypeOK

\* Where a header is that is not split, read finds the size of an event that begins
\* there.
LEMMA SizeMeaning ==
  ASSUME TypeOK, RingIsStream, EventsTile, NEW c \in Cells, ~HeaderSplit(c),
         NEW n \in HeaderSizes(c), \E e \in events : e[1] = ring[c]
  PROVE  \E e \in events : e[1] = ring[c] /\ e[2] = n
<1>1. PICK h \in events : h[1] = ring[c]
  OBVIOUS
<1>2. h[1] \in Nat /\ SizeWord \in 0 .. h[2] - 1
  BY EventType, RingAssumption DEF SizeWord
<1>3. ring[Cell(c, SizeWord)] = h[1] + SizeWord
  BY <1>1, <1>2, EventWords
<1>4. Cell(c, SizeWord) = c + SizeWord
  BY RingAssumption DEF HeaderSplit, Cell, Cells, SizeWord
<1>5. Headed(c) = {e \in events : e[1] + SizeWord = h[1] + SizeWord}
  BY <1>3, <1>4 DEF Headed
<1>6. h \in Headed(c)
  BY <1>5
<1>7. PICK e \in Headed(c) : e[2] = n
  BY <1>6 DEF HeaderSizes
<1>8. e \in events /\ e[1] \in Nat /\ e[1] + SizeWord = h[1] + SizeWord
  BY <1>5, EventType
<1>9. e[1] = h[1]
  BY <1>2, <1>8 DEF SizeWord
<1>10. QED
  BY <1>1, <1>7, <1>8, <1>9

\* Being aligned is being at the present or at a header.
LEMMA AtHeader ==
  ASSUME TypeOK, RingIsStream, NEW i \in Slots, NEW e \in events, e[1] = ring[offsetSM[i]]
  PROVE  Aligned(i)
<1>1. offsetSM[i] \in Cells
  BY DEF TypeOK
<1>2. Age(offsetSM[i]) \in 1 .. Size /\ e[1] \in Nat
  BY <1>1, AgeType, EventType
<1>3. ring[offsetSM[i]] >= written - Size
  BY <1>1, <1>2, RingAssumption DEF RingIsStream, Nothing, TypeOK
<1>4. QED
  BY <1>3 DEF Aligned

\* An event that an aligned sampler finds ends where there is data.
LEMMA EndsInData ==
  ASSUME TypeOK, RingIsStream, EventsTile,
         NEW i \in Slots, Aligned(i), ~SampleEmpty(i), ~HeaderSplit(offsetSM[i]),
         NEW n \in HeaderSizes(offsetSM[i])
  PROVE  SampleEndsInData(i, n)
<1>1. offsetSM[i] \in Cells
  BY DEF TypeOK
<1>2. PICK e \in events : e[1] = ring[offsetSM[i]] /\ e[2] = n
  BY <1>1, SizeMeaning DEF Aligned
<1>3. n <= Age(offsetSM[i]) /\ n \in 1 .. Size
  BY <1>1, <1>2, HeaderMeaning, EventType
<1>4. QED
  BY <1>1, <1>3, RingAssumption DEF SampleEndsInData, Age, TypeOK, Cells

-------------------------------------------------------------------------------
(***************************************************************************)
(* The readout writes an event.                                            *)
(***************************************************************************)

\* After a write the ring holds the last Size words again.
LEMMA WriteStream ==
  ASSUME RingInv, RingIsStream, NEW n \in EventSizes, Write(n)
  PROVE  RingIsStream'
<1>1. n \in 1 .. Size /\ written' = written + n /\ offsetWR' = WriteEnd(n)
  BY SizesFit, RingAssumption DEF Write
<1>2. offsetWR' \in Cells /\ offsetWR \in Cells /\ written \in Nat
  BY WriteTyped DEF RingInv, TypeOK
<1>3. offsetWR' = offsetWR + n \/ offsetWR' = offsetWR + n - Size
  BY <1>1 DEF WriteEnd
<1> SUFFICES ASSUME NEW c \in Cells
             PROVE  ring'[c] = IF Age(c)' <= written' THEN written' - Age(c)' ELSE Nothing
  BY DEF RingIsStream
<1>4. ring'[c] = IF c >= offsetWR /\ c < offsetWR + n THEN written + c - offsetWR
                 ELSE IF c + Size < offsetWR + n THEN written + c + Size - offsetWR
                 ELSE ring[c]
  BY DEF Write
<1>5. ring[c] = IF Age(c) <= written THEN written - Age(c) ELSE Nothing
  BY DEF RingIsStream
<1>6. CASE c >= offsetWR /\ c < offsetWR + n
  <2>1. Age(c)' = offsetWR + n - c
    BY <1>1, <1>2, <1>3, <1>6, RingAssumption DEF Age, Cells
  <2>2. ring'[c] = written + c - offsetWR
    BY <1>4, <1>6
  <2>3. /\ offsetWR + n - c <= written'
        /\ written + c - offsetWR = written' - (offsetWR + n - c)
    BY <1>1, <1>2, <1>6, RingAssumption DEF Cells
  <2>4. QED
    BY <2>1, <2>2, <2>3
<1>7. CASE c < offsetWR /\ c + Size < offsetWR + n
  <2>1. Age(c)' = offsetWR + n - Size - c
    BY <1>1, <1>2, <1>3, <1>7, RingAssumption DEF Age, Cells
  <2>2. ring'[c] = written + c + Size - offsetWR
    BY <1>2, <1>4, <1>7 DEF Cells
  <2>3. /\ offsetWR + n - Size - c <= written'
        /\ written + c + Size - offsetWR = written' - (offsetWR + n - Size - c)
    BY <1>1, <1>2, <1>7, RingAssumption DEF Cells
  <2>4. QED
    BY <2>1, <2>2, <2>3
<1>8. CASE /\ ~(c >= offsetWR /\ c < offsetWR + n)
           /\ ~(c + Size < offsetWR + n)
  <2>1. Age(c)' = Age(c) + n
    BY <1>1, <1>2, <1>3, <1>8, RingAssumption DEF Age, Cells
  <2>2. Age(c) \in Nat /\ ring'[c] = ring[c]
    BY <1>4, <1>8, AgeType DEF RingInv
  <2>3. QED
    BY <1>1, <1>2, <1>5, <2>1, <2>2, RingAssumption
<1>9. QED
  BY <1>1, <1>2, <1>6, <1>7, <1>8, RingAssumption DEF Cells

\* The event that is written begins where the last one ended.
LEMMA WriteTiles ==
  ASSUME RingInv, EventsTile, NEW n \in EventSizes, Write(n)
  PROVE  EventsTile'
<1>1. n \in 1 .. Size /\ written \in Nat
  BY SizesFit, RingAssumption DEF RingInv, TypeOK
<1>2. written' = written + n /\ events' = events \union {<<written, n>>}
  BY DEF Write
<1> SUFFICES ASSUME NEW e \in events'
             PROVE  /\ e[1] + e[2] <= written'
                    /\ e[1] + e[2] = written' \/ \E f \in events' : f[1] = e[1] + e[2]
  BY DEF EventsTile
<1>3. CASE e = <<written, n>>
  BY <1>1, <1>2, <1>3
<1>4. CASE e \in events
  <2>1. e[1] \in Nat /\ e[2] \in Nat
    BY <1>4, EventType, RingAssumption DEF RingInv
  <2>2. e[1] + e[2] <= written
    BY <1>4 DEF EventsTile
  <2>3. CASE e[1] + e[2] = written
    <3>1. <<written, n>> \in events' /\ <<written, n>>[1] = e[1] + e[2]
      BY <1>2, <2>3
    <3>2. e[1] + e[2] <= written'
      BY <1>1, <1>2, <2>1, <2>2, RingAssumption
    <3>3. QED
      BY <3>1, <3>2
  <2>4. CASE e[1] + e[2] # written
    <3>1. PICK f \in events : f[1] = e[1] + e[2]
      BY <1>4, <2>4 DEF EventsTile
    <3>2. f \in events' /\ e[1] + e[2] <= written'
      BY <1>1, <1>2, <2>1, <2>2, RingAssumption
    <3>3. QED
      BY <3>1, <3>2
  <2>5. QED
    BY <2>3, <2>4
<1>5. QED
  BY <1>2, <1>3, <1>4

\* An aligned sampler stays where it is, at the same header or at the new one, or is
\* moved to the end of the new event.
LEMMA WriteMoves ==
  ASSUME RingInv, RingIsStream, NEW n \in EventSizes, Write(n),
         NEW i \in Slots, i < nsampler, Aligned(i)
  PROVE  \/ SampleEmpty(i)'
         \/ offsetSM'[i] = offsetSM[i] /\ ring'[offsetSM[i]] = written
         \/ /\ ~SampleEmpty(i)
            /\ offsetSM'[i] = offsetSM[i] /\ ring'[offsetSM[i]] = ring[offsetSM[i]]
<1> DEFINE c == offsetSM[i]
<1>1. n \in 1 .. Size /\ offsetWR' = WriteEnd(n) /\ HasRoom(n)
  BY SizesFit, RingAssumption DEF Write
<1>2. /\ offsetWR' \in Cells /\ offsetWR \in Cells /\ offsetRD \in Cells /\ c \in Cells
      /\ written \in Nat
  BY WriteTyped DEF RingInv, TypeOK
<1>3. /\ offsetSM'[i] = IF Overtakes(i, n) THEN WriteEnd(n) ELSE c
      /\ monspace'[i] = IF Overtakes(i, n) THEN "EMPTY" ELSE "FREE"
  <2>1. i \in Slots /\ ~(i >= nsampler)
    BY RingAssumption DEF RingInv, TypeOK, Slots
  <2>2. QED
    BY <2>1 DEF Write, MoveSamplers
<1>4. ring'[c] = IF c >= offsetWR /\ c < offsetWR + n THEN written + c - offsetWR
                 ELSE IF c + Size < offsetWR + n THEN written + c + Size - offsetWR
                 ELSE ring[c]
  BY <1>2 DEF Write
<1> HIDE DEF c
<1>5. CASE Overtakes(i, n)
  BY <1>1, <1>3, <1>5 DEF SampleEmpty
<1>6. CASE c = offsetWR
  <2>1. ~Overtakes(i, n)
    BY <1>2, <1>6 DEF Overtakes, c, Cells
  <2>2. ring'[c] = written
    BY <1>1, <1>2, <1>4, <1>6 DEF Cells
  <2>3. QED
    BY <1>3, <2>1, <2>2 DEF c
<1>7. CASE ~Overtakes(i, n) /\ c # offsetWR
  <2>1. ~(c >= offsetWR /\ c < offsetWR + n) /\ ~(c + Size < offsetWR + n)
    <3>1. CASE Wraps(n)
      <4>1. ~(offsetWR < c) /\ ~(offsetWR > c /\ offsetWR + n - Size > c)
        BY <1>7, <3>1 DEF Overtakes, WriteEnd, c
      <4>2. QED
        BY <1>1, <1>2, <1>7, <4>1, RingAssumption DEF Cells
    <3>2. CASE ~Wraps(n)
      <4>1. ~(offsetWR < c /\ offsetWR + n > c)
        BY <1>7, <3>2 DEF Overtakes, WriteEnd, c
      <4>2. offsetWR + n < Size
        BY <1>1, <1>2, <3>2, RingAssumption DEF WriteEnd, Cells
      <4>3. QED
        BY <1>1, <1>2, <1>7, <4>1, <4>2, RingAssumption DEF Cells
    <3>3. QED
      BY <3>1, <3>2
  <2>2. ring'[c] = ring[c]
    BY <1>4, <2>1
  <2>3. ~SampleEmpty(i)
    BY <1>7 DEF SampleEmpty, c
  <2>4. QED
    BY <1>3, <1>7, <2>2, <2>3 DEF c
<1>8. QED
  BY <1>5, <1>6, <1>7

\* So it stays aligned.
LEMMA WriteAligned ==
  ASSUME RingInv, RingIsStream, NEW n \in EventSizes, Write(n),
         NEW i \in Slots, i < nsampler, Aligned(i)
  PROVE  Aligned(i)'
<1>1. TypeOK' /\ RingIsStream'
  BY WriteTyped, WriteStream DEF RingInv
<1>2. events' = events \union {<<written, n>>}
  BY DEF Write
<1>3. SampleEmpty(i)' \/ \E e \in events' : e[1] = ring'[offsetSM'[i]]
  <2>1. CASE SampleEmpty(i)'
    BY <2>1
  <2>2. CASE offsetSM'[i] = offsetSM[i] /\ ring'[offsetSM[i]] = written
    <3>1. <<written, n>> \in events' /\ <<written, n>>[1] = ring'[offsetSM'[i]]
      BY <1>2, <2>2
    <3>2. QED
      BY <3>1
  <2>3. CASE /\ ~SampleEmpty(i)
             /\ offsetSM'[i] = offsetSM[i] /\ ring'[offsetSM[i]] = ring[offsetSM[i]]
    <3>1. PICK e \in events : e[1] = ring[offsetSM[i]]
      BY <2>3 DEF Aligned
    <3>2. QED
      BY <1>2, <2>3, <3>1
  <2>4. QED
    BY <2>1, <2>2, <2>3, WriteMoves
<1>4. ASSUME NEW e \in events', e[1] = ring'[offsetSM'[i]]
      PROVE  ring'[offsetSM'[i]] >= written' - Size
  <2>1. offsetSM'[i] \in Cells /\ e[1] \in Nat /\ written' \in Nat /\ offsetWR' \in Cells
    <3>1. e \in Nat \X EventSizes
      BY <1>1 DEF TypeOK
    <3>2. QED
      BY <1>1, <3>1 DEF TypeOK
  <2>2. PICK c \in Cells : c = offsetSM'[i]
    BY <2>1
  <2>3. Age(c)' \in 1 .. Size
    BY <2>1, <2>2, RingAssumption DEF Age, Cells
  <2>4. ring'[c] = IF Age(c)' <= written' THEN written' - Age(c)' ELSE Nothing
    BY <1>1, <2>2 DEF RingIsStream
  <2>5. ring'[c] \in Nat /\ Nothing = -1
    BY <1>4, <2>1, <2>2 DEF Nothing
  <2>6. ring'[c] >= written' - Size
    BY <2>1, <2>3, <2>4, <2>5, RingAssumption
  <2>7. QED
    BY <2>2, <2>6
<1>5. QED
  BY <1>3, <1>4 DEF Aligned

-------------------------------------------------------------------------------
(***************************************************************************)
(* A sampler reads.                                                        *)
(***************************************************************************)

\* What read returns, and where it leaves the slot.
LEMMA SampleMeaning ==
  ASSUME RingInv, RingIsStream, EventsTile, NEW i \in Slots, Sample(i)
  PROVE  \E n \in HeaderSizes(offsetSM[i]) :
           /\ n \in 0 .. Size
           /\ sample' = [sample EXCEPT ![i] = Words(offsetSM[i], n)]
           /\ offsetSM'[i] = IF offsetSM[i] >= offsetWR /\ offsetSM[i] + n >= Size
                             THEN offsetSM[i] + n - Size ELSE offsetSM[i] + n
           /\ n > 0 /\ (offsetSM[i] + n = offsetWR \/ offsetSM[i] + n = offsetWR + Size)
                => SampleEmpty(i)'
           /\ \A j \in Slots \ {i} : /\ offsetSM'[j] = offsetSM[j]
                                    /\ monspace'[j] = monspace[j]
                                    /\ sample'[j] = sample[j]
<1>1. PICK n \in HeaderSizes(offsetSM[i]) :
        LET end == offsetSM[i] + n
            wraps == offsetSM[i] >= offsetWR /\ end >= Size
        IN /\ SampleEndsInData(i, n)
           /\ sample' = [sample EXCEPT ![i] = Words(offsetSM[i], n)]
           /\ offsetSM' = [offsetSM EXCEPT ![i] = IF wraps THEN end - Size ELSE end]
           /\ monspace' = [monspace EXCEPT ![i] =
                 IF /\ wraps \/ offsetSM[i] < offsetWR
                    /\ offsetSM'[i] = offsetWR
                 THEN "EMPTY" ELSE "FREE"]
  BY DEF Sample
<1>2. /\ offsetSM[i] \in Cells /\ offsetWR \in Cells
      /\ offsetSM \in [Slots -> Cells] /\ monspace \in [Slots -> Space]
      /\ sample \in [Slots -> Seq(Int)]
  BY DEF RingInv, TypeOK
<1>3. n \in Nat
  <2>1. \A e \in events : e[2] \in Nat
    BY EventType, RingAssumption DEF RingInv
  <2>2. QED
    BY <2>1, RingAssumption DEF HeaderSizes, Headed
<1>4. n \in 0 .. Size
  BY <1>1, <1>2, <1>3, RingAssumption DEF SampleEndsInData, Cells
<1>5. /\ sample' = [sample EXCEPT ![i] = Words(offsetSM[i], n)]
      /\ offsetSM'[i] = IF offsetSM[i] >= offsetWR /\ offsetSM[i] + n >= Size
                        THEN offsetSM[i] + n - Size ELSE offsetSM[i] + n
  <2> DEFINE end == offsetSM[i] + n
             next == IF offsetSM[i] >= offsetWR /\ end >= Size THEN end - Size ELSE end
  <2>1. sample' = [sample EXCEPT ![i] = Words(offsetSM[i], n)]
    BY <1>1
  <2>2. offsetSM' = [offsetSM EXCEPT ![i] = next]
    BY <1>1
  <2> HIDE DEF next
  <2>3. offsetSM'[i] = next
    BY <1>2, <2>2
  <2>4. next = IF offsetSM[i] >= offsetWR /\ offsetSM[i] + n >= Size
               THEN offsetSM[i] + n - Size ELSE offsetSM[i] + n
    BY <1>2, <1>4, RingAssumption DEF next, end, Cells
  <2>5. QED
    BY <2>1, <2>3, <2>4
<1>6. \A j \in Slots \ {i} : /\ offsetSM'[j] = offsetSM[j]
                           /\ monspace'[j] = monspace[j]
                           /\ sample'[j] = sample[j]
  BY <1>1, <1>2
<1>7. ASSUME n > 0, offsetSM[i] + n = offsetWR \/ offsetSM[i] + n = offsetWR + Size
      PROVE  SampleEmpty(i)'
  <2>1. /\ offsetSM'[i] = offsetWR
        /\ \/ offsetSM[i] >= offsetWR /\ offsetSM[i] + n >= Size
           \/ offsetSM[i] < offsetWR
    BY <1>2, <1>4, <1>5, <1>7, RingAssumption DEF Cells
  <2>2. monspace' = [monspace EXCEPT ![i] = "EMPTY"]
    BY <1>1, <2>1
  <2>3. monspace'[i] = "EMPTY"
    BY <1>2, <2>2
  <2>4. QED
    BY <2>1, <2>3 DEF SampleEmpty, Sample, shared
<1>8. QED
  BY <1>4, <1>5, <1>6, <1>7

\* If the header is not split, or what it gets happens to be an event, an aligned
\* sampler gets an event, and is aligned to a later one afterwards.
LEMMA SampleAligned ==
  ASSUME RingInv, RingIsStream, EventsTile, NEW i \in Slots, Sample(i), Aligned(i),
         ~HeaderSplit(offsetSM[i]) \/ IsEvent(sample'[i])
  PROVE  /\ IsEvent(sample'[i]) /\ sample'[i][1] = ring[offsetSM[i]]
         /\ Aligned(i)'
         /\ ~SampleEmpty(i)' => ring[offsetSM'[i]] > ring[offsetSM[i]]
<1> DEFINE c == offsetSM[i]
           s == sample'[i]
<1>1. PICK n \in HeaderSizes(c) :
        /\ n \in 0 .. Size
        /\ sample' = [sample EXCEPT ![i] = Words(c, n)]
        /\ offsetSM'[i] = IF c >= offsetWR /\ c + n >= Size THEN c + n - Size ELSE c + n
        /\ n > 0 /\ (c + n = offsetWR \/ c + n = offsetWR + Size) => SampleEmpty(i)'
  BY SampleMeaning
<1>2. /\ c \in Cells /\ offsetWR \in Cells /\ written \in Nat /\ TypeOK
      /\ sample \in [Slots -> Seq(Int)]
  BY DEF RingInv, TypeOK
<1>3. ~SampleEmpty(i) /\ UNCHANGED <<offsetWR, ring, written, events>>
  BY DEF Sample, shared
<1>a. /\ s = Words(c, n) /\ Len(s) = n
      /\ \A j \in 1 .. n : s[j] = ring[Cell(c, j - 1)]
  BY <1>1, <1>2, WordsType
<1>4. PICK e \in events : e[1] = ring[c] /\ e[2] = n
  <2>1. CASE ~HeaderSplit(c)
    BY <1>1, <1>2, <1>3, <2>1, SizeMeaning DEF Aligned
  <2>2. CASE IsEvent(s)
    <3>1. s # <<>> /\ <<s[1], n>> \in events
      BY <1>a, <2>2 DEF IsEvent
    <3>2. s \in Seq(Int) /\ 1 \in 1 .. n
      BY <1>1, <1>2, <1>a, <3>1, WordsType
    <3>3. s[1] = ring[c]
      <4>1. Cell(c, 0) = c
        BY <1>2, RingAssumption DEF Cell, Cells
      <4>2. s[1] = ring[Cell(c, 1 - 1)]
        BY <1>a, <3>2
      <4>3. QED
        BY <4>1, <4>2
    <3>4. QED
      BY <3>1, <3>3
  <2>3. QED
    BY <2>1, <2>2
<1> HIDE DEF c
<1>5. /\ Age(c) \in 1 .. Size /\ e[1] = written - Age(c) /\ n \in 1 .. Age(c)
      /\ e = <<e[1], n>> /\ e[1] \in Nat
  <2>1. Age(c) \in 1 .. Size /\ e = <<e[1], e[2]>> /\ e[1] \in Nat /\ e[2] \in 1 .. Size
    BY <1>2, AgeType, EventType
  <2>2. e[1] = written - Age(c) /\ e[2] <= Age(c)
    BY <1>2, <1>4, HeaderMeaning
  <2>3. QED
    BY <1>4, <2>1, <2>2, RingAssumption
<1>6. /\ s = Words(c, n) /\ Len(s) = n
      /\ \A j \in 1 .. n : s[j] = ring[Cell(c, j - 1)]
  BY <1>a
<1> HIDE DEF s
<1>7. ASSUME NEW j \in 1 .. n PROVE s[j] = e[1] + j - 1
  <2>1. j - 1 \in 0 .. e[2] - 1 /\ j \in Nat
    BY <1>4, <1>5, RingAssumption
  <2>2. ring[Cell(c, j - 1)] = e[1] + (j - 1)
    BY <1>2, <1>4, <2>1, EventWords
  <2>3. QED
    BY <1>5, <1>6, <2>1, <2>2
<1>8. 1 \in 1 .. n /\ s[1] = e[1]
  BY <1>5, <1>7, RingAssumption
<1>9. IsEvent(s)
  <2>1. s # <<>>
    BY <1>5, <1>6, RingAssumption
  <2>2. <<s[1], Len(s)>> \in events
    BY <1>5, <1>6, <1>8
  <2>3. \A j \in 1 .. Len(s) : s[j] = s[1] + j - 1
    BY <1>6, <1>7, <1>8
  <2>4. QED
    BY <2>1, <2>2, <2>3 DEF IsEvent
<1>10. n \in Nat /\ n > 0 /\ (n = Age(c) \/ n < Age(c))
  BY <1>5, RingAssumption
<1>11. n \in Nat /\ n > 0 /\ c \in 0 .. Size - 1 /\ offsetWR \in 0 .. Size - 1
  BY <1>2, <1>10 DEF Cells
<1>12. CASE n = Age(c)
  <2>1. SampleEmpty(i)'
    <3>1. n > 0 /\ (c + n = offsetWR \/ c + n = offsetWR + Size)
      BY <1>11, <1>12, RingAssumption DEF Age
    <3>2. QED
      BY <1>1, <3>1
  <2>2. QED
    BY <1>4, <1>8, <1>9, <2>1 DEF Aligned, s, c
<1>13. CASE n # Age(c)
  <2>1. n < Age(c) /\ e[1] + n # written
    BY <1>2, <1>5, <1>13, RingAssumption
  <2>2. PICK f \in events : f[1] = e[1] + n
    BY <1>4, <2>1 DEF EventsTile
  <2>3. PICK d \in Cells : d = offsetSM'[i] /\ Age(d) = Age(c) - n
    <3> DEFINE next == IF c >= offsetWR /\ c + n >= Size THEN c + n - Size ELSE c + n
    <3>1. next \in Cells /\ Age(next) = Age(c) - n
      BY <1>11, <2>1, RingAssumption DEF Age, Cells
    <3>2. offsetSM'[i] = next
      BY <1>1
    <3> HIDE DEF next
    <3>3. QED
      BY <3>1, <3>2
  <2>4. ring[d] = f[1]
    BY <1>2, <1>5, <2>1, <2>2, <2>3, RingAssumption DEF RingIsStream
  <2>5. ring[d] >= written - Size /\ ring[d] > e[1]
    BY <1>2, <1>5, <2>1, <2>2, <2>4, RingAssumption
  <2>6. Aligned(i)'
    BY <1>3, <2>2, <2>3, <2>4, <2>5 DEF Aligned
  <2>7. QED
    BY <1>4, <1>8, <1>9, <2>3, <2>5, <2>6 DEF s, c
<1>14. QED
  BY <1>12, <1>13

\* Whatever a sampler reads was written.
LEMMA SampleWritten ==
  ASSUME RingInv, RingIsStream, EventsTile, SamplesWritten, NEW i \in Slots, Sample(i)
  PROVE  SamplesWritten'
<1>1. PICK n \in HeaderSizes(offsetSM[i]) :
        /\ n \in 0 .. Size
        /\ sample' = [sample EXCEPT ![i] = Words(offsetSM[i], n)]
        /\ \A j \in Slots \ {i} : sample'[j] = sample[j]
  BY SampleMeaning
<1>2. /\ offsetSM[i] \in Cells /\ written \in Nat /\ TypeOK /\ written' = written
      /\ sample \in [Slots -> Seq(Int)]
  BY DEF Sample, RingInv, TypeOK
<1>3. \A c \in Cells : ring[c] < written
  <2> SUFFICES ASSUME NEW c \in Cells PROVE ring[c] < written
    OBVIOUS
  <2>1. Age(c) \in 1 .. Size
    BY <1>2, AgeType
  <2>2. QED
    BY <1>2, <2>1, RingAssumption DEF RingIsStream, Nothing
<1>4. sample'[i] = Words(offsetSM[i], n)
  BY <1>1, <1>2
<1>5. ASSUME NEW j \in 1 .. Len(sample'[i]) PROVE sample'[i][j] < written
  <2>1. j \in 1 .. n /\ sample'[i][j] = ring[Cell(offsetSM[i], j - 1)]
    BY <1>1, <1>2, <1>4, <1>5, WordsType
  <2>2. j - 1 \in 0 .. Size
    BY <1>1, <2>1, RingAssumption
  <2>3. QED
    BY <1>2, <1>3, <2>1, <2>2, CellType
<1>6. QED
  BY <1>1, <1>2, <1>5 DEF SamplesWritten

\* A sampler that gets an event was aligned.
LEMMA EventFromHeader ==
  ASSUME RingInv, RingIsStream, EventsTile, NEW i \in Slots, Sample(i), IsEvent(sample'[i])
  PROVE  Aligned(i)
<1>1. PICK n \in HeaderSizes(offsetSM[i]) :
        /\ n \in 0 .. Size
        /\ sample' = [sample EXCEPT ![i] = Words(offsetSM[i], n)]
  BY SampleMeaning
<1>2. offsetSM[i] \in Cells /\ TypeOK /\ sample \in [Slots -> Seq(Int)]
  BY DEF RingInv, TypeOK
<1>3. /\ sample'[i] \in Seq(Int) /\ Len(sample'[i]) = n
      /\ \A j \in 1 .. n : sample'[i][j] = ring[Cell(offsetSM[i], j - 1)]
  BY <1>1, <1>2, WordsType
<1>4. sample'[i] # <<>> /\ <<sample'[i][1], Len(sample'[i])>> \in events
  BY DEF IsEvent
<1>5. 1 \in 1 .. n /\ Cell(offsetSM[i], 0) = offsetSM[i]
  BY <1>1, <1>2, <1>3, <1>4, RingAssumption DEF Cell, Cells
<1>6. sample'[i][1] = ring[offsetSM[i]]
  BY <1>3, <1>5
<1>7. PICK e \in events : e[1] = ring[offsetSM[i]]
  BY <1>4, <1>6
<1>8. QED
  BY <1>2, <1>7, AtHeader

-------------------------------------------------------------------------------
(***************************************************************************)
(* The invariant and the properties.                                       *)
(***************************************************************************)

\* The invariant holds of a FIFO that was just created.
LEMMA InitSample == Init => SampleInv
<1> SUFFICES ASSUME Init PROVE SampleInv
  OBVIOUS
<1>1. RingIsStream
  <2> SUFFICES ASSUME NEW c \in Cells
               PROVE  ring[c] = IF Age(c) <= written THEN written - Age(c) ELSE Nothing
    BY DEF RingIsStream
  <2>1. Age(c) \in 1 .. Size
    BY RingAssumption DEF Init, Age, Cells
  <2>2. QED
    BY <2>1, RingAssumption DEF Init
<1>2. EventsTile /\ SamplesWritten /\ SamplesPast
  BY RingAssumption DEF Init, EventsTile, SamplesWritten, SamplesPast, IsEvent, Slots
<1>3. QED
  BY <1>1, <1>2 DEF SampleInv

\* A write leaves a sampler that got an event before a later one.
LEMMA WritePast ==
  ASSUME RingInv, SampleInv, NEW n \in EventSizes, Write(n)
  PROVE  SampleInv'
<1>1. RingIsStream /\ EventsTile /\ SamplesWritten /\ SamplesPast
  BY DEF SampleInv
<1>2. RingIsStream' /\ EventsTile'
  BY <1>1, WriteStream, WriteTiles
<1>3. /\ sample' = sample /\ nsampler' = nsampler /\ events' = events \union {<<written, n>>}
      /\ written \in Nat /\ n \in 1 .. Size /\ written' = written + n
      /\ sample \in [Slots -> Seq(Int)]
  BY SizesFit, RingAssumption DEF Write, RingInv, TypeOK
<1>4. SamplesWritten'
  <2> SUFFICES ASSUME NEW i \in Slots, NEW j \in 1 .. Len(sample[i])
               PROVE  sample[i][j] < written'
    BY <1>3 DEF SamplesWritten
  <2>1. sample[i][j] < written
    BY <1>1 DEF SamplesWritten
  <2>2. sample[i][j] \in Int
    BY <1>3
  <2>3. QED
    BY <1>3, <2>1, <2>2, RingAssumption
<1>5. SamplesPast'
  <2> SUFFICES ASSUME NEW i \in Slots, i < nsampler, IsEvent(sample[i])'
               PROVE  Aligned(i)' /\ (~SampleEmpty(i)' => sample[i][1] < ring'[offsetSM'[i]])
    BY <1>3 DEF SamplesPast
  <2>1. /\ sample[i] # <<>> /\ <<sample[i][1], Len(sample[i])>> \in events'
        /\ \A j \in 1 .. Len(sample[i]) : sample[i][j] = sample[i][1] + j - 1
    BY <1>3 DEF IsEvent
  <2>2. 1 \in 1 .. Len(sample[i])
    BY <1>3, <2>1
  <2>3. sample[i][1] < written
    BY <1>1, <2>2 DEF SamplesWritten
  <2>4. <<sample[i][1], Len(sample[i])>> # <<written, n>>
    BY <1>3, <2>3
  <2>5. <<sample[i][1], Len(sample[i])>> \in events
    BY <1>3, <2>1, <2>4
  <2>6. IsEvent(sample[i])
    BY <2>1, <2>5 DEF IsEvent
  <2>7. Aligned(i) /\ (~SampleEmpty(i) => sample[i][1] < ring[offsetSM[i]])
    BY <1>1, <2>6 DEF SamplesPast
  <2>8. Aligned(i)'
    BY <1>1, <2>7, WriteAligned
  <2>9. ~SampleEmpty(i)' => sample[i][1] < ring'[offsetSM'[i]]
    BY <1>1, <2>3, <2>7, WriteMoves
  <2>10. QED
    BY <2>8, <2>9
<1>6. QED
  BY <1>2, <1>4, <1>5 DEF SampleInv

\* A sample leaves the sampler past the event it got.
LEMMA SamplePast ==
  ASSUME RingInv, SampleInv, NEW i \in Slots, Sample(i)
  PROVE  SampleInv'
<1>1. RingIsStream /\ EventsTile /\ SamplesWritten /\ SamplesPast
  BY DEF SampleInv
<1>2. UNCHANGED <<offsetWR, ring, written, events, nsampler>>
  BY DEF Sample, shared
<1>3. RingIsStream' /\ EventsTile' /\ SamplesWritten'
  BY <1>1, <1>2, SampleWritten DEF RingIsStream, EventsTile, Age
<1>4. ASSUME NEW j \in Slots, j < nsampler, IsEvent(sample'[j])
      PROVE  Aligned(j)' /\ (~SampleEmpty(j)' => sample'[j][1] < ring'[offsetSM'[j]])
  <2>1. CASE j = i
    <3>1. Aligned(i)
      BY <1>1, <1>4, <2>1, EventFromHeader
    <3>2. /\ sample'[i][1] = ring[offsetSM[i]]
          /\ Aligned(i)'
          /\ ~SampleEmpty(i)' => ring[offsetSM'[i]] > ring[offsetSM[i]]
      BY <1>1, <1>4, <2>1, <3>1, SampleAligned
    <3>3. offsetSM[i] \in Cells /\ offsetSM'[i] \in Cells
      BY SampleTyped DEF RingInv, TypeOK
    <3>4. ring[offsetSM[i]] \in Int /\ ring[offsetSM'[i]] \in Int
      BY <3>3 DEF RingInv, TypeOK
    <3>5. QED
      BY <1>2, <2>1, <3>2, <3>4
  <2>2. CASE j # i
    <3>1. /\ offsetSM'[j] = offsetSM[j] /\ monspace'[j] = monspace[j]
          /\ sample'[j] = sample[j]
      BY <1>1, <2>2, SampleMeaning
    <3>2. Aligned(j) /\ (~SampleEmpty(j) => sample[j][1] < ring[offsetSM[j]])
      BY <1>1, <1>4, <3>1 DEF SamplesPast
    <3>3. QED
      BY <1>2, <3>1, <3>2 DEF Aligned, SampleEmpty
  <2>3. QED
    BY <2>1, <2>2
<1>5. SamplesPast'
  BY <1>2, <1>4 DEF SamplesPast, IsEvent
<1>6. QED
  BY <1>3, <1>5 DEF SampleInv

\* An aligned sampler does not find an event that goes beyond the writer: the header
\* in cell 0 is not split.
LEMMA NotBeyond ==
  ASSUME RingInv, RingIsStream, EventsTile, NEW i \in Slots, SampleBeyond(i)
  PROVE  ~Aligned(i)
<1> SUFFICES ASSUME Aligned(i) PROVE FALSE
  OBVIOUS
<1>1. TypeOK /\ ~SampleEmpty(i) /\ offsetSM[i] = 0
  BY DEF SampleBeyond, RingInv
<1>2. PICK e \in events : e[1] = ring[0]
  BY <1>1 DEF Aligned
<1>3. ~HeaderSplit(0)
  BY <1>1, EventType, RingAssumption DEF HeaderSplit, SizeWord
<1>4. QED
  BY <1>1, <1>3, EndsInData DEF SampleBeyond

\* Every call keeps the invariant of the samplers.
LEMMA NextSample ==
  ASSUME RingInv, SampleInv, [Next]_vars
  PROVE  SampleInv'
<1>1. RingIsStream /\ EventsTile /\ SamplesWritten /\ SamplesPast
  BY DEF SampleInv
<1>2. ASSUME UNCHANGED <<offsetWR, ring, written, events>>
      PROVE  RingIsStream' /\ EventsTile'
  BY <1>1, <1>2 DEF RingIsStream, EventsTile, Age
<1>3. CASE \/ dumpData \/ (\E n \in EventSizes : WriteFull(n)) \/ Detach \/ UNCHANGED vars
           \/ \E k, l \in 0 .. Size : DumpFails(k, l)
  <2>1. /\ UNCHANGED <<offsetWR, ring, written, events, offsetSM, monspace, sample>>
        /\ nsampler' \in 0 .. nsampler /\ nsampler \in Nat
    BY <1>3, RingAssumption DEF dumpData, WriteFull, Detach, DumpFails, vars, shared, sampler,
       stream, RingInv, TypeOK
  <2>2. SamplesWritten'
    BY <1>1, <2>1 DEF SamplesWritten
  <2>3. \A i \in Slots : i < nsampler' => i < nsampler
    BY <2>1, RingAssumption DEF Slots
  <2>4. SamplesPast'
    BY <1>1, <2>1, <2>3 DEF SamplesPast, IsEvent, Aligned, SampleEmpty
  <2>5. QED
    BY <1>2, <2>1, <2>2, <2>4 DEF SampleInv
<1>4. CASE updateSamplingPoint
  <2>1. /\ UNCHANGED <<offsetWR, ring, written, events, sample, nsampler>>
        /\ \A i \in Slots : i < nsampler => SampleEmpty(i)'
    BY <1>4 DEF updateSamplingPoint, shared, stream, SampleEmpty
  <2>2. SamplesWritten' /\ SamplesPast'
    BY <1>1, <2>1 DEF SamplesWritten, SamplesPast, Aligned
  <2>3. QED
    BY <1>2, <2>1, <2>2 DEF SampleInv
<1>5. CASE Attach
  <2>1. /\ UNCHANGED <<offsetWR, ring, written, events, offsetSM, monspace>>
        /\ nsampler' = nsampler + 1 /\ nsampler \in Slots
        /\ sample \in [Slots -> Seq(Int)] /\ sample' = [sample EXCEPT ![nsampler] = <<>>]
    BY <1>5, RingAssumption DEF Attach, shared, RingInv, TypeOK, Slots
  <2>2. /\ sample'[nsampler] = <<>>
        /\ \A i \in Slots : i < nsampler' /\ i # nsampler => i < nsampler
        /\ \A i \in Slots : i # nsampler => sample'[i] = sample[i]
    BY <2>1, RingAssumption DEF Slots
  <2>3. SamplesWritten'
    BY <1>1, <2>1, <2>2 DEF SamplesWritten
  <2>4. SamplesPast'
    BY <1>1, <2>1, <2>2 DEF SamplesPast, IsEvent, Aligned, SampleEmpty
  <2>5. QED
    BY <1>2, <2>1, <2>3, <2>4 DEF SampleInv
<1>6. ASSUME NEW i \in Slots, SampleBeyond(i)
      PROVE  SampleInv'
  <2>1. /\ UNCHANGED <<offsetWR, ring, written, events, monspace, sample, nsampler>>
        /\ \A j \in Slots \ {i} : offsetSM'[j] = offsetSM[j]
    BY <1>6 DEF SampleBeyond, shared, stream, RingInv, TypeOK
  <2>2. ~Aligned(i)
    BY <1>1, <1>6, NotBeyond
  <2>3. SamplesWritten'
    BY <1>1, <2>1 DEF SamplesWritten
  <2>4. SamplesPast'
    BY <1>1, <2>1, <2>2 DEF SamplesPast, IsEvent, Aligned, SampleEmpty
  <2>5. QED
    BY <1>2, <2>1, <2>3, <2>4 DEF SampleInv
<1>7. QED
  BY <1>3, <1>4, <1>5, <1>6, WritePast, SamplePast DEF Next

\* In every behaviour the ring holds the end of the stream, and samplers that got an
\* event are at a later one.
THEOREM SampleInvariant == Spec => []SampleInv
  BY InitSample, NextSample, RingInvariant, PTL DEF Spec

\* read never answers FAILED to an aligned sampler at a header that is not split.
THEOREM AlignedReads == Spec => []AlignedNeverFails
<1>1. RingInv /\ SampleInv => AlignedNeverFails
  BY EndsInData DEF AlignedNeverFails, RingInv, SampleInv
<1>2. QED
  BY <1>1, RingInvariant, SampleInvariant, PTL

\* An aligned sampler stays aligned, whether the readout overtakes it or it reads,
\* unless it reads a header that is split.
THEOREM AlignedStays == Spec => AlignedStaysAligned
<1> DEFINE Stays == \A i \in Slots :
                      i < nsampler /\ i < nsampler' /\ Aligned(i) =>
                        Aligned(i)' \/ (HeaderSplit(offsetSM[i]) /\ Sample(i))
<1>1. ASSUME RingInv, SampleInv, [Next]_vars
      PROVE  [Stays]_vars
  <2> SUFFICES ASSUME NEW i \in Slots, i < nsampler, Aligned(i),
                      ~(HeaderSplit(offsetSM[i]) /\ Sample(i))
               PROVE  Aligned(i)'
    OBVIOUS
  <2>1. TypeOK /\ RingIsStream /\ EventsTile
    BY <1>1 DEF RingInv, SampleInv
  <2>2. ASSUME NEW n \in EventSizes, Write(n) PROVE Aligned(i)'
    BY <1>1, <2>1, <2>2, WriteAligned
  <2>3. CASE \/ dumpData \/ (\E n \in EventSizes : WriteFull(n)) \/ Attach \/ Detach
             \/ (\E k, l \in 0 .. Size : DumpFails(k, l)) \/ UNCHANGED vars
    BY <2>3 DEF dumpData, WriteFull, Attach, Detach, DumpFails, vars, shared, sampler,
       stream, Aligned, SampleEmpty
  <2>4. CASE updateSamplingPoint
    BY <2>4 DEF updateSamplingPoint, shared, Aligned, SampleEmpty
  <2>5. ASSUME NEW j \in Slots, Sample(j) PROVE Aligned(i)'
    <3>1. CASE j = i
      BY <1>1, <2>1, <2>5, <3>1, SampleAligned
    <3>2. CASE j # i
      <4>1. offsetSM'[i] = offsetSM[i] /\ monspace'[i] = monspace[i]
        BY <1>1, <2>1, <2>5, <3>2, SampleMeaning
      <4>2. UNCHANGED <<offsetWR, ring, written, events>>
        BY <2>5 DEF Sample, shared
      <4>3. QED
        BY <4>1, <4>2 DEF Aligned, SampleEmpty
    <3>3. QED
      BY <3>1, <3>2
  <2>6. ASSUME NEW j \in Slots, SampleBeyond(j) PROVE Aligned(i)'
    <3>1. j # i
      BY <1>1, <2>1, <2>6, NotBeyond
    <3>2. offsetSM'[i] = offsetSM[i]
      BY <2>1, <2>6, <3>1 DEF SampleBeyond, TypeOK
    <3>3. QED
      BY <2>6, <3>2 DEF SampleBeyond, shared, stream, Aligned, SampleEmpty
  <2>7. QED
    BY <1>1, <2>2, <2>3, <2>4, <2>5, <2>6 DEF Next
<1>2. QED
  BY <1>1, RingInvariant, SampleInvariant, PTL DEF Spec, AlignedStaysAligned

\* An aligned sampler at a header that is not split gets a whole event, later than
\* the one before.
THEOREM WholeEventsInOrder == Spec => SamplesWholeEventsInOrder
<1> DEFINE InOrder == \A i \in Slots :
             sample'[i] \notin {sample[i], <<>>} /\ Aligned(i)
                /\ ~HeaderSplit(offsetSM[i]) =>
               /\ IsEvent(sample'[i])
               /\ IsEvent(sample[i]) => sample[i][1] < sample'[i][1]
<1>1. ASSUME RingInv, SampleInv, [Next]_vars
      PROVE  [InOrder]_vars
  <2> SUFFICES ASSUME NEW i \in Slots, sample'[i] # sample[i], sample'[i] # <<>>, Aligned(i),
                      ~HeaderSplit(offsetSM[i])
               PROVE  /\ IsEvent(sample'[i])
                      /\ IsEvent(sample[i]) => sample[i][1] < sample'[i][1]
    OBVIOUS
  <2>1. RingIsStream /\ EventsTile /\ SamplesPast
    BY <1>1 DEF SampleInv
  <2>2. CASE Attach
    <3>1. sample \in [Slots -> Seq(Int)] /\ sample' = [sample EXCEPT ![nsampler] = <<>>]
      BY <1>1, <2>2 DEF Attach, RingInv, TypeOK
    <3>2. QED
      BY <3>1
  <2>3. ASSUME NEW j \in Slots, Sample(j)
        PROVE  /\ IsEvent(sample'[i])
               /\ IsEvent(sample[i]) => sample[i][1] < sample'[i][1]
    <3>1. j = i
      BY <1>1, <2>1, <2>3, SampleMeaning
    <3>2. IsEvent(sample'[i]) /\ sample'[i][1] = ring[offsetSM[i]]
      BY <1>1, <2>1, <2>3, <3>1, SampleAligned
    <3>3. i < nsampler /\ ~SampleEmpty(i)
      BY <2>3, <3>1 DEF Sample
    <3>4. QED
      BY <2>1, <3>2, <3>3 DEF SamplesPast
  <2>4. CASE ~Attach /\ ~\E j \in Slots : Sample(j)
    <3>1. sample' = sample
      BY <1>1, <2>4 DEF Next, Write, WriteFull, updateSamplingPoint, dumpData, DumpFails,
         Detach, SampleBeyond, vars, stream
    <3>2. QED
      BY <3>1
  <2>5. QED
    BY <2>2, <2>3, <2>4
<1>2. QED
  BY <1>1, RingInvariant, SampleInvariant, PTL DEF Spec, SamplesWholeEventsInOrder
===============================================================================
