---------------------------- MODULE SpsReadOutProofs ----------------------------
(***************************************************************************)
(* Proofs about SpsReadOut, for every number of modules, fraction of       *)
(* pedestals, and amount of strobes and noise.                             *)
(***************************************************************************)
EXTENDS SpsReadOut, TLAPS

\* What the modules are.
LEMMA ModuleFacts ==
  /\ NQdc \in Nat \ {0} /\ NTdc \in Nat /\ NQdc + NTdc \in Nat \ {0, 1}
  /\ 1 \in Modules /\ 1 \in Qdcs /\ Qdcs \subseteq Modules /\ Modules \subseteq Nat
  /\ \A m \in Modules : m >= 1 /\ m <= NQdc + NTdc /\ (m < NQdc + NTdc => m + 1 \in Modules)
  /\ \A m \in Modules : \E x \in Modules : x # m
<1>1. NQdc \in Nat \ {0} /\ NTdc \in Nat /\ NQdc + NTdc \in Nat \ {0, 1}
  BY SpsAssumption, SMT
<1>2. /\ 1 \in Modules /\ 1 \in Qdcs /\ Qdcs \subseteq Modules /\ Modules \subseteq Nat
      /\ \A m \in Modules : m >= 1 /\ m <= NQdc + NTdc /\ (m < NQdc + NTdc => m + 1 \in Modules)
  BY <1>1, SMT DEF Modules, Qdcs
<1>3. 1 \in Modules /\ 2 \in Modules /\ 1 # 2
  BY <1>1, SMT DEF Modules
<1> QED
  BY <1>1, <1>2, <1>3

\* What a module stores of a gate.
Datum == [strobe : Nat, num : Nat]

\* What is appended to a buffer is in it.
LEMMA AppendFacts ==
  ASSUME NEW q \in Seq(Datum), NEW e \in Datum
  PROVE  /\ Append(q, e) \in Seq(Datum) /\ Append(q, e) # <<>>
         /\ q = <<>> => Append(q, e) = <<e>>
<1>1. Append(q, e) \in Seq(Datum) /\ Len(Append(q, e)) = Len(q) + 1 /\ Len(q) \in Nat
  BY SMT DEF Datum
<1>2. Len(<<>>) = 0
  BY SMT
<1>3. q = <<>> => Append(q, e) = <<e>>
  BY SMT
<1> QED
  BY <1>1, <1>2, <1>3, SMT

\* What a file has after a line was appended.
LEMMA LineFacts ==
  ASSUME NEW L, NEW q \in Seq(L), NEW e \in L
  PROVE  /\ Append(q, e) \in Seq(L) /\ Len(q) \in Nat /\ Len(Append(q, e)) = Len(q) + 1
         /\ Append(q, e)[Len(q) + 1] = e
         /\ \A i \in 1 .. Len(q) : Append(q, e)[i] = q[i]
BY SMT

\* What is left of a buffer when its oldest datum is read.
LEMMA HeadFacts ==
  /\ \A q \in Seq(Datum) : q # <<>> => Head(q) \in Datum /\ Tail(q) \in Seq(Datum)
  /\ \A e : Head(<<e>>) = e /\ Tail(<<e>>) = <<>>
  /\ <<>> \in Seq(Datum)
<1>1. ASSUME NEW q \in Seq(Datum), q # <<>>
      PROVE  Head(q) \in Datum /\ Tail(q) \in Seq(Datum)
  BY <1>1, SMT
<1>2. \A e : Head(<<e>>) = e /\ Tail(<<e>>) = <<>>
  BY SMT
<1>3. <<>> \in Seq(Datum)
  BY SMT
<1> QED
  BY <1>1, <1>2, <1>3

\* A step that writes no line changes nothing that is said of lines.
LEMMA LinesSame ==
  ASSUME UNCHANGED <<program, lines, trignum>>
  PROVE  /\ SlipsAreMarked => SlipsAreMarked'
         /\ AlignedWithFers /\ (lucky' => lucky) => AlignedWithFers'
         /\ Live' <=> Live
         /\ \A m : InTime(m)' <=> InTime(m)
<1>1. SlipsAreMarked => SlipsAreMarked'
  BY Zenon DEF SlipsAreMarked
<1>2. AlignedWithFers /\ (lucky' => lucky) => AlignedWithFers'
  BY DEF AlignedWithFers
<1>3. Live' <=> Live
  BY DEF Live
<1>4. \A m : InTime(m)' <=> InTime(m)
  BY DEF InTime
<1> QED
  BY <1>1, <1>2, <1>3, <1>4

\* Gates are counted and stored.
LEMMA GateTyped ==
  ASSUME TypeOK, NEW S \in SUBSET Modules, NEW n \in Nat, Gate(S, n)
  PROVE  /\ count' \in [Modules -> Nat]
         /\ buffer' \in [Modules -> Seq(Datum)]
<1>1. count \in [Modules -> Nat] /\ buffer \in [Modules -> Seq(Datum)]
  BY DEF TypeOK, Datum
<1>2. count' \in [Modules -> Nat]
  BY <1>1 DEF Gate
<1>3. ASSUME NEW m \in Modules
      PROVE  Append(buffer[m], [strobe |-> n, num |-> count[m]]) \in Seq(Datum)
  <2>1. [strobe |-> n, num |-> count[m]] \in Datum /\ buffer[m] \in Seq(Datum)
    BY <1>1 DEF Datum
  <2> QED
    BY <2>1, AppendFacts
<1> QED
  BY <1>1, <1>2, <1>3 DEF Gate

\* What is expected of a module at the next strobe, in terms of the values it had.
FreshThen(m, n, b) ==
  /\ count'[m] - n >= strobes' - b
  /\ InTime(m) /\ count'[m] - n = strobes' - b =>
       /\ strobes' = b => buffer'[m] = <<>>
       /\ strobes' = b + 1 => buffer'[m] = <<[strobe |-> b + 1, num |-> n]>>
       /\ strobes' > b => buffer'[m] # <<>>

\* Gates of a strobe that every module sees, or of no strobe.
Gates(S) == /\ S \in SUBSET Modules
            /\ Gate(S, strobes')
            /\ (S = Modules /\ strobes' = strobes + 1) \/ strobes' = strobes
            /\ UNCHANGED <<program, lines, trignum, offset, base, pc, at, got, nev>>

\* They leave a module fresh.
LEMMA GatesFresh ==
  ASSUME TypeOK, NEW S, Gates(S), NEW m \in Modules, NEW n \in Int, NEW b \in Int, b <= strobes,
         Fresh(m, n, b)
  PROVE  FreshThen(m, n, b)
<1>1. strobes \in Nat /\ count[m] \in Nat /\ buffer[m] \in Seq(Datum) /\ strobes' \in Nat
  BY DEF TypeOK, Datum, Gates
<1>2. CASE m \notin S
  <2>1. count'[m] = count[m] /\ buffer'[m] = buffer[m] /\ strobes' = strobes
    BY <1>2 DEF Gates, Gate
  <2> QED
    BY <2>1 DEF Fresh, FreshThen
<1>3. CASE m \in S /\ strobes' = strobes
  <2>1. count'[m] = count[m] + 1
    BY <1>3 DEF Gates, Gate
  <2> QED
    BY <1>1, <1>3, <2>1, SMT DEF Fresh, FreshThen
<1>4. CASE m \in S /\ strobes' = strobes + 1
  <2> DEFINE e == [strobe |-> strobes + 1, num |-> count[m]]
  <2>1. e \in Datum
    BY <1>1 DEF Datum
  <2>2. count'[m] = count[m] + 1 /\ buffer'[m] = Append(buffer[m], e)
    BY <1>4 DEF Gates, Gate
  <2> HIDE DEF e
  <2>3. buffer'[m] # <<>> /\ (buffer[m] = <<>> => buffer'[m] = <<e>>)
    BY <1>1, <2>1, <2>2, AppendFacts
  <2>4. count'[m] - n >= strobes' - b
    BY <1>1, <1>4, <2>2, SMT DEF Fresh
  <2>5. ASSUME InTime(m), count'[m] - n = strobes' - b, strobes' = b + 1
        PROVE  buffer'[m] = <<[strobe |-> b + 1, num |-> n]>>
    <3>1. strobes = b /\ count[m] = n
      BY <1>1, <1>4, <2>2, <2>5, SMT
    <3>2. buffer[m] = <<>>
      BY <1>1, <2>5, <3>1, SMT DEF Fresh
    <3> QED
      BY <2>3, <3>1, <3>2 DEF e
  <2>6. strobes' # b
    BY <1>1, <1>4, SMT
  <2> QED
    BY <2>3, <2>4, <2>5, <2>6 DEF FreshThen
<1> QED
  BY <1>2, <1>3, <1>4 DEF Gates

\* They keep what is expected of the buffers.
LEMMA GatesBuffers ==
  ASSUME TypeOK, Waiting, BuffersFresh, NEW S, Gates(S)
  PROVE  BuffersFresh'
<1>1. /\ Live' <=> Live
      /\ \A m : InTime(m)' <=> InTime(m)
      /\ \A m : WasRead(m)' <=> WasRead(m)
  BY LinesSame DEF WasRead, Gates
<1>2. /\ strobes \in Nat /\ base \in Nat /\ base <= strobes /\ trignum \in Nat /\ offset \in Nat
      /\ strobes' \in Nat /\ count \in [Modules -> Nat]
  BY DEF TypeOK, Gates
<1>3. UNCHANGED <<trignum, offset, base, pc, at, got, nev>>
  BY DEF Gates
<1>4. ASSUME NEW m \in Modules, Fresh(m, trignum - offset, base)
      PROVE  Fresh(m, trignum - offset, base)'
  <2>1. FreshThen(m, trignum - offset, base)
    BY <1>2, <1>4, GatesFresh
  <2> QED
    BY <1>1, <1>3, <2>1 DEF Fresh, FreshThen
<1>5. ASSUME NEW m \in Modules, Fresh(m, 0, base)
      PROVE  Fresh(m, 0, base)'
  <2>1. FreshThen(m, 0, base)
    BY <1>2, <1>5, GatesFresh
  <2> QED
    BY <1>1, <1>3, <2>1 DEF Fresh, FreshThen
<1>6. ASSUME NEW m \in Modules
      PROVE  \/ count'[m] = count[m] + 1
             \/ count'[m] = count[m] /\ buffer'[m] = buffer[m] /\ strobes' = strobes
  BY DEF Gates, Gate
<1>7. strobes' = strobes \/ strobes' = strobes + 1
  BY DEF Gates
<1>8. ASSUME pc \in {"counters", "judge"}, NEW m \in Modules, Popped(m, trignum - offset, base)
      PROVE  Popped(m, trignum - offset, base)'
  <2>1. base < strobes
    BY <1>8 DEF Waiting
  <2>2. count'[m] - (trignum - offset) >= strobes' - base
    <3>1. count[m] \in Nat /\ count[m] - (trignum - offset) >= strobes - base
      BY <1>2, <1>8 DEF Popped
    <3>2. \/ count'[m] = count[m] + 1 /\ strobes' <= strobes + 1
          \/ count'[m] = count[m] /\ strobes' = strobes
      BY <1>2, <1>6, <1>7
    <3> QED
      BY <1>2, <3>1, <3>2, SMT
  <2>3. ASSUME count'[m] - (trignum - offset) = strobes' - base, strobes' = base + 1
        PROVE  strobes' = strobes /\ count'[m] = count[m] /\ buffer'[m] = buffer[m]
    BY <1>2, <1>6, <1>8, <2>1, <2>3 DEF Popped, Gates
  <2> QED
    BY <1>1, <1>3, <1>8, <2>2, <2>3 DEF Popped
<1>9. ASSUME pc \in {"counters", "judge"}, NEW m \in Modules, Counted(m, trignum - offset, base)
      PROVE  Counted(m, trignum - offset, base)'
  <2> DEFINE n == trignum - offset
             b == base
  <2>1. b < strobes /\ n \in Int /\ b + 1 \in Int /\ n + 1 \in Int
    BY <1>2, <1>9 DEF Waiting
  <2>2. nev[m] = trignum => count'[m] - (n + 1) >= strobes' - (b + 1)
    BY <1>2, <1>6, <1>9 DEF Counted, Gates
  <2>3. nev[m] = trignum /\ InTime(m) /\ got[m] # NoData
          => FreshThen(m, n + 1, b + 1) /\ got[m] = [strobe |-> b + 1, num |-> n]
    BY <1>2, <1>9, <2>1, GatesFresh DEF Counted
  <2> QED
    BY <1>1, <1>3, <2>2, <2>3 DEF Counted, Fresh, FreshThen
<1> QED
  BY <1>1, <1>3, <1>4, <1>5, <1>8, <1>9 DEF BuffersFresh

-------------------------------------------------------------------------------
\* What Judge adds to the file.
LEMMA JudgeLines ==
  ASSUME SpsInv, Judge
  PROVE  /\ Len(lines) \in Nat /\ Len(lines) = trignum /\ Len(lines') = trignum'
         /\ \A i \in 1 .. Len(lines) : lines'[i] = lines[i]
         /\ ~Failed => /\ Len(lines') = Len(lines) + 1
                       /\ lines'[Len(lines')] = Line(FALSE)
         /\ Failed => /\ Len(lines') = Len(lines) + IF program = "NoStop" /\ Spurious THEN 2 ELSE 1
                      /\ \A i \in Len(lines) + 1 .. Len(lines') : lines'[i].marked
<1> DEFINE L == [marked : BOOLEAN, data : [Modules -> Nat]]
<1>1. lines \in Seq(L) /\ trignum \in Nat /\ Len(lines) = trignum /\ Len(lines) \in Nat
  BY DEF SpsInv, TypeOK, SlipsAreMarked
<1>2. Line(TRUE) \in L /\ Line(FALSE) \in L /\ Line(TRUE).marked
  BY DEF Line, SpsInv, TypeOK
<1>3. FakeLine \in L /\ FakeLine.marked
  BY DEF FakeLine
<1> HIDE DEF L
<1>4. CASE program = "NoStop" /\ Spurious
  <2> DEFINE one == Append(lines, Line(TRUE))
  <2>1. lines' = Append(one, FakeLine) /\ trignum' = trignum + 2
    BY <1>4 DEF Judge, WriteLines
  <2>2. Failed
    BY <1>4, ModuleFacts DEF Failed, Spurious
  <2>3. /\ one \in Seq(L) /\ Len(one) = Len(lines) + 1 /\ one[Len(lines) + 1] = Line(TRUE)
        /\ \A i \in 1 .. Len(lines) : one[i] = lines[i]
    BY <1>1, <1>2, LineFacts
  <2> HIDE DEF one
  <2>4. /\ Len(lines') = Len(one) + 1 /\ lines'[Len(one) + 1] = FakeLine
        /\ \A i \in 1 .. Len(one) : lines'[i] = one[i]
    BY <1>3, <2>1, <2>3, LineFacts
  <2>5. /\ Len(lines') = Len(lines) + 2 /\ \A i \in 1 .. Len(lines) : lines'[i] = lines[i]
        /\ lines'[Len(lines) + 1] = Line(TRUE) /\ lines'[Len(lines) + 2] = FakeLine
    <3>1. Len(one) + 1 = Len(lines) + 2 /\ Len(lines) + 1 \in 1 .. Len(one)
          /\ \A i \in 1 .. Len(lines) : i \in 1 .. Len(one)
      BY <1>1, <2>3, SMT
    <3>2. Len(lines') = Len(lines) + 2 /\ lines'[Len(lines) + 2] = FakeLine
      BY <2>4, <3>1
    <3>3. lines'[Len(lines) + 1] = Line(TRUE)
      BY <2>3, <2>4, <3>1
    <3>4. \A i \in 1 .. Len(lines) : lines'[i] = lines[i]
      BY <2>3, <2>4, <3>1
    <3> QED
      BY <3>2, <3>3, <3>4
  <2>6. \A i \in Len(lines) + 1 .. Len(lines') : i = Len(lines) + 1 \/ i = Len(lines) + 2
    BY <1>1, <2>5, SMT
  <2> QED
    BY <1>1, <1>2, <1>3, <1>4, <2>1, <2>2, <2>5, <2>6
<1>5. CASE ~(program = "NoStop" /\ Spurious)
  <2>1. PICK e \in {Line(TRUE), Line(FALSE)} :
          /\ lines' = Append(lines, e) /\ trignum' = trignum + 1
          /\ (Failed => e = Line(TRUE)) /\ (~Failed => e = Line(FALSE))
    <3>1. Failed = TRUE \/ Failed = FALSE
      BY DEF Failed
    <3> QED
      BY <1>5, <3>1 DEF Judge, WriteLines
  <2>2. /\ Len(lines') = Len(lines) + 1 /\ lines'[Len(lines) + 1] = e
        /\ \A i \in 1 .. Len(lines) : lines'[i] = lines[i]
    BY <1>1, <1>2, <2>1, LineFacts
  <2>3. \A i \in Len(lines) + 1 .. Len(lines') : i = Len(lines) + 1
    BY <1>1, <2>2, SMT
  <2> QED
    BY <1>1, <1>2, <1>5, <2>1, <2>2, <2>3
<1> QED
  BY <1>4, <1>5

\* What a line says of the run and of each module's answers.
LEMMA JudgeHistory ==
  ASSUME SpsInv, Judge
  PROVE  /\ Live
         /\ ~Failed \/ program = "NoStop" => Live'
         /\ Failed /\ program = "SPS2021" => ~Live'
         /\ Failed => \A m : InTime(m)' <=> InTime(m)
         /\ ~Failed => \A m \in Modules :
                         /\ InTime(m)' => InTime(m) /\ got[m] # NoData
                         /\ InTime(m) /\ got[m].strobe # 0 => InTime(m)'
<1>1. Live /\ program' = program
  BY DEF SpsInv, Waiting, Judge, Goto
<1>2. CASE Failed
  <2>1. Len(lines') \in 1 .. Len(lines') /\ lines'[Len(lines')].marked
    BY <1>2, JudgeLines
  <2>2. \A i \in 1 .. Len(lines') : ~lines'[i].marked => i \in 1 .. Len(lines)
    BY <1>2, JudgeLines
  <2>3. \A m : InTime(m)' <=> InTime(m)
    BY <2>2, <1>2, JudgeLines DEF InTime
  <2>4. program = "SPS2021" => ~Live'
    BY <1>1, <2>1 DEF Live
  <2>5. program = "NoStop" => Live'
    BY <1>1 DEF Live
  <2> QED
    BY <1>1, <1>2, <2>3, <2>4, <2>5
<1>3. CASE ~Failed
  <2>1. \A i \in 1 .. Len(lines') : i \in 1 .. Len(lines) \/ i = Len(lines')
    BY <1>3, JudgeLines
  <2>2. Len(lines') \in 1 .. Len(lines') /\ \A i \in 1 .. Len(lines) : i \in 1 .. Len(lines')
    BY <1>3, JudgeLines
  <2>3. /\ ~lines'[Len(lines')].marked
        /\ \A m \in Modules : lines'[Len(lines')].data[m] = got[m].strobe
    BY <1>3, JudgeLines DEF Line
  <2>4. Live'
    BY <1>1, <2>1, <2>3, JudgeLines DEF Live
  <2>5. NoData.strobe = 0
    BY DEF NoData
  <2>6. ASSUME NEW m \in Modules
        PROVE  /\ InTime(m)' => InTime(m) /\ got[m] # NoData
               /\ InTime(m) /\ got[m].strobe # 0 => InTime(m)'
    BY <2>1, <2>2, <2>3, <2>5, JudgeLines DEF InTime
  <2> QED
    BY <1>1, <1>3, <2>4, <2>6
<1> QED
  BY <1>2, <1>3

\* What Judge's conditions say of counters and answers.
LEMMA JudgeReads ==
  ASSUME SpsInv, Judge
  PROVE  /\ \A m \in Modules : Counted(m, trignum - offset, base)
         /\ ~Failed => /\ \A m \in Modules : nev[m] = trignum
                       /\ \A q \in Qdcs : got[q] # NoData
         /\ Empty = {} /\ (\A m \in Modules : nev[m] = trignum) => ~Failed
<1>1. pc = "judge"
  BY DEF Judge, Goto
<1>2. \A m \in Modules : Counted(m, trignum - offset, base)
  BY <1>1 DEF SpsInv, BuffersFresh, WasRead
<1>3. ~Failed => /\ \A m \in Modules : nev[m] = trignum
                 /\ \A q \in Qdcs : got[q] # NoData
  BY DEF Failed, Wrong, Empty
<1>4. ASSUME Empty = {}, \A m \in Modules : nev[m] = trignum
      PROVE  ~Failed
  <2>1. Wrong = {}
    BY <1>4 DEF Wrong
  <2>2. ASSUME NEW q \in Qdcs
        PROVE  offset + got[q].num = trignum
    <3>1. q \in Modules /\ InTime(q) /\ got[q] # NoData
      BY <1>4, ModuleFacts DEF SpsInv, LastLine, Empty
    <3>2. got[q].num = trignum - offset
      BY <1>2, <1>4, <3>1 DEF Counted
    <3>3. trignum \in Nat /\ offset \in Nat
      BY DEF SpsInv, TypeOK
    <3> QED
      BY <3>2, <3>3
  <2> QED
    BY <1>4, <2>1, <2>2 DEF Failed, WrongTrailer
<1> QED
  BY <1>2, <1>3, <1>4

\* A marked line, and the fake line after it, say nothing.
LEMMA MarkedSlips ==
  ASSUME SpsInv, Judge, Failed
  PROVE  SlipsAreMarked'
<1>1. /\ \A i \in 1 .. Len(lines') :
           ~lines'[i].marked => i \in 1 .. Len(lines) /\ lines'[i] = lines[i]
      /\ \A i \in 1 .. Len(lines') - 1 : i \in 1 .. Len(lines')
      /\ \A i \in 1 .. Len(lines) : \A j \in 1 .. i : j \in 1 .. Len(lines) /\ lines'[j] = lines[j]
  BY JudgeLines
<1>2. program' = program /\ program \in Programs
  BY DEF Judge, SpsInv, TypeOK
<1>3. program = "SPS2021" => \A i \in 1 .. Len(lines') - 1 : ~lines'[i].marked
  <2>1. ASSUME program = "SPS2021", NEW i \in 1 .. Len(lines') - 1
        PROVE  i \in 1 .. Len(lines) /\ lines'[i] = lines[i]
    BY <2>1, JudgeLines
  <2> QED
    BY <2>1, JudgeHistory DEF Live
<1>4. ASSUME NEW i \in 1 .. Len(lines') - 1, NEW q \in Qdcs, ~lines'[i].marked,
             ~lines'[i + 1].marked
      PROVE  lines'[i].data[q] # 0 /\ lines'[i + 1].data[q] = lines'[i].data[q] + 1
  <2>1. i + 1 \in 1 .. Len(lines) /\ lines'[i + 1] = lines[i + 1] /\ lines'[i] = lines[i]
    BY <1>1, <1>4, JudgeLines
  <2>2. i \in 1 .. Len(lines) - 1
    BY <2>1, JudgeLines
  <2> QED
    BY <1>4, <2>1, <2>2 DEF SpsInv, SlipsAreMarked
<1>5. ASSUME NEW i \in 1 .. Len(lines'), NEW m \in Modules, ~lines'[i].marked,
             lines'[i].data[m] # lines'[i].data[1]
      PROVE  m \notin Qdcs /\ \E j \in 1 .. i : ~lines'[j].marked /\ lines'[j].data[m] = 0
  BY <1>1, <1>5 DEF SpsInv, SlipsAreMarked
<1> QED
  BY <1>2, <1>3, <1>4, <1>5, JudgeLines DEF SlipsAreMarked

\* An unmarked line has the strobe after that of the line before.
LEMMA UnmarkedSlips ==
  ASSUME SpsInv, Judge, ~Failed
  PROVE  SlipsAreMarked'
<1> DEFINE last == Len(lines')
<1>1. /\ Len(lines) \in Nat /\ last = Len(lines) + 1 /\ last = trignum' /\ ~lines'[last].marked
      /\ \A i \in 1 .. Len(lines) : lines'[i] = lines[i]
      /\ \A m \in Modules : lines'[last].data[m] = got[m].strobe
  BY JudgeLines DEF Line
<1>2. program' = program
  BY DEF Judge
<1>3. ASSUME NEW m \in Modules
      PROVE  \/ lines'[last].data[m] = base + 1
             \/ m \notin Qdcs /\ \E j \in 1 .. last : ~lines'[j].marked /\ lines'[j].data[m] = 0
  <2>1. CASE InTime(m) /\ got[m] # NoData
    BY <1>1, <2>1, JudgeReads DEF Counted
  <2>2. CASE InTime(m) /\ got[m] = NoData
    <3>1. m \notin Qdcs
      BY <2>2, JudgeReads
    <3>2. lines'[last].data[m] = 0 /\ last \in 1 .. last
      BY <1>1, <2>2 DEF NoData
    <3> QED
      BY <1>1, <3>1, <3>2
  <2>3. CASE ~InTime(m)
    <3>1. m \notin Qdcs
      BY <2>3 DEF SpsInv, LastLine
    <3>2. PICK j \in 1 .. Len(lines) : ~lines[j].marked /\ lines[j].data[m] = 0
      BY <2>3 DEF InTime
    <3>3. j \in 1 .. last /\ lines'[j] = lines[j]
      BY <1>1, <3>2
    <3> QED
      BY <3>1, <3>2, <3>3
  <2> QED
    BY <2>1, <2>2, <2>3
<1>4. base \in Nat /\ \A q \in Qdcs : q \in Modules /\ lines'[last].data[q] = base + 1
  BY <1>3, ModuleFacts DEF SpsInv, TypeOK
<1>5. program = "SPS2021" => \A i \in 1 .. last - 1 : ~lines'[i].marked
  BY <1>1, JudgeHistory DEF Live
<1>6. ASSUME NEW i \in 1 .. last - 1, NEW q \in Qdcs, ~lines'[i].marked, ~lines'[i + 1].marked
      PROVE  lines'[i].data[q] # 0 /\ lines'[i + 1].data[q] = lines'[i].data[q] + 1
  <2>1. i \in 1 .. Len(lines) /\ lines'[i] = lines[i] /\ q \in Modules
    BY <1>1, <1>4
  <2>2. CASE i < Len(lines)
    <3>1. i \in 1 .. Len(lines) - 1 /\ lines'[i + 1] = lines[i + 1]
      BY <1>1, <2>1, <2>2
    <3> QED
      BY <1>6, <2>1, <3>1 DEF SpsInv, SlipsAreMarked
  <2>3. CASE i = Len(lines)
    <3>1. lines[i].data[q] = base /\ lines[i].data[q] # 0
      BY <1>6, <2>1, <2>3 DEF SpsInv, LastLine, InTime
    <3> QED
      BY <1>1, <1>4, <2>1, <2>3, <3>1
  <2> QED
    BY <1>1, <2>1, <2>2, <2>3
<1>7. ASSUME NEW i \in 1 .. last, NEW m \in Modules, ~lines'[i].marked,
             lines'[i].data[m] # lines'[i].data[1]
      PROVE  m \notin Qdcs /\ \E j \in 1 .. i : ~lines'[j].marked /\ lines'[j].data[m] = 0
  <2>1. CASE i \in 1 .. Len(lines)
    <3>1. lines'[i] = lines[i] /\ \A j \in 1 .. i : lines'[j] = lines[j]
      BY <1>1, <2>1
    <3> QED
      BY <1>7, <2>1, <3>1 DEF SpsInv, SlipsAreMarked
  <2>2. CASE i \notin 1 .. Len(lines)
    <3>1. i = last
      BY <1>1, <2>2
    <3> QED
      BY <1>3, <1>4, <1>7, <3>1, ModuleFacts
  <2> QED
    BY <2>1, <2>2
<1> QED
  BY <1>1, <1>2, <1>5, <1>6, <1>7 DEF SlipsAreMarked

-------------------------------------------------------------------------------
\* A trigger comes when none is pending: one strobe more for every module, and one to read.
LEMMA TriggerKeeps ==
  ASSUME SpsInv, NEW kinds \in SUBSET Inputs \ {{}}, Trigger(kinds)
  PROVE  SpsInv'
<1> USE DEF SpsInv, trigger_logic, modules, signals, luck, control, tallies, event, file, vars
<1>1. TypeOK'
  <2>1. strobes' \in Nat /\ Gate(Modules, strobes')
    BY DEF TypeOK, Trigger
  <2>2. count' \in [Modules -> Nat] /\ buffer' \in [Modules -> Seq([strobe : Nat, num : Nat])]
    BY <2>1, GateTyped DEF Datum
  <2> QED
    BY <2>1, <2>2 DEF TypeOK, Trigger
<1>2. Waiting'
  BY DEF TypeOK, Trigger, Waiting, Live
<1>3. PedestalsLetIn'
  BY DEF Trigger, PedestalsLetIn, MayCome
<1>4. BuffersFresh'
  <2>1. Gates(Modules)
    BY DEF Trigger, Gates
  <2> QED
    BY <2>1, GatesBuffers
<1>5. LastLine'
  BY DEF Trigger, LastLine, InTime
<1>6. InStep'
  <2> SUFFICES ASSUME lucky, Live
               PROVE  InStep'
    BY LinesSame DEF Trigger, InStep
  <2>1. /\ strobes \in Nat /\ base \in Nat /\ trignum \in Nat /\ offset \in Nat
        /\ count \in [Modules -> Nat]
    BY DEF TypeOK
  <2>2. \A m \in Modules : count'[m] = count[m] + 1 /\ (WasRead(m)' <=> WasRead(m))
    BY DEF Trigger, Gate, WasRead
  <2>3. pc \in {"top", "look", "end", "done", "crashed"} /\ strobes' = strobes + 1
    BY DEF Trigger, Waiting, TypeOK
  <2>4. pc \notin {"crashed", "done"} => Excess' = Excess
    BY <2>1, <2>3 DEF Trigger, Excess
  <2>5. \A m \in Modules : (Exact(m)' <=> Exact(m)) /\ ~WasRead(m)
    BY <2>1, <2>2, <2>3 DEF Trigger, Exact, WasRead
  <2> QED
    BY <2>1, <2>2, <2>3, <2>4, <2>5 DEF Trigger, InStep
<1>7. SlipsAreMarked'
  BY LinesSame DEF Trigger
<1>8. AlignedWithFers'
  BY LinesSame DEF Trigger
<1>9. PedestalsKeepFraction'
  BY DEF Trigger, PedestalsKeepFraction
<1> QED
  BY <1>1, <1>2, <1>3, <1>4, <1>5, <1>6, <1>7, <1>8, <1>9

\* A spurious strobe leaves every module one ahead.
LEMMA SpuriousStrobeKeeps ==
  ASSUME SpsInv, SpuriousStrobe
  PROVE  SpsInv'
<1> USE DEF SpsInv, trigger_logic, modules, signals, luck, control, tallies, event, file, vars
<1>1. TypeOK'
  <2>1. strobes' \in Nat /\ Gate(Modules, strobes')
    BY DEF TypeOK, SpuriousStrobe
  <2>2. count' \in [Modules -> Nat] /\ buffer' \in [Modules -> Seq([strobe : Nat, num : Nat])]
    BY <2>1, GateTyped DEF Datum
  <2> QED
    BY <2>1, <2>2 DEF TypeOK, SpuriousStrobe, Noise
<1>2. Waiting'
  BY DEF TypeOK, SpuriousStrobe, Noise, Waiting, Live
<1>3. PedestalsLetIn'
  BY DEF SpuriousStrobe, Noise, PedestalsLetIn, MayCome
<1>4. BuffersFresh'
  <2>1. Gates(Modules)
    BY DEF SpuriousStrobe, Gates
  <2> QED
    BY <2>1, GatesBuffers
<1>5. LastLine'
  BY DEF SpuriousStrobe, Noise, LastLine, InTime
<1>6. InStep'
  <2> SUFFICES ASSUME lucky', Live
               PROVE  InStep'
    BY LinesSame DEF SpuriousStrobe, InStep
  <2>0. lucky /\ ~disturbed /\ disturbed' /\ ~(pc = "counters" /\ at > 1)
    BY DEF SpuriousStrobe, Noise, TypeOK
  <2>1. /\ strobes \in Nat /\ base \in Nat /\ trignum \in Nat /\ offset \in Nat
        /\ count \in [Modules -> Nat]
    BY DEF TypeOK
  <2>2. \A m \in Modules : count'[m] = count[m] + 1 /\ (WasRead(m)' <=> WasRead(m))
    BY DEF SpuriousStrobe, Gate, WasRead
  <2>3. pc \notin {"reset", "align"} /\ strobes' = strobes + 1
    BY <2>0 DEF SpuriousStrobe, InStep
  <2>4. Excess' = Excess + 1
    BY <2>1, <2>3 DEF SpuriousStrobe, Excess
  <2>5. Empty' = Empty
    BY DEF SpuriousStrobe, Empty
  <2>6. pc = "judge" \/ \A m \in Modules : ~WasRead(m)
    BY <2>0, ModuleFacts DEF WasRead, Waiting, TypeOK
  <2>7. pc = "judge" => \A m \in Modules : WasRead(m)
    BY DEF WasRead
  <2> QED
    BY <2>0, <2>1, <2>2, <2>3, <2>4, <2>5, <2>6, <2>7 DEF SpuriousStrobe, InStep, Exact
<1>7. SlipsAreMarked'
  BY LinesSame DEF SpuriousStrobe, Noise
<1>8. AlignedWithFers'
  BY LinesSame DEF SpuriousStrobe, Noise
<1>9. PedestalsKeepFraction'
  BY DEF SpuriousStrobe, Noise, PedestalsKeepFraction
<1> QED
  BY <1>1, <1>2, <1>3, <1>4, <1>5, <1>6, <1>7, <1>8, <1>9

\* A spurious gate concerns one module.
LEMMA SpuriousGateKeeps ==
  ASSUME SpsInv, NEW x \in Modules, SpuriousGate(x)
  PROVE  SpsInv'
<1> USE DEF SpsInv, trigger_logic, modules, signals, luck, control, tallies, event, file, vars
<1>1. TypeOK'
  <2>1. strobes \in Nat /\ Gate({x}, strobes)
    BY DEF TypeOK, SpuriousGate
  <2>2. count' \in [Modules -> Nat] /\ buffer' \in [Modules -> Seq([strobe : Nat, num : Nat])]
    BY <2>1, GateTyped DEF Datum
  <2>3. noise' \in Nat /\ disturbed' \in BOOLEAN /\ lucky' \in BOOLEAN
    BY DEF TypeOK, SpuriousGate, Noise
  <2> QED
    BY <2>2, <2>3 DEF TypeOK, SpuriousGate
<1>2. Waiting'
  BY DEF SpuriousGate, Noise, Waiting, Live
<1>3. PedestalsLetIn'
  BY DEF SpuriousGate, Noise, PedestalsLetIn, MayCome
<1>4. BuffersFresh'
  <2>1. Gates({x})
    BY DEF SpuriousGate, Gates
  <2> QED
    BY <2>1, GatesBuffers
<1>5. LastLine'
  BY DEF SpuriousGate, Noise, LastLine, InTime
<1>6. InStep'
  <2> SUFFICES ASSUME lucky', Live
               PROVE  InStep'
    BY LinesSame DEF SpuriousGate, InStep
  <2>1. lucky /\ ~disturbed /\ disturbed'
    BY DEF SpuriousGate, Noise, TypeOK
  <2>2. pc \notin {"reset", "align"}
    BY <2>1 DEF InStep
  <2>3. Excess' = Excess
    BY DEF SpuriousGate, Excess
  <2>4. ASSUME NEW m \in Modules \ {x}, Exact(m)
        PROVE  Exact(m)'
    <3>1. count'[m] = count[m]
      BY DEF SpuriousGate, Gate
    <3> QED
      BY <2>4, <3>1 DEF SpuriousGate, Exact, WasRead
  <2> QED
    BY <2>1, <2>2, <2>3, <2>4 DEF SpuriousGate, InStep
<1>7. SlipsAreMarked'
  BY LinesSame DEF SpuriousGate, Noise
<1>8. AlignedWithFers'
  BY LinesSame DEF SpuriousGate, Noise
<1>9. PedestalsKeepFraction'
  BY DEF SpuriousGate, Noise, PedestalsKeepFraction
<1> QED
  BY <1>1, <1>2, <1>3, <1>4, <1>5, <1>6, <1>7, <1>8, <1>9

\* SIGINT only sets a flag.
LEMMA SIGINTKeeps ==
  ASSUME SpsInv, SIGINT
  PROVE  SpsInv'
<1> USE DEF SpsInv, trigger_logic, modules, signals, luck, control, tallies, event, file, vars
<1>1. TypeOK'
  <2>1. abort_run' \in BOOLEAN
    BY DEF SIGINT
  <2> QED
    BY <2>1 DEF SIGINT, TypeOK
<1>2. Waiting'
  BY DEF SIGINT, Waiting, Live
<1>3. PedestalsLetIn'
  BY DEF SIGINT, PedestalsLetIn, MayCome
<1>4. BuffersFresh'
  BY DEF SIGINT, BuffersFresh, Fresh, Popped, Counted, WasRead, InTime, Live
<1>5. LastLine'
  BY DEF SIGINT, LastLine, InTime
<1>6. InStep'
  BY DEF SIGINT, InStep, Excess, Exact, WasRead, Live, Empty
<1>7. SlipsAreMarked'
  BY LinesSame DEF SIGINT
<1>8. AlignedWithFers'
  BY LinesSame DEF SIGINT
<1>9. PedestalsKeepFraction'
  BY DEF SIGINT, PedestalsKeepFraction
<1> QED
  BY <1>1, <1>2, <1>3, <1>4, <1>5, <1>6, <1>7, <1>8, <1>9

\* SIGUSR1 only sets a flag.
LEMMA SIGUSR1Keeps ==
  ASSUME SpsInv, SIGUSR1
  PROVE  SpsInv'
<1> USE DEF SpsInv, trigger_logic, modules, signals, luck, control, tallies, event, file, vars
<1>1. TypeOK'
  <2>1. pause_run' \in BOOLEAN
    BY DEF SIGUSR1
  <2> QED
    BY <2>1 DEF SIGUSR1, TypeOK
<1>2. Waiting'
  BY DEF SIGUSR1, Waiting, Live
<1>3. PedestalsLetIn'
  BY DEF SIGUSR1, PedestalsLetIn, MayCome
<1>4. BuffersFresh'
  BY DEF SIGUSR1, BuffersFresh, Fresh, Popped, Counted, WasRead, InTime, Live
<1>5. LastLine'
  BY DEF SIGUSR1, LastLine, InTime
<1>6. InStep'
  BY DEF SIGUSR1, InStep, Excess, Exact, WasRead, Live, Empty
<1>7. SlipsAreMarked'
  BY LinesSame DEF SIGUSR1
<1>8. AlignedWithFers'
  BY LinesSame DEF SIGUSR1
<1>9. PedestalsKeepFraction'
  BY DEF SIGUSR1, PedestalsKeepFraction
<1> QED
  BY <1>1, <1>2, <1>3, <1>4, <1>5, <1>6, <1>7, <1>8, <1>9

\* The top of the loop looks at the flags and sets the veto.
LEMMA TopKeeps ==
  ASSUME SpsInv, Top
  PROVE  SpsInv'
<1> USE DEF SpsInv, trigger_logic, modules, signals, luck, control, tallies, event, file, vars
<1>1. TypeOK'
  BY DEF TypeOK, Top, Goto
<1>2. Waiting'
  BY DEF Top, Goto, Waiting, Live
<1>3. PedestalsLetIn'
  BY DEF Top, Goto, PedestalsLetIn, MayCome
<1>4. BuffersFresh'
  BY DEF Top, Goto, BuffersFresh, Fresh, Popped, Counted, WasRead, InTime, Live
<1>5. LastLine'
  BY DEF Top, Goto, LastLine, InTime
<1>6. InStep'
  BY DEF Top, Goto, InStep, Excess, Exact, WasRead, Live, Empty
<1>7. SlipsAreMarked'
  BY LinesSame DEF Top, Goto
<1>8. AlignedWithFers'
  BY LinesSame DEF Top, Goto
<1>9. PedestalsKeepFraction'
  BY DEF Top, Goto, PedestalsKeepFraction
<1> QED
  BY <1>1, <1>2, <1>3, <1>4, <1>5, <1>6, <1>7, <1>8, <1>9

\* Without a trigger the loop goes round.
LEMMA NoTriggerKeeps ==
  ASSUME SpsInv, NoTrigger
  PROVE  SpsInv'
<1> USE DEF SpsInv, trigger_logic, modules, signals, luck, control, tallies, event, file, vars
<1>1. TypeOK'
  BY DEF TypeOK, NoTrigger, Goto
<1>2. Waiting'
  BY DEF NoTrigger, Goto, Waiting, Live
<1>3. PedestalsLetIn'
  BY DEF NoTrigger, Goto, PedestalsLetIn, MayCome
<1>4. BuffersFresh'
  BY DEF NoTrigger, Goto, BuffersFresh, Fresh, Popped, Counted, WasRead, InTime, Live
<1>5. LastLine'
  BY DEF NoTrigger, Goto, LastLine, InTime
<1>6. InStep'
  BY DEF NoTrigger, Goto, InStep, Excess, Exact, WasRead, Live, Empty
<1>7. SlipsAreMarked'
  BY LinesSame DEF NoTrigger, Goto
<1>8. AlignedWithFers'
  BY LinesSame DEF NoTrigger, Goto
<1>9. PedestalsKeepFraction'
  BY DEF NoTrigger, Goto, PedestalsKeepFraction
<1> QED
  BY <1>1, <1>2, <1>3, <1>4, <1>5, <1>6, <1>7, <1>8, <1>9

\* Pedestals are let in only below their fraction.
LEMMA IsTrigKeeps ==
  ASSUME SpsInv, IsTrig
  PROVE  SpsInv'
<1> USE DEF SpsInv, trigger_logic, modules, signals, luck, control, tallies, event, file, vars
<1>1. TypeOK'
  <2>1. beamcts' \in Nat /\ pedcts' \in Nat /\ pedveto' \in BOOLEAN /\ pc' = "data"
    BY DEF IsTrig, Goto, TypeOK
  <2> QED
    BY <2>1 DEF IsTrig, TypeOK
<1>2. Waiting'
  BY DEF IsTrig, Goto, Waiting, Live
<1>3. PedestalsLetIn'
  <2>1. ~pedveto' => MayCome'
    BY DEF IsTrig, MayCome
  <2> QED
    BY <2>1 DEF IsTrig, Goto, PedestalsLetIn
<1>4. BuffersFresh'
  BY DEF IsTrig, Goto, BuffersFresh, Fresh, Popped, Counted, WasRead, InTime, Live
<1>5. LastLine'
  BY DEF IsTrig, Goto, LastLine, InTime
<1>6. InStep'
  BY DEF IsTrig, Goto, InStep, Excess, Exact, WasRead, Live, Empty
<1>7. SlipsAreMarked'
  BY LinesSame DEF IsTrig, Goto
<1>8. AlignedWithFers'
  BY LinesSame DEF IsTrig, Goto
<1>9. PedestalsKeepFraction'
  <2>1. /\ beamcts \in Nat /\ pedcts \in Nat /\ Fraction \in Nat /\ beamcts' \in Nat
        /\ beamcts' >= beamcts
    BY SpsAssumption DEF TypeOK, IsTrig
  <2>2. CASE "ped" \in inputs
    <3>1. pedcts' = pedcts + 1 /\ MayCome
      BY <2>2 DEF IsTrig, Goto, PedestalsLetIn
    <3>2. (pedcts + 1) - 1 = pedcts
      BY <2>1, SMT
    <3>3. pedcts * Fraction \in Nat
      BY <2>1, SMT
    <3> QED
      BY <2>1, <3>1, <3>2, <3>3, SMT DEF MayCome, PedestalsKeepFraction
  <2>3. CASE "ped" \notin inputs
    <3>1. pedcts' = pedcts
      BY <2>1, <2>3 DEF IsTrig
    <3>2. pedcts > 1 => (pedcts - 1) * Fraction \in Nat
      BY <2>1, SMT
    <3> QED
      BY <2>1, <3>1, <3>2, SMT DEF PedestalsKeepFraction
  <2> QED
    BY <2>2, <2>3
<1> QED
  BY <1>1, <1>2, <1>3, <1>4, <1>5, <1>6, <1>7, <1>8, <1>9

\* A buffer that was in step has one datum, that of the trigger.
LEMMA ReadDataKeeps ==
  ASSUME SpsInv, NEW late \in SUBSET Modules, ReadData(late)
  PROVE  SpsInv'
<1> USE DEF SpsInv, trigger_logic, modules, signals, luck, control, tallies, event, file, vars
<1>1. TypeOK'
  <2>1. ASSUME NEW m \in Modules
        PROVE  /\ buffer'[m] \in Seq(Datum) /\ got'[m] \in [strobe : Nat, num : Int]
    <3>1. \/ got'[m] = NoData /\ buffer'[m] = buffer[m]
          \/ buffer[m] # <<>> /\ got'[m] = Head(buffer[m]) /\ buffer'[m] = Tail(buffer[m])
      BY DEF ReadData
    <3>2. buffer[m] \in Seq(Datum)
      BY DEF TypeOK, Datum
    <3>3. NoData \in [strobe : Nat, num : Int] /\ \A e \in Datum : e \in [strobe : Nat, num : Int]
      BY DEF NoData, Datum
    <3> QED
      BY <3>1, <3>2, <3>3, HeadFacts
  <2>2. buffer' = [m \in Modules |-> buffer'[m]] /\ got' = [m \in Modules |-> got'[m]]
    BY DEF ReadData
  <2>3. /\ buffer' \in [Modules -> Seq([strobe : Nat, num : Nat])]
        /\ got' \in [Modules -> [strobe : Nat, num : Int]]
    BY <2>1, <2>2 DEF Datum
  <2>4. at' \in Modules /\ pc' = "counters"
    BY ModuleFacts DEF ReadData, Goto
  <2>5. CASE late \intersect Qdcs = {}
    <3>1. noise' \in Nat /\ UNCHANGED <<disturbed, lucky>>
      BY <2>5 DEF ReadData, TypeOK
    <3> QED
      BY <2>3, <2>4, <3>1 DEF ReadData, TypeOK
  <2>6. CASE late \intersect Qdcs # {}
    <3>1. Noise(FALSE)
      BY <2>6 DEF ReadData
    <3>2. noise' \in Nat /\ disturbed' \in BOOLEAN /\ lucky' \in BOOLEAN
      BY <3>1 DEF Noise, TypeOK
    <3> QED
      BY <2>3, <2>4, <3>2 DEF ReadData, TypeOK
  <2> QED
    BY <2>5, <2>6
<1>2. Waiting'
  BY DEF ReadData, Goto, Noise, Waiting, Live
<1>3. PedestalsLetIn'
  BY DEF ReadData, Goto, Noise, PedestalsLetIn, MayCome
<1>4. BuffersFresh'
  <2>1. Live /\ pc = "data" /\ pc' = "counters" /\ at' = 1
    BY DEF ReadData, Goto, Waiting
  <2>2. \A m \in Modules : ~WasRead(m)'
    BY <2>1, ModuleFacts DEF WasRead
  <2>3. ASSUME NEW m \in Modules
        PROVE  Popped(m, trignum - offset, base)'
    <3>1. Fresh(m, trignum - offset, base)
      BY <2>1 DEF BuffersFresh
    <3>2. \/ got'[m] = NoData
          \/ got'[m] = Head(buffer[m]) /\ buffer'[m] = Tail(buffer[m])
      BY DEF ReadData
    <3>3. InTime(m)' <=> InTime(m)
      BY LinesSame DEF ReadData
    <3> QED
      BY <3>1, <3>2, <3>3, HeadFacts DEF ReadData, Fresh, Popped
  <2> QED
    BY <2>1, <2>2, <2>3 DEF BuffersFresh
<1>5. LastLine'
  BY DEF ReadData, Goto, Noise, LastLine, InTime
<1>6. InStep'
  <2> SUFFICES ASSUME lucky', Live
               PROVE  InStep'
    BY LinesSame DEF ReadData, InStep
  <2>0. lucky /\ (late \intersect Qdcs # {} => ~disturbed /\ disturbed')
    BY DEF ReadData, Noise, TypeOK
  <2>1. /\ strobes \in Nat /\ base \in Nat /\ trignum \in Nat /\ offset \in Nat
        /\ count \in [Modules -> Nat] /\ buffer \in [Modules -> Seq(Datum)]
    BY DEF TypeOK, Datum
  <2>2. pc = "data" /\ pc' = "counters" /\ at' = 1
    BY DEF ReadData, Goto
  <2>3. \A m \in Modules : ~WasRead(m) /\ ~WasRead(m)'
    BY <2>2, ModuleFacts DEF WasRead
  <2>4. Excess' = Excess
    BY <2>2 DEF ReadData, Excess
  <2>5. \A m \in Modules : Exact(m)' <=> Exact(m)
    BY <2>3 DEF ReadData, Exact
  <2>6. ASSUME late \intersect Qdcs = {},
               \A m \in Modules : count[m] - (trignum - offset) = strobes - base
        PROVE  Empty' = {}
    <3>1. ASSUME NEW q \in Qdcs
          PROVE  got'[q] # NoData
      <4>1. q \in Modules /\ q \notin late
        BY <2>6, ModuleFacts
      <4>2. Fresh(q, trignum - offset, base) /\ base < strobes /\ InTime(q)
        BY <2>2, <4>1 DEF BuffersFresh, Waiting, LastLine
      <4>3. buffer[q] # <<>>
        BY <2>6, <4>1, <4>2, <2>1 DEF Fresh
      <4>4. got'[q] = Head(buffer[q]) /\ Head(buffer[q]) \in Datum
        BY <2>1, <4>1, <4>3, HeadFacts DEF ReadData
      <4> QED
        BY <4>4, SMT DEF Datum, NoData
    <3> QED
      BY <3>1 DEF Empty
  <2>7. \/ late \intersect Qdcs = {} /\ disturbed' = disturbed
        \/ late \intersect Qdcs # {} /\ ~disturbed /\ disturbed'
    BY DEF ReadData, Noise
  <2>8. UNCHANGED <<base, trignum, offset, strobes, count>>
    BY DEF ReadData
  <2> QED
    BY <2>0, <2>1, <2>2, <2>3, <2>4, <2>5, <2>6, <2>7, <2>8, ModuleFacts DEF InStep, Exact
<1>7. SlipsAreMarked'
  BY LinesSame DEF ReadData, Goto, Noise
<1>8. AlignedWithFers'
  BY LinesSame DEF ReadData, Goto, Noise
<1>9. PedestalsKeepFraction'
  BY DEF ReadData, Goto, Noise, PedestalsKeepFraction
<1> QED
  BY <1>1, <1>2, <1>3, <1>4, <1>5, <1>6, <1>7, <1>8, <1>9

\* A counter that is as expected shows one strobe and nothing else.
LEMMA ReadCounterKeeps ==
  ASSUME SpsInv, ReadCounter
  PROVE  SpsInv'
<1> USE DEF SpsInv, trigger_logic, modules, signals, luck, control, tallies, event, file, vars
<1>1. TypeOK'
  <2>1. nev' \in [Modules -> Int]
    <3>1. offset + count[at] - 1 \in Int /\ nev \in [Modules -> Int]
      BY DEF TypeOK
    <3> QED
      BY <3>1 DEF ReadCounter
  <2>3. at' \in Modules
    BY ModuleFacts DEF ReadCounter, TypeOK
  <2>2. pc' \in {"counters", "judge"}
    BY DEF ReadCounter
  <2> QED
    BY <2>1, <2>2, <2>3 DEF ReadCounter, TypeOK
<1>2. Waiting'
  BY DEF ReadCounter, Waiting, Live
<1>3. PedestalsLetIn'
  BY DEF ReadCounter, PedestalsLetIn, MayCome
<1>4. BuffersFresh'
  <2>1. /\ strobes \in Nat /\ base \in Nat /\ trignum \in Nat /\ offset \in Nat /\ at \in Modules
        /\ count \in [Modules -> Nat] /\ base < strobes /\ nev \in [Modules -> Int]
        /\ pc = "counters"
    BY DEF TypeOK, Waiting, ReadCounter
  <2>2. pc' \in {"counters", "judge"} /\ \A m : InTime(m)' <=> InTime(m)
    BY LinesSame DEF ReadCounter
  <2>3. \A m \in Modules : WasRead(m)' <=> (WasRead(m) \/ m = at)
    BY <2>1, ModuleFacts DEF WasRead, ReadCounter
  <2>4. UNCHANGED <<strobes, base, trignum, offset, count, buffer, got>>
    BY DEF ReadCounter
  <2>5. ASSUME NEW m \in Modules, WasRead(m)
        PROVE  Counted(m, trignum - offset, base)'
    <3>1. nev'[m] = nev[m]
      BY <2>1, <2>5, ModuleFacts DEF WasRead, ReadCounter
    <3>2. Counted(m, trignum - offset, base)
      BY <2>1, <2>5 DEF BuffersFresh
    <3> QED
      BY <2>2, <2>4, <3>1, <3>2 DEF Counted, Fresh
  <2>6. ASSUME NEW m \in Modules, m = at
        PROVE  Counted(m, trignum - offset, base)'
    <3>1. Popped(m, trignum - offset, base)
      BY <2>1, <2>6, ModuleFacts DEF BuffersFresh, WasRead
    <3>2. nev'[m] = offset + count[m] - 1
      BY <2>1, <2>6 DEF ReadCounter
    <3>3. ASSUME nev'[m] = trignum
          PROVE  count[m] = trignum - offset + 1 /\ strobes = base + 1
      <4>1. count[m] \in Nat /\ offset + count[m] - 1 = trignum
        BY <2>1, <3>2, <3>3
      <4>2. count[m] - (trignum - offset) >= strobes - base
        BY <3>1 DEF Popped
      <4> QED
        BY <2>1, <4>1, <4>2, SMT
    <3>4. ASSUME nev'[m] = trignum, InTime(m), got[m] # NoData
          PROVE  buffer[m] = <<>> /\ got[m] = [strobe |-> base + 1, num |-> trignum - offset]
      BY <2>1, <3>1, <3>3, <3>4 DEF Popped
    <3>5. (strobes # (base + 1) + 1 /\ ~(strobes > base + 1)) \/ nev'[m] # trignum
      BY <2>1, <3>3
    <3> QED
      BY <2>1, <2>2, <2>4, <3>3, <3>4, <3>5 DEF Counted, Fresh
  <2>7. ASSUME NEW m \in Modules, ~WasRead(m)
        PROVE  Popped(m, trignum - offset, base)'
    <3>1. Popped(m, trignum - offset, base)
      BY <2>1, <2>7 DEF BuffersFresh
    <3> QED
      BY <2>2, <2>4, <3>1 DEF Popped
  <2> QED
    BY <2>2, <2>3, <2>5, <2>6, <2>7 DEF BuffersFresh
<1>5. LastLine'
  BY DEF ReadCounter, LastLine, InTime
<1>6. InStep'
  <2> SUFFICES ASSUME lucky, Live
               PROVE  InStep'
    BY LinesSame DEF ReadCounter, InStep
  <2>1. /\ strobes \in Nat /\ base \in Nat /\ trignum \in Nat /\ offset \in Nat /\ at \in Modules
        /\ count \in [Modules -> Nat] /\ nev \in [Modules -> Int] /\ pc = "counters" /\ locked
    BY DEF TypeOK, Waiting, ReadCounter
  <2>2. /\ pc' \in {"counters", "judge"} /\ Excess' = Excess /\ Empty' = Empty
        /\ Excess = strobes - base - 1
    BY <2>1 DEF ReadCounter, Excess, Empty
  <2>3. \A m \in Modules : WasRead(m)' <=> (WasRead(m) \/ m = at)
    BY <2>1, ModuleFacts DEF WasRead, ReadCounter
  <2>4. UNCHANGED <<strobes, base, trignum, offset, count, lucky, disturbed>>
    BY DEF ReadCounter
  <2>5. /\ \A m \in Modules : m # at => nev'[m] = nev[m]
        /\ nev'[at] = offset + count[at] - 1
    BY <2>1 DEF ReadCounter
  <2>6. base = trignum
    BY <2>1 DEF InStep
  <2>7. ASSUME NEW m \in Modules, Excess = 0, Exact(m)
        PROVE  Exact(m)'
    BY <2>1, <2>2, <2>3, <2>4, <2>5, <2>6, <2>7 DEF Exact
  <2> QED
    BY <2>1, <2>2, <2>3, <2>4, <2>5, <2>6, <2>7 DEF InStep
<1>7. SlipsAreMarked'
  BY LinesSame DEF ReadCounter
<1>8. AlignedWithFers'
  BY LinesSame DEF ReadCounter
<1>9. PedestalsKeepFraction'
  BY DEF ReadCounter, PedestalsKeepFraction
<1> QED
  BY <1>1, <1>2, <1>3, <1>4, <1>5, <1>6, <1>7, <1>8, <1>9

\* The end without data changes nothing that was written.
LEMMA CrashKeeps ==
  ASSUME SpsInv, Crash
  PROVE  SpsInv'
<1> USE DEF SpsInv, trigger_logic, modules, signals, luck, control, tallies, event, file, vars
<1>1. TypeOK'
  BY DEF TypeOK, Crash, Goto
<1>2. Waiting'
  BY DEF Crash, Goto, Waiting, Live
<1>3. PedestalsLetIn'
  BY DEF Crash, Goto, PedestalsLetIn, MayCome
<1>4. BuffersFresh'
  BY DEF Crash, Goto, BuffersFresh, Fresh, Popped, Counted, WasRead, InTime
<1>5. LastLine'
  BY DEF Crash, Goto, LastLine, InTime
<1>6. InStep'
  BY DEF Crash, Goto, InStep, Excess, Exact, WasRead, Empty
<1>7. SlipsAreMarked'
  BY LinesSame DEF Crash, Goto
<1>8. AlignedWithFers'
  BY LinesSame DEF Crash, Goto
<1>9. PedestalsKeepFraction'
  BY DEF Crash, Goto, PedestalsKeepFraction
<1> QED
  BY <1>1, <1>2, <1>3, <1>4, <1>5, <1>6, <1>7, <1>8, <1>9

\* A line is unmarked only if every counter and every answer are as expected.
LEMMA JudgeKeeps ==
  ASSUME SpsInv, Judge
  PROVE  SpsInv'
<1> USE DEF SpsInv, trigger_logic, modules, signals, luck, control, tallies, event, file, vars
<1>1. TypeOK'
  <2>1. \A m \in Modules : got[m].strobe \in Nat
    BY DEF TypeOK
  <2>2. \A b \in BOOLEAN : Line(b) \in [marked : BOOLEAN, data : [Modules -> Nat]]
    BY <2>1 DEF Line
  <2>3. FakeLine \in [marked : BOOLEAN, data : [Modules -> Nat]] /\ Failed \in BOOLEAN
    BY DEF FakeLine, Failed
  <2>4. lines' \in Seq([marked : BOOLEAN, data : [Modules -> Nat]])
    <3> DEFINE L == [marked : BOOLEAN, data : [Modules -> Nat]]
    <3>1. lines \in Seq(L) /\ Line(TRUE) \in L /\ Line(Failed) \in L /\ FakeLine \in L
      BY <2>2, <2>3 DEF TypeOK
    <3> HIDE DEF L
    <3>2. Append(lines, Line(TRUE)) \in Seq(L) /\ Append(lines, Line(Failed)) \in Seq(L)
      BY <3>1, LineFacts
    <3>3. Append(Append(lines, Line(TRUE)), FakeLine) \in Seq(L)
      BY <3>1, <3>2, LineFacts
    <3>4. lines' \in Seq(L)
      BY <3>2, <3>3 DEF Judge, WriteLines
    <3> QED
      BY <3>4 DEF L
  <2>5. trignum' \in Nat /\ offset' \in 0 .. trignum'
    <3>1. trignum' = trignum + 1 \/ trignum' = trignum + 2
      BY DEF Judge, WriteLines
    <3> QED
      BY <3>1 DEF Judge, TypeOK
  <2>6. base' \in 0 .. strobes'
    BY DEF Judge, Waiting, TypeOK, Goto
  <2>7. got' \in [Modules -> [strobe : Nat, num : Int]] /\ nev' \in [Modules -> Int]
    BY DEF Judge, NoData
  <2>8. pc' \in {"reset", "unlock"} /\ veto' \in BOOLEAN /\ exit_now' \in BOOLEAN
    BY <2>3 DEF Judge, Goto, TypeOK
  <2> QED
    BY <2>4, <2>5, <2>6, <2>7, <2>8 DEF Judge, TypeOK
<1>2. Waiting'
  <2>1. /\ Live' \/ (program' = "SPS2021" /\ Failed)
        /\ pc = "judge" /\ program' = program
    BY JudgeHistory DEF Judge, Goto, TypeOK, Programs
  <2>2. at' = 1 /\ locked' /\ \A m \in Modules : got'[m] = NoData
    BY <2>1 DEF Judge, Waiting
  <2> QED
    BY <2>1, <2>2 DEF Judge, Goto, Waiting
<1>3. PedestalsLetIn'
  BY DEF Judge, Goto, PedestalsLetIn, MayCome
<1>4. BuffersFresh'
  <2>1. /\ pc = "judge" /\ Live /\ at = 1 /\ program' = program /\ at' = at
        /\ pc' = IF Failed /\ program = "NoStop" THEN "reset" ELSE "unlock"
    BY DEF Judge, Goto, Waiting
  <2>2. CASE Failed
    <3>1. ~Live' \/ pc' = "reset"
      BY <2>1, <2>2, JudgeHistory DEF TypeOK, Programs
    <3>2. \A m \in Modules : ~(m < at')
      BY <2>1, ModuleFacts
    <3> QED
      BY <2>1, <3>1, <3>2 DEF BuffersFresh
  <2>3. CASE ~Failed
    <3>1. base' = base + 1 /\ trignum' = trignum + 1 /\ UNCHANGED <<offset, strobes, count, buffer>>
      BY <2>3, JudgeLines DEF Judge
    <3>2. ASSUME NEW m \in Modules
          PROVE  Fresh(m, trignum - offset, base)'
      <4>1. /\ count[m] - (trignum - offset + 1) >= strobes - (base + 1)
            /\ InTime(m) /\ got[m] # NoData => Fresh(m, trignum - offset + 1, base + 1)
        BY <2>1, <2>3, JudgeReads DEF Counted
      <4>2. InTime(m)' => InTime(m) /\ got[m] # NoData
        BY <2>3, JudgeLines, JudgeHistory, JudgeReads
      <4>3. /\ trignum' - offset' = trignum - offset + 1
        BY <3>1 DEF TypeOK
      <4> QED
        BY <3>1, <4>1, <4>2, <4>3 DEF Fresh
    <3> QED
      BY <2>1, <2>3, <3>2 DEF BuffersFresh
  <2> QED
    BY <2>2, <2>3
<1>5. LastLine'
  <2>1. CASE Failed
    <3>1. \A q \in Qdcs : InTime(q)'
      BY <2>1, JudgeHistory DEF LastLine
    <3>2. Len(lines') > 0 /\ lines'[Len(lines')].marked
      BY <2>1, JudgeLines, JudgeHistory, JudgeReads
    <3> QED
      BY <3>1, <3>2 DEF LastLine
  <2>2. CASE ~Failed
    <3>1. \A q \in Qdcs : q \in Modules /\ InTime(q) /\ got[q].strobe = base + 1
      <4>1. ASSUME NEW q \in Qdcs
            PROVE  q \in Modules /\ InTime(q) /\ got[q].strobe = base + 1
        <5>1. q \in Modules /\ InTime(q) /\ got[q] # NoData /\ nev[q] = trignum
          BY <2>2, JudgeReads, ModuleFacts DEF LastLine
        <5>2. Counted(q, trignum - offset, base)
          BY <5>1, JudgeReads
        <5> QED
          BY <5>1, <5>2 DEF Counted
      <4> QED
        BY <4>1
    <3>2. pc' = "unlock" /\ base' = base + 1
      BY <2>2 DEF Judge, Goto
    <3>3. base + 1 # 0
      BY DEF TypeOK
    <3>4. \A q \in Qdcs : InTime(q)' /\ lines'[Len(lines')].data[q] = base + 1
      BY <2>2, <3>1, <3>3, JudgeLines, JudgeHistory DEF Line
    <3> QED
      BY <3>2, <3>4 DEF LastLine
  <2> QED
    BY <2>1, <2>2
<1>6. InStep'
  <2> SUFFICES ASSUME lucky, Live'
               PROVE  InStep'
    BY DEF Judge, InStep
  <2>1. /\ pc = "judge" /\ Live /\ program' = program /\ at' = at /\ at = 1 /\ locked
        /\ pc' = IF Failed /\ program = "NoStop" THEN "reset" ELSE "unlock"
        /\ UNCHANGED <<strobes, offset, count, disturbed, lucky, locked>>
    BY DEF Judge, Goto, Waiting
  <2>2. /\ strobes \in Nat /\ base \in Nat /\ trignum \in Nat /\ offset \in Nat
        /\ count \in [Modules -> Nat] /\ nev \in [Modules -> Int]
    BY DEF TypeOK
  <2>3. base = trignum /\ Excess = strobes - base - 1 /\ \A m \in Modules : WasRead(m)
    BY <2>1 DEF InStep, Excess, WasRead
  <2>4. CASE ~Failed
    <3>1. /\ base' = base + 1 /\ trignum' = trignum + 1 /\ pc' = "unlock"
          /\ \A m \in Modules : nev[m] = trignum
      BY <2>1, <2>4, JudgeLines, JudgeReads DEF Judge
    <3>2. Excess' = Excess
      BY <2>1, <2>2, <2>3, <3>1 DEF Excess
    <3>3. \A m \in Modules : ~WasRead(m)'
      BY <3>1 DEF WasRead
    <3>4. ASSUME NEW m \in Modules
          PROVE  count'[m] - (trignum' - offset') = strobes' - base'
                   <=> count[m] - (trignum - offset) = strobes - base
      BY <2>1, <2>2, <3>1
    <3>5. \A m \in Modules : Exact(m) => Exact(m)'
      BY <3>3, <3>4 DEF Exact
    <3> QED
      BY <2>1, <2>2, <2>3, <3>1, <3>2, <3>3, <3>4, <3>5 DEF InStep
  <2>5. CASE Failed
    <3>1. program = "NoStop" /\ pc' = "reset" /\ trignum' = trignum + IF Spurious THEN 2 ELSE 1
      BY <2>1, <2>5, JudgeLines, JudgeHistory DEF TypeOK, Programs
    <3>2. \A m \in Modules : ~(m < at')
      BY <2>1, ModuleFacts
    <3>3. \A m \in Modules : Exact(m) => nev[m] = trignum
      BY <2>3 DEF Exact
    <3>4. ~(Empty = {} /\ \A m \in Modules : nev[m] = trignum)
      BY <2>1, <2>5, JudgeLines, JudgeHistory, JudgeReads
    <3>5. disturbed
      BY <2>1, <3>3, <3>4 DEF InStep
    <3>6. CASE Excess = 0 /\ \E x \in Modules : \A m \in Modules \ {x} : Exact(m)
      <4>1. ~Spurious
        BY <3>3, <3>6, ModuleFacts DEF Spurious, Wrong
      <4> QED
        BY <2>1, <2>2, <2>3, <3>1, <3>2, <3>5, <3>6, <4>1 DEF InStep
    <3>7. CASE Excess = 1 /\ \A m \in Modules : nev[m] = trignum + 1
      <4>1. Wrong = Modules
        BY <2>2, <3>7 DEF Wrong
      <4>2. Spurious
        BY <3>7, <4>1, ModuleFacts DEF Spurious
      <4> QED
        BY <2>1, <2>2, <2>3, <3>1, <3>2, <3>5, <3>7, <4>2 DEF InStep
    <3> QED
      BY <2>1, <2>3, <3>4, <3>5, <3>6, <3>7 DEF InStep
  <2> QED
    BY <2>4, <2>5
<1>7. SlipsAreMarked'
  <2>1. CASE Failed
    BY <2>1, MarkedSlips
  <2>2. CASE ~Failed
    BY <2>2, UnmarkedSlips
  <2> QED
    BY <2>1, <2>2
<1>8. AlignedWithFers'
  <2> SUFFICES ASSUME lucky, NEW i \in 1 .. Len(lines'), ~lines'[i].marked
               PROVE  lines'[i].data[1] = i
    BY DEF Judge, AlignedWithFers
  <2>1. Len(lines) = trignum /\ Len(lines) \in Nat
    BY DEF SlipsAreMarked
  <2>2. CASE i \in 1 .. Len(lines)
    BY <2>2, JudgeLines DEF AlignedWithFers
  <2>3. CASE i \notin 1 .. Len(lines)
    <3>5. i \in Len(lines) + 1 .. Len(lines')
      BY <2>1, <2>3, JudgeLines
    <3>6. ~Failed
      BY <3>5, JudgeLines
    <3>1. i = trignum + 1 /\ lines'[i] = Line(FALSE)
      <4>1. Len(lines') = Len(lines) + 1 /\ lines'[Len(lines')] = Line(FALSE)
        BY <3>6, JudgeLines
      <4>2. i = Len(lines') /\ i = trignum + 1
        BY <2>1, <3>5, <4>1, SMT
      <4> QED
        BY <4>1, <4>2
    <3>3. got[1] # NoData /\ InTime(1) /\ nev[1] = trignum
      BY <3>6, JudgeReads, ModuleFacts DEF LastLine
    <3>4. lines'[i].data[1] = base + 1
      <4>1. Counted(1, trignum - offset, base)
        BY JudgeReads, ModuleFacts
      <4>2. got[1].strobe = base + 1
        BY <3>3, <4>1 DEF Counted
      <4> QED
        BY <3>1, <4>2, ModuleFacts DEF Line
    <3>2. base = trignum
      BY JudgeHistory DEF InStep, Judge, Goto
    <3> QED
      BY <3>1, <3>2, <3>4
  <2> QED
    BY <2>2, <2>3
<1>9. PedestalsKeepFraction'
  BY DEF Judge, Goto, PedestalsKeepFraction
<1> QED
  BY <1>1, <1>2, <1>3, <1>4, <1>5, <1>6, <1>7, <1>8, <1>9

\* Modules are reset one after the other, all by the last strobe.
LEMMA resetHardwareKeeps ==
  ASSUME SpsInv, resetHardware
  PROVE  SpsInv'
<1> USE DEF SpsInv, trigger_logic, modules, signals, luck, control, tallies, event, file, vars
<1>1. TypeOK'
  <2>1. count' \in [Modules -> Nat] /\ buffer' \in [Modules -> Seq([strobe : Nat, num : Nat])]
    BY HeadFacts DEF resetHardware, TypeOK, Datum
  <2>2. base' \in 0 .. strobes /\ pc' \in {"reset", "align"}
    BY DEF resetHardware, TypeOK
  <2>3. at' \in Modules
    BY ModuleFacts DEF resetHardware, TypeOK
  <2> QED
    BY <2>1, <2>2, <2>3 DEF resetHardware, TypeOK
<1>2. Waiting'
  BY DEF resetHardware, Waiting, Live
<1>3. PedestalsLetIn'
  BY DEF resetHardware, PedestalsLetIn, MayCome
<1>4. BuffersFresh'
  <2>1. /\ strobes \in Nat /\ base \in Nat /\ base <= strobes /\ at \in Modules
        /\ count \in [Modules -> Nat] /\ buffer \in [Modules -> Seq(Datum)] /\ pc = "reset"
        /\ strobes' = strobes /\ base' = strobes
    BY DEF TypeOK, resetHardware, Datum
  <2>2. pc' \in {"reset", "align"} /\ \A m : InTime(m)' <=> InTime(m)
    BY LinesSame DEF resetHardware
  <2>3. \A m \in Modules : pc' = "align" \/ m < at' => m < at \/ m = at
    BY <2>1, ModuleFacts, SMT DEF resetHardware, Modules
  <2>4. ASSUME NEW m \in Modules, m = at
        PROVE  Fresh(m, 0, base)'
    <3>1. count'[m] = 0 /\ buffer'[m] = <<>>
      BY <2>1, <2>4 DEF resetHardware
    <3>2. ~(strobes' > base') /\ strobes' # base' + 1 /\ 0 >= strobes' - base'
      BY <2>1
    <3> QED
      BY <3>1, <3>2 DEF Fresh
  <2>5. ASSUME NEW m \in Modules, m < at
        PROVE  Fresh(m, 0, base)'
    <3>1. count'[m] = count[m] /\ buffer'[m] = buffer[m]
      BY <2>1, <2>5, ModuleFacts DEF resetHardware
    <3>2. Fresh(m, 0, base)
      BY <2>1, <2>5 DEF BuffersFresh
    <3> QED
      BY <2>1, <2>2, <3>1, <3>2 DEF Fresh
  <2> QED
    BY <2>2, <2>3, <2>4, <2>5 DEF BuffersFresh
<1>5. LastLine'
  BY DEF resetHardware, LastLine, InTime
<1>6. InStep'
  <2> SUFFICES ASSUME lucky, Live
               PROVE  InStep'
    BY LinesSame DEF resetHardware, InStep
  <2>1. /\ at \in Modules /\ count \in [Modules -> Nat] /\ pc = "reset" /\ base' = strobes
        /\ pc' \in {"reset", "align"}
    BY DEF TypeOK, resetHardware
  <2>2. disturbed /\ strobes = trignum /\ \A m \in Modules : m < at => count[m] = 0
    BY <2>1 DEF InStep
  <2>3. \A m \in Modules : pc' = "align" \/ m < at' => m < at \/ m = at
    BY <2>1, ModuleFacts, SMT DEF resetHardware, Modules
  <2>4. \A m \in Modules : m < at \/ m = at => count'[m] = 0
    BY <2>1, <2>2 DEF resetHardware
  <2> QED
    BY <2>1, <2>2, <2>3, <2>4 DEF resetHardware, InStep
<1>7. SlipsAreMarked'
  BY LinesSame DEF resetHardware
<1>8. AlignedWithFers'
  BY LinesSame DEF resetHardware
<1>9. PedestalsKeepFraction'
  BY DEF resetHardware, PedestalsKeepFraction
<1> QED
  BY <1>1, <1>2, <1>3, <1>4, <1>5, <1>6, <1>7, <1>8, <1>9

\* The counters go on from the number of the next line.
LEMMA alignEventCounterKeeps ==
  ASSUME SpsInv, alignEventCounter
  PROVE  SpsInv'
<1> USE DEF SpsInv, trigger_logic, modules, signals, luck, control, tallies, event, file, vars
<1>1. TypeOK'
  <2>1. offset' \in 0 .. trignum' /\ pc' = "unlock"
    BY DEF alignEventCounter, Goto, TypeOK
  <2> QED
    BY <2>1 DEF alignEventCounter, TypeOK
<1>2. Waiting'
  BY DEF alignEventCounter, Goto, Waiting, Live
<1>3. PedestalsLetIn'
  BY DEF alignEventCounter, Goto, PedestalsLetIn, MayCome
<1>4. BuffersFresh'
  <2>1. /\ pc = "align" /\ pc' = "unlock" /\ trignum \in Nat /\ trignum' - offset' = 0
        /\ UNCHANGED <<strobes, base, count, buffer>>
    BY DEF alignEventCounter, Goto, TypeOK
  <2>2. \A m : InTime(m)' <=> InTime(m)
    BY LinesSame DEF alignEventCounter
  <2>3. ASSUME NEW m \in Modules
        PROVE  Fresh(m, trignum - offset, base)'
    <3>1. Fresh(m, 0, base)
      BY <2>1 DEF BuffersFresh
    <3> QED
      BY <2>1, <2>2, <3>1 DEF Fresh
  <2> QED
    BY <2>1, <2>3 DEF BuffersFresh
<1>5. LastLine'
  BY DEF alignEventCounter, Goto, LastLine, InTime
<1>6. InStep'
  BY DEF TypeOK, alignEventCounter, Goto, InStep, Excess, Exact, WasRead, Live, Empty
<1>7. SlipsAreMarked'
  BY LinesSame DEF alignEventCounter, Goto
<1>8. AlignedWithFers'
  BY LinesSame DEF alignEventCounter, Goto
<1>9. PedestalsKeepFraction'
  BY DEF alignEventCounter, Goto, PedestalsKeepFraction
<1> QED
  BY <1>1, <1>2, <1>3, <1>4, <1>5, <1>6, <1>7, <1>8, <1>9

\* The logic is unlocked after the line was written.
LEMMA UnlockTriggerKeeps ==
  ASSUME SpsInv, UnlockTrigger
  PROVE  SpsInv'
<1> USE DEF SpsInv, trigger_logic, modules, signals, luck, control, tallies, event, file, vars
<1>1. TypeOK'
  BY DEF TypeOK, UnlockTrigger, Goto
<1>2. Waiting'
  BY DEF UnlockTrigger, Goto, Waiting, Live
<1>3. PedestalsLetIn'
  BY DEF UnlockTrigger, Goto, PedestalsLetIn, MayCome
<1>4. BuffersFresh'
  BY DEF UnlockTrigger, Goto, BuffersFresh, Fresh, Popped, Counted, WasRead, InTime, Live
<1>5. LastLine'
  BY DEF UnlockTrigger, Goto, LastLine, InTime
<1>6. InStep'
  BY DEF UnlockTrigger, Goto, InStep, Excess, Exact, WasRead, Live, Empty
<1>7. SlipsAreMarked'
  BY LinesSame DEF UnlockTrigger, Goto
<1>8. AlignedWithFers'
  BY LinesSame DEF UnlockTrigger, Goto
<1>9. PedestalsKeepFraction'
  BY DEF UnlockTrigger, Goto, PedestalsKeepFraction
<1> QED
  BY <1>1, <1>2, <1>3, <1>4, <1>5, <1>6, <1>7, <1>8, <1>9

\* The loop ends with the veto set.
LEMMA EndKeeps ==
  ASSUME SpsInv, End
  PROVE  SpsInv'
<1> USE DEF SpsInv, trigger_logic, modules, signals, luck, control, tallies, event, file, vars
<1>1. TypeOK'
  BY DEF TypeOK, End, Goto
<1>2. Waiting'
  BY DEF End, Goto, Waiting, Live
<1>3. PedestalsLetIn'
  BY DEF End, Goto, PedestalsLetIn, MayCome
<1>4. BuffersFresh'
  BY DEF End, Goto, BuffersFresh, Fresh, Popped, Counted, WasRead, InTime, Live
<1>5. LastLine'
  BY DEF End, Goto, LastLine, InTime
<1>6. InStep'
  BY DEF End, Goto, InStep, Excess, Exact, WasRead, Live, Empty
<1>7. SlipsAreMarked'
  BY LinesSame DEF End, Goto
<1>8. AlignedWithFers'
  BY LinesSame DEF End, Goto
<1>9. PedestalsKeepFraction'
  BY DEF End, Goto, PedestalsKeepFraction
<1> QED
  BY <1>1, <1>2, <1>3, <1>4, <1>5, <1>6, <1>7, <1>8, <1>9

-------------------------------------------------------------------------------
\* The invariant holds at the start.
LEMMA InitHolds == Init => SpsInv
<1> SUFFICES ASSUME Init
             PROVE  SpsInv
  OBVIOUS
<1>1. TypeOK
  <2>1. /\ <<>> \in Seq([strobe : Nat, num : Nat])
        /\ <<>> \in Seq([marked : BOOLEAN, data : [Modules -> Nat]])
    BY SMT
  <2> QED
    <3>1. got \in [Modules -> [strobe : Nat, num : Int]]
      BY DEF Init, NoData
    <3>2. /\ count \in [Modules -> Nat] /\ nev \in [Modules -> Int]
          /\ buffer \in [Modules -> Seq([strobe : Nat, num : Nat])]
      BY <2>1 DEF Init
    <3>3. /\ strobes \in Nat /\ noise \in Nat /\ beamcts \in Nat /\ pedcts \in Nat
          /\ trignum \in Nat /\ offset \in 0 .. trignum /\ base \in 0 .. strobes
      BY DEF Init
    <3>4. lines \in Seq([marked : BOOLEAN, data : [Modules -> Nat]]) /\ at \in Modules
      BY <2>1, ModuleFacts DEF Init
    <3> QED
      BY <3>1, <3>2, <3>3, <3>4 DEF Init, TypeOK
<1>2. Waiting
  BY DEF Init, Waiting, Live
<1>3. PedestalsLetIn
  BY DEF Init, PedestalsLetIn, MayCome
<1>4. BuffersFresh
  BY DEF Init, BuffersFresh, Fresh
<1>5. LastLine
  BY DEF Init, LastLine, InTime
<1>6. InStep
  <2>1. Excess = 0 /\ \A m \in Modules : Exact(m)
    <3>1. Excess = 0
      <4>1. locked = FALSE /\ strobes - base = 0
        BY DEF Init
      <4> QED
        BY <4>1, SMT DEF Excess
    <3>2. ASSUME NEW m \in Modules
          PROVE  Exact(m)
      BY DEF Init, Exact, WasRead
    <3> QED
      BY <3>1, <3>2
  <2> QED
    BY <2>1 DEF Init, InStep
<1>7. SlipsAreMarked
  BY DEF Init, SlipsAreMarked
<1>8. AlignedWithFers
  BY DEF Init, AlignedWithFers
<1>9. PedestalsKeepFraction
  BY DEF Init, PedestalsKeepFraction
<1> QED
  BY <1>1, <1>2, <1>3, <1>4, <1>5, <1>6, <1>7, <1>8, <1>9 DEF SpsInv

\* The invariant is inductive.
LEMMA NextKeeps == SpsInv /\ [Next]_vars => SpsInv'
<1> SUFFICES ASSUME SpsInv, [Next]_vars
             PROVE  SpsInv'
  OBVIOUS
<1>1. CASE \E kinds \in SUBSET Inputs \ {{}} : Trigger(kinds)
  BY <1>1, TriggerKeeps
<1>2. CASE SpuriousStrobe
  BY <1>2, SpuriousStrobeKeeps
<1>3. CASE \E m \in Modules : SpuriousGate(m)
  BY <1>3, SpuriousGateKeeps
<1>4. CASE SIGINT \/ SIGUSR1
  BY <1>4, SIGINTKeeps, SIGUSR1Keeps
<1>5. CASE Program
  <2>1. CASE Top \/ NoTrigger \/ IsTrig
    BY <2>1, TopKeeps, NoTriggerKeeps, IsTrigKeeps
  <2>2. CASE \E late \in SUBSET Modules : ReadData(late)
    BY <2>2, ReadDataKeeps
  <2>3. CASE ReadCounter \/ Crash \/ Judge
    BY <2>3, ReadCounterKeeps, CrashKeeps, JudgeKeeps
  <2>4. CASE resetHardware \/ alignEventCounter
    BY <2>4, resetHardwareKeeps, alignEventCounterKeeps
  <2>5. CASE UnlockTrigger \/ End
    BY <2>5, UnlockTriggerKeeps, EndKeeps
  <2> QED
    BY <1>5, <2>1, <2>2, <2>3, <2>4, <2>5 DEF Program
<1>6. CASE UNCHANGED vars
  <2> USE <1>6
     DEF SpsInv, trigger_logic, modules, signals, luck, control, tallies, event, file, vars
  <2>1. TypeOK'
    BY DEF TypeOK
  <2>2. Waiting'
    BY DEF Waiting, Live
  <2>3. PedestalsLetIn'
    BY DEF PedestalsLetIn, MayCome
  <2>4. BuffersFresh'
    BY DEF BuffersFresh, Fresh, Popped, Counted, WasRead, InTime, Live
  <2>5. LastLine'
    BY DEF LastLine, InTime
  <2>6. InStep'
    BY DEF InStep, Excess, Exact, WasRead, Live, Empty
  <2>7. SlipsAreMarked' /\ AlignedWithFers'
    BY LinesSame
  <2>8. PedestalsKeepFraction'
    BY DEF PedestalsKeepFraction
  <2> QED
    BY <2>1, <2>2, <2>3, <2>4, <2>5, <2>6, <2>7, <2>8
<1> QED
  BY <1>1, <1>2, <1>3, <1>4, <1>5, <1>6 DEF Next

\* The inductive invariant of the readouts: what the flags, the modules' buffers and
\* counters, and the last line say of one another at each place of the program.
THEOREM SpsInvariant == Spec => []SpsInv
<1> QED
  BY InitHolds, NextKeeps, PTL DEF Spec

\* Every variable has its type: buffers hold what gates stored, lines have data of every
\* module.
THEOREM SpsTyped == Spec => []TypeOK
<1>1. SpsInv => TypeOK
  BY DEF SpsInv
<1> QED
  BY <1>1, SpsInvariant, PTL

\* Whatever strobes, gates and late answers come at any time, a line that does not go on
\* from the one before is marked as an error (readEvent and the main loops).
THEOREM SlipsMarked == Spec => []SlipsAreMarked
<1>1. SpsInv => SlipsAreMarked
  BY DEF SpsInv
<1> QED
  BY <1>1, SpsInvariant, PTL

\* As long as noise is what the fake line is meant for, a line has the event of its number
\* (myReadOutNoStop's recovery with print_fake_event).
THEOREM LinesAligned == Spec => []AlignedWithFers
<1>1. SpsInv => AlignedWithFers
  BY DEF SpsInv
<1> QED
  BY <1>1, SpsInvariant, PTL

\* The switching of the pedestal veto by two counters keeps the fraction of pedestals.
THEOREM FractionKept == Spec => []PedestalsKeepFraction
<1>1. SpsInv => PedestalsKeepFraction
  BY DEF SpsInv
<1> QED
  BY <1>1, SpsInvariant, PTL
===============================================================================
