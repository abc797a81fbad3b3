-------------------------- MODULE SbSTuningProofs --------------------------
(* Proofs that IInv is an invariant of SbSTuning, for every number of      *)
(* GEMMs, call trace and data-flow graph, and what follows from it.        *)
EXTENDS SbSTuning, FiniteSetTheorems, WellFoundedInduction, TLAPS

\* A nonempty bounded set of naturals has a greatest element.
LEMMA Greatest ==
  ASSUME NEW n \in Nat, NEW S \in SUBSET (0..n), S # {}
  PROVE  \E m \in S : \A x \in S : x <= m
<1> DEFINE T == {i \in 0..n : n - i \in S}
<1>1. T \subseteq Nat
  OBVIOUS
<1>2. T # {}
  <2>1. PICK x \in S : TRUE
    OBVIOUS
  <2>2. x \in 0..n /\ n - x \in 0..n /\ n - (n - x) = x
    OBVIOUS
  <2> QED BY <2>1, <2>2
<1>3. \E t \in T : \A y \in T : ~ (<<y, t>> \in OpToRel(<, Nat))
  BY <1>1, <1>2, NatLessThanWellFounded, WFMin, Zenon
<1>4. PICK t \in T : \A y \in T : ~ (<<y, t>> \in OpToRel(<, Nat))
  BY <1>3
<1>5. \A y \in T : ~ (y < t)
  BY <1>1, <1>4 DEF OpToRel
<1>6. \A x \in S : x <= n - t
  <2>1. SUFFICES ASSUME NEW x \in S PROVE x <= n - t
    OBVIOUS
  <2>2. x \in 0..n /\ n - x \in 0..n /\ n - (n - x) = x
    OBVIOUS
  <2>3. n - x \in T
    BY <2>2
  <2> QED BY <2>2, <2>3, <1>1, <1>5
<1> QED BY <1>6

\* A set of GEMMs closed under "runs before" is an initial segment.
LEMMA InitialSegment ==
  ASSUME NEW S \in SUBSET Gemms, \A g \in S : \A h \in 1..g : h \in S
  PROVE  \E k \in 0..N : S = 1..k
<1>1. CASE S = {}
  BY <1>1, NAssumption
<1>2. CASE S # {}
  <2>1. N \in Nat /\ S \in SUBSET (0..N)
    BY NAssumption DEF Gemms
  <2>2. PICK m \in S : \A x \in S : x <= m
    BY <1>2, <2>1, Greatest
  <2>3. m \in 1..N /\ S \subseteq 1..m /\ 1..m \subseteq S
    BY <2>2, NAssumption DEF Gemms
  <2>4. S = 1..m
    BY <2>3, Zenon
  <2>5. m \in 0..N
    BY <2>3, <2>1
  <2> QED BY <2>4, <2>5
<1> QED BY <1>1, <1>2

\* The arguments are triples of the type the records have.
LEMMA ArgsFacts == 
  /\ Fp32 \in Args /\ Skipped \in Args /\ LeastPrecise \in Args
  /\ Keys \subseteq Args
  /\ <<>> \notin Args
<1>1. \A a \in Grid : a # <<>>
  BY GridAssumption
<1> QED BY <1>1 DEF Args, Keys, Fp32, Skipped, LeastPrecise

\* Levels are 0, 1 or 2 and only fp32 is at level 2; upgrading raises them.
LEMMA LevelFacts ==
  ASSUME NEW a \in Args
  PROVE  /\ Level(a) \in 0..2
         /\ Level(a) = 2 <=> a = Fp32
         /\ Upgrade(a) \in {Skipped, Fp32}
         /\ Level(Upgrade(a)) >= Level(a)
         /\ Level(Fp32) = 2
  BY ArgsFacts DEF Level, Upgrade, Skipped, Fp32

LEMMA InitIInv == Init => IInv
<1> SUFFICES ASSUME Init PROVE IInv
  OBVIOUS
<1> USE DEF Init
<1>1. TypeOK
  BY NAssumption, TraceAssumption, ModeAssumption DEF TypeOK
<1>2. DriverInv
  BY NAssumption DEF DriverInv
<1>3. FilesInOrder
  <2>1. IdsIn({}) = 1..0
    BY DEF IdsIn
  <2> QED BY <2>1, NAssumption DEF FilesInOrder, IdsIn
<1>4. MemoryInOrder /\ TunedInOrder /\ ArgsDefined /\ RecordsOfCode /\ LevelsKept
  BY DEF MemoryInOrder, TunedInOrder, ArgsDefined, RecordsOfCode, LevelsKept
<1> QED BY <1>1, <1>2, <1>3, <1>4 DEF IInv

----------------------------------------------------------------------------
(* One lemma per action: it preserves the inductive invariant.             *)

LEMMA ReadBanIdStep == IInv /\ ReadBanId => IInv'
<1> SUFFICES ASSUME IInv, ReadBanId PROVE IInv'
  OBVIOUS
<1> USE DEF IInv, ReadBanId, BansRead, driver, code
<1>1. TypeOK'
  BY DEF TypeOK
<1>2. DriverInv' /\ FilesInOrder'
  BY DEF DriverInv, FilesInOrder, IdsIn
<1>3. MemoryInOrder' /\ TunedInOrder' /\ ArgsDefined' /\ RecordsOfCode' /\ LevelsKept'
  BY DEF MemoryInOrder, TunedInOrder, ArgsDefined, RecordsOfCode, LevelsKept
<1> QED BY <1>1, <1>2, <1>3

\* A trace that calls no GEMM twice lists them all in order: the first call out
\* of place would be of a GEMM that has been called or of one that is called too
\* early.
LEMMA TraceWithoutRepetition ==
  ASSUME \A p, q \in DOMAIN Trace : p < q => Trace[p] # Trace[q]
  PROVE  Trace = [g \in Gemms |-> g]
<1> DEFINE Wrong == {p \in DOMAIN Trace : Trace[p] # p}
<1>1. /\ DOMAIN Trace = 1..Len(Trace) /\ Len(Trace) \in Nat /\ N \in Nat
      /\ \A p \in DOMAIN Trace : Trace[p] \in 1..N
  BY TraceAssumption, NAssumption DEF Gemms
<1>2. Wrong = {}
  <2> SUFFICES ASSUME Wrong # {} PROVE FALSE
    OBVIOUS
  <2>1. Wrong \subseteq Nat
    BY <1>1
  <2>2. \E p \in Wrong : \A q \in Wrong : ~ (<<q, p>> \in OpToRel(<, Nat))
    BY <2>1, NatLessThanWellFounded, WFMin, Zenon
  <2>3. PICK p \in Wrong : \A q \in Wrong : ~ (<<q, p>> \in OpToRel(<, Nat))
    BY <2>2
  <2>4. \A q \in 1..(p - 1) : q \in DOMAIN Trace /\ Trace[q] = q
    <3> SUFFICES ASSUME NEW q \in 1..(p - 1) PROVE q \in DOMAIN Trace /\ Trace[q] = q
      OBVIOUS
    <3>1. q \in Nat /\ p \in Nat /\ q < p /\ q \in DOMAIN Trace
      BY <1>1
    <3>2. <<q, p>> \in OpToRel(<, Nat)
      BY <3>1 DEF OpToRel
    <3>3. q \notin Wrong
      BY <2>3, <3>2
    <3> QED BY <3>1, <3>3
  <2>5. CASE Trace[p] < p
    BY <2>4, <2>5, <1>1
  <2>6. CASE Trace[p] > p
    <3>1. p \in 1..(Trace[p] - 1)
      BY <2>6, <1>1
    <3>2. PICK q \in 1..(p - 1) : Trace[q] = p
      BY <3>1, TraceAssumption
    <3> QED BY <3>2, <2>4, <1>1
  <2> QED BY <2>5, <2>6, <1>1
<1>3. DOMAIN Trace = Gemms
  <2>1. \A p \in DOMAIN Trace : p \in Gemms
    BY <1>1, <1>2 DEF Gemms
  <2>2. \A g \in Gemms : g \in DOMAIN Trace
    BY <1>2, TraceAssumption
  <2> QED BY <2>1, <2>2
<1>4. Trace = [p \in DOMAIN Trace |-> Trace[p]]
  BY TraceAssumption
<1> QED BY <1>2, <1>3, <1>4

LEMMA ReadRunnedFuncIDFileStep == IInv /\ ReadRunnedFuncIDFile => IInv'
<1> SUFFICES ASSUME IInv, ReadRunnedFuncIDFile PROVE IInv'
  OBVIOUS
<1> USE DEF IInv, ReadRunnedFuncIDFile, MakeRunnedFuncIDSet, driver, code, memory
<1>0. idFile' = [g \in Gemms |-> g]
  <2>1. CASE Reorg
    BY <2>1
  <2>2. CASE ~ Reorg /\ idFile = Trace
    BY <2>2, TraceWithoutRepetition DEF Reorg
  <2> QED BY <2>1, <2>2 DEF DriverInv
<1>1. TypeOK'
  <2>1. idFile' \in Seq(Gemms)
    BY <1>0, NAssumption DEF Gemms
  <2> QED BY <2>1 DEF TypeOK
<1>2. DriverInv' /\ FilesInOrder'
  BY <1>0 DEF DriverInv, FilesInOrder, IdsIn
<1>3. MemoryInOrder' /\ TunedInOrder' /\ ArgsDefined' /\ RecordsOfCode' /\ LevelsKept'
  BY DEF MemoryInOrder, TunedInOrder, ArgsDefined, RecordsOfCode, LevelsKept
<1> QED BY <1>1, <1>2, <1>3

LEMMA ReadOptimizedDataFileStep == IInv /\ ReadOptimizedDataFile => IInv'
<1> SUFFICES ASSUME IInv, ReadOptimizedDataFile PROVE IInv'
  OBVIOUS
<1> USE DEF IInv, ReadOptimizedDataFile, FlushFile, driver, code
<1>1. /\ IdsIn(optData) \subseteq Gemms
      /\ DOMAIN best' = IdsIn(optData)
      /\ \A g \in DOMAIN best' : best'[g] \in Args
      /\ toRepair' \subseteq DOMAIN best'
  BY DEF TypeOK, TuneRecords, IdsIn
<1>2. TypeOK'
  BY <1>1 DEF TypeOK
<1>3. IdsIn(optData') = {}
  BY DEF IdsIn
<1>4. DriverInv' /\ FilesInOrder'
  BY <1>3 DEF DriverInv, FilesInOrder, IdsIn
<1>5. MemoryInOrder'
  <2>1. PICK k \in 0..N : IdsIn(singleErr) = 1..k /\ IdsIn(optData) \subseteq {k + 1}
    BY DEF FilesInOrder
  <2>2. IdsIn(singleErr)' = 1..k /\ DOMAIN best' \subseteq {k + 1}
    BY <2>1, <1>1 DEF IdsIn
  <2> QED BY <2>2, <1>1 DEF MemoryInOrder
<1>6. TunedInOrder' /\ ArgsDefined' /\ RecordsOfCode'
  BY <1>1 DEF TunedInOrder, ArgsDefined, RecordsOfCode
<1>7. LevelsKept'
  BY <1>1 DEF LevelsKept, RecordsOfCode, IdsIn
<1> QED BY <1>2, <1>4, <1>5, <1>6, <1>7

LEMMA ReadLastPassSeperateErrorStep == IInv /\ ReadLastPassSeperateError => IInv'
<1> SUFFICES ASSUME IInv, ReadLastPassSeperateError PROVE IInv'
  OBVIOUS
<1> USE DEF IInv, ReadLastPassSeperateError, FlushFile, driver, code
<1>1. PICK last \in [IdsIn(singleErr) -> Args] :
        /\ \A g \in IdsIn(singleErr) : last[g] \in ArgsIn(singleErr, g)
        /\ best' = [g \in DOMAIN best \cup IdsIn(singleErr) |->
                        IF g \in IdsIn(singleErr) THEN KeptArgs(g, last[g])
                        ELSE best[g]]
  OBVIOUS
<1>2. /\ IdsIn(singleErr) \subseteq Gemms
      /\ DOMAIN best' = DOMAIN best \cup IdsIn(singleErr)
      /\ toRepair' \subseteq DOMAIN best'
  BY <1>1 DEF TypeOK, CheckRecords, IdsIn, MemoryInOrder
<1>3. \A g \in DOMAIN best' : best'[g] \in Args
  BY <1>1, ArgsFacts DEF ArgsDefined, KeptArgs
<1>4. TypeOK'
  BY <1>2, <1>3 DEF TypeOK
<1>5. IdsIn(singleErr') = {} /\ IdsIn(optData') = {}
  BY DEF IdsIn, MemoryInOrder
<1>6. DriverInv' /\ FilesInOrder'
  <2>1. DriverInv'
    BY DEF DriverInv
  <2>2. 0 \in 0..N /\ 1..0 = {}
    BY NAssumption
  <2>3. IdsIn(singleErr)' = {} /\ IdsIn(optData)' = {}
    BY <1>5 DEF IdsIn
  <2> QED BY <2>1, <2>2, <2>3 DEF FilesInOrder
<1>7. \E k \in 0..N : DOMAIN best' = 1..k
  <2>1. PICK k \in 0..N : IdsIn(singleErr) = 1..k /\ DOMAIN best \subseteq {k + 1}
    BY DEF MemoryInOrder
  <2>2. CASE DOMAIN best = {}
    BY <2>1, <2>2, <1>2
  <2>3. CASE DOMAIN best = {k + 1}
    <3>1. k + 1 \in 0..N /\ DOMAIN best' = 1..(k + 1)
      BY <2>1, <2>3, <1>2, NAssumption DEF TypeOK, Gemms
    <3> QED BY <3>1
  <2>4. DOMAIN best = {} \/ DOMAIN best = {k + 1}
    BY <2>1, Zenon
  <2> QED BY <2>2, <2>3, <2>4
<1>8. MemoryInOrder' /\ TunedInOrder' /\ ArgsDefined' /\ RecordsOfCode'
  BY <1>2, <1>3, <1>7 DEF MemoryInOrder, TunedInOrder, ArgsDefined, RecordsOfCode
<1>9. LevelsKept'
  <2>1. SUFFICES ASSUME NEW g \in DOMAIN best', g \in DOMAIN checked
                 PROVE  Level(best'[g]) >= Level(checked[g])
    BY DEF LevelsKept
  <2>2. g \in IdsIn(singleErr)
    BY <2>1, <1>2 DEF LevelsKept
  <2>3. last[g] = checked[g]
    BY <1>1, <2>2 DEF RecordsOfCode, ArgsIn
  <2>4. best'[g] \in {checked[g], Fp32}
    BY <1>1, <1>2, <2>2, <2>3 DEF KeptArgs
  <2>5. checked[g] \in Args
    BY <2>1 DEF ArgsDefined
  <2> QED BY <2>4, <2>5, LevelFacts
<1> QED BY <1>4, <1>6, <1>8, <1>9

LEMMA WriteBanIdStep == IInv /\ WriteBanId => IInv'
<1> SUFFICES ASSUME IInv, WriteBanId PROVE IInv'
  OBVIOUS
<1> USE DEF IInv, WriteBanId, driver, code, memory
<1>1. TypeOK'
  BY DEF TypeOK
<1>2. DriverInv' /\ FilesInOrder'
  BY DEF DriverInv, FilesInOrder, IdsIn
<1>3. MemoryInOrder' /\ TunedInOrder' /\ ArgsDefined' /\ RecordsOfCode' /\ LevelsKept'
  BY DEF MemoryInOrder, TunedInOrder, ArgsDefined, RecordsOfCode, LevelsKept
<1> QED BY <1>1, <1>2, <1>3

\* The search visits GEMMs with arguments only: those are an initial segment,
\* and the adjusted relations lead to earlier GEMMs.
LEMMA ReachedAreTuned ==
  ASSUME TypeOK, NEW k \in 0..N, DOMAIN best = 1..k, NEW roots, roots \subseteq DOMAIN best
  PROVE  ReachedFrom(roots) \subseteq DOMAIN best
<1>1. DOMAIN best \in SUBSET Gemms
  BY DEF TypeOK
<1>2. \A h \in DOMAIN best : Adjusted(h) \subseteq DOMAIN best
  <2>1. SUFFICES ASSUME NEW h \in DOMAIN best, NEW j \in Adjusted(h)
                 PROVE  j \in DOMAIN best
    OBVIOUS
  <2>2. h \in 1..k /\ j \in Gemms /\ j < h
    BY <1>1, GraphsAssumption DEF TypeOK, Adjusted
  <2> QED BY <2>2, NAssumption DEF Gemms
<1> QED BY <1>1, <1>2 DEF ReachedFrom

LEMMA BestArgumentsRepairStep == IInv /\ BestArgumentsRepair => IInv'
<1> SUFFICES ASSUME IInv, BestArgumentsRepair PROVE IInv'
  OBVIOUS
<1> USE DEF IInv, BestArgumentsRepair, driver, code, files
<1>1. PICK k \in 0..N : DOMAIN best = 1..k
  BY DEF MemoryInOrder
<1>2. ReachedFrom(toRepair) \subseteq DOMAIN best
  BY <1>1, ReachedAreTuned DEF MemoryInOrder
<1>3. /\ DOMAIN best' = DOMAIN best
      /\ \A g \in DOMAIN best :
            best'[g] = IF g \notin ReachedFrom(toRepair) THEN best[g]
                       ELSE IF Level(best[g]) = 2 THEN Fp32 ELSE Upgrade(best[g])
  BY <1>2 DEF ArgsOf
<1>4. \A g \in DOMAIN best : best'[g] \in Args /\ Level(best'[g]) >= Level(best[g])
  <2>1. SUFFICES ASSUME NEW g \in DOMAIN best
                 PROVE  best'[g] \in Args /\ Level(best'[g]) >= Level(best[g])
    OBVIOUS
  <2>2. best[g] \in Args
    BY DEF ArgsDefined
  <2>3. Level(best[g]) \in 0..2 /\ Level(Upgrade(best[g])) >= Level(best[g])
        /\ Upgrade(best[g]) \in Args /\ Level(Fp32) = 2
    BY <2>2, LevelFacts, ArgsFacts
  <2> QED BY <1>3, <2>2, <2>3, ArgsFacts
<1>5. TypeOK'
  BY <1>3, <1>4 DEF TypeOK
<1>6. DriverInv' /\ FilesInOrder'
  BY DEF DriverInv, FilesInOrder, IdsIn
<1>7. MemoryInOrder' /\ TunedInOrder' /\ ArgsDefined' /\ RecordsOfCode'
  BY <1>3, <1>4 DEF MemoryInOrder, TunedInOrder, ArgsDefined, RecordsOfCode
<1>8. LevelsKept'
  <2>1. SUFFICES ASSUME NEW g \in DOMAIN best, g \in DOMAIN checked
                 PROVE  Level(best'[g]) >= Level(checked[g])
    BY <1>3 DEF LevelsKept
  <2>2. /\ Level(best'[g]) >= Level(best[g])
        /\ Level(best[g]) >= Level(checked[g])
    BY <2>1, <1>4 DEF LevelsKept
  <2>3. /\ Level(best'[g]) \in 0..2
        /\ Level(best[g]) \in 0..2
        /\ Level(checked[g]) \in 0..2
    BY <2>1, <1>4, LevelFacts DEF ArgsDefined
  <2> QED BY <2>2, <2>3
<1> QED BY <1>5, <1>6, <1>7, <1>8

LEMMA ReplaceCallsStep == IInv /\ ReplaceCalls => IInv'
<1> SUFFICES ASSUME IInv, ReplaceCalls PROVE IInv'
  OBVIOUS
<1> USE DEF IInv, ReplaceCalls, driver, memory, files
<1>1. PICK k \in 0..N : DOMAIN best = 1..k
  BY DEF MemoryInOrder
<1>2. Cardinality(DOMAIN best) = k
  BY <1>1, FS_Interval, NAssumption
<1>3. NextFuncId = IF k = N THEN 0 ELSE k + 1
  BY <1>2, NAssumption DEF NextFuncId, DriverInv, Gemms
<1>4. tuning' = NextFuncId
  BY <1>1, <1>3, NAssumption
<1>5. TypeOK'
  BY <1>3, <1>4, NAssumption DEF TypeOK
<1>6. DriverInv' /\ FilesInOrder'
  BY DEF DriverInv, FilesInOrder, IdsIn
<1>7. TunedInOrder'
  BY <1>1, <1>3, <1>4 DEF TunedInOrder
<1>8. MemoryInOrder' /\ ArgsDefined' /\ RecordsOfCode' /\ LevelsKept'
  BY DEF MemoryInOrder, ArgsDefined, RecordsOfCode, LevelsKept
<1> QED BY <1>5, <1>6, <1>7, <1>8

\* The checked GEMMs an interrupted execution left records of are the first
\* ones, and it has records of the tuned GEMM only if it has of all of them.
LEMMA PrefixInOrder ==
  ASSUME TypeOK, ArgsDefined, NEW k \in 0..N, DOMAIN checked = 1..k,
         tuning = IF k = N THEN 0 ELSE k + 1,
         NEW done \in Prefixes
  PROVE  LET ids == {Trace[s[1]] : s \in done}
         IN  /\ ids \subseteq DOMAIN checked \cup {k + 1}
             /\ \E j \in 0..N : ids \cap DOMAIN checked = 1..j
             /\ k + 1 \in ids => ids \cap DOMAIN checked = 1..k
<1> DEFINE ids == {Trace[s[1]] : s \in done}
<1>1. done \subseteq Slots
  BY DEF Prefixes
<1>2. \A s \in Slots : /\ s[1] \in DOMAIN Trace
                       /\ Trace[s[1]] \in Gemms
                       /\ s[2] \in Measures(Trace[s[1]])
  BY TraceAssumption DEF Slots
<1>3. ids \subseteq DOMAIN checked \cup {k + 1}
  <2>1. SUFFICES ASSUME NEW s \in done, Trace[s[1]] \notin DOMAIN checked
                 PROVE  Trace[s[1]] = k + 1
    OBVIOUS
  <2>2. Trace[s[1]] \in Gemms /\ s[2] \in Measures(Trace[s[1]])
    BY <1>1, <1>2
  <2>3. Trace[s[1]] = tuning
    BY <2>1, <2>2 DEF Measures
  <2> QED BY <2>2, <2>3, NAssumption DEF Gemms
<1>4. \A g \in ids, h \in DOMAIN checked : h < g => h \in ids
  <2>1. SUFFICES ASSUME NEW s \in done, NEW h \in DOMAIN checked, h < Trace[s[1]]
                 PROVE  h \in ids
    OBVIOUS
  <2>2. s[1] \in DOMAIN Trace /\ Trace[s[1]] \in Gemms
    BY <1>1, <1>2
  <2>3. h \in 1..(Trace[s[1]] - 1)
    BY <2>1, <2>2, NAssumption DEF Gemms
  <2>4. PICK q \in 1..(s[1] - 1) : Trace[q] = h
    BY <2>2, <2>3, TraceAssumption
  <2>5. q \in DOMAIN Trace /\ q < s[1]
    BY <2>2, <2>4, TraceAssumption
  <2> DEFINE t == <<q, checked[h]>>
  <2>6. t \in Slots
    BY <2>4, <2>5 DEF Slots, Measures, ArgsDefined
  <2>7. t \in done
    BY <2>5, <2>6 DEF Prefixes, Before
  <2> QED BY <2>4, <2>7
<1>5. \E j \in 0..N : ids \cap DOMAIN checked = 1..j
  <2>1. ids \cap DOMAIN checked \in SUBSET Gemms
    BY DEF TypeOK
  <2>2. \A g \in ids \cap DOMAIN checked : \A h \in 1..g : h \in ids \cap DOMAIN checked
    <3>1. SUFFICES ASSUME NEW g \in ids \cap DOMAIN checked, NEW h \in 1..g
                   PROVE  h \in ids \cap DOMAIN checked
      OBVIOUS
    <3>2. g \in 1..k /\ h \in 1..k
      BY <3>1, NAssumption
    <3>3. h = g \/ h < g
      BY <3>1, <3>2
    <3> QED BY <3>1, <3>2, <3>3, <1>4
  <2> QED BY <2>1, <2>2, InitialSegment
<1>6. ASSUME k + 1 \in ids PROVE ids \cap DOMAIN checked = 1..k
  <2>1. \A h \in 1..k : h < k + 1
    BY NAssumption
  <2>2. 1..k \subseteq ids
    BY <1>4, <1>6, <2>1
  <2> QED BY <2>2
<1> QED BY <1>3, <1>5, <1>6

LEMMA ExecuteStep == IInv /\ Execute => IInv'
<1> SUFFICES ASSUME IInv, Execute PROVE IInv'
  OBVIOUS
<1> USE DEF IInv, Execute, memory, code
<1>1. PICK k \in 0..N : DOMAIN checked = 1..k /\ tuning = IF k = N THEN 0 ELSE k + 1
  BY DEF TunedInOrder
<1>2. Slots \in Prefixes
  BY DEF Prefixes
<1>3. PICK done \in Prefixes :
        LET tuneSlots == {s \in done : Trace[s[1]] \notin DOMAIN checked}
        IN  \E time \in [tuneSlots -> Times], err \in [done -> Errs] :
              /\ optData' = optData \cup
                     {TuneRecordOf(s, time[s], err[s]) : s \in tuneSlots}
              /\ singleErr' = singleErr \cup
                     {CheckRecordOf(s, err[s]) : s \in done \ tuneSlots}
              /\ pc' = AfterRun(done)
  BY <1>2
<1> DEFINE tuneSlots == {s \in done : Trace[s[1]] \notin DOMAIN checked}
<1>4. PICK time \in [tuneSlots -> Times], err \in [done -> Errs] :
              /\ optData' = {TuneRecordOf(s, time[s], err[s]) : s \in tuneSlots}
              /\ singleErr' = {CheckRecordOf(s, err[s]) : s \in done \ tuneSlots}
              /\ pc' = AfterRun(done)
  <2>1. optData = {} /\ singleErr = {}
    BY DEF MemoryInOrder
  <2>2. PICK time \in [tuneSlots -> Times], err \in [done -> Errs] :
              /\ optData' = optData \cup
                     {TuneRecordOf(s, time[s], err[s]) : s \in tuneSlots}
              /\ singleErr' = singleErr \cup
                     {CheckRecordOf(s, err[s]) : s \in done \ tuneSlots}
              /\ pc' = AfterRun(done)
    BY <1>3, Zenon
  <2>3. /\ optData' = {TuneRecordOf(s, time[s], err[s]) : s \in tuneSlots}
        /\ singleErr' = {CheckRecordOf(s, err[s]) : s \in done \ tuneSlots}
        /\ pc' = AfterRun(done)
    BY <2>1, <2>2, Zenon
  <2> QED BY <2>3, Zenon
<1> DEFINE ids == {Trace[s[1]] : s \in done}
<1>5. /\ ids \subseteq DOMAIN checked \cup {k + 1}
      /\ \E j \in 0..N : ids \cap DOMAIN checked = 1..j
      /\ k + 1 \in ids => ids \cap DOMAIN checked = 1..k
  BY <1>1, PrefixInOrder
<1>6. IdsIn(singleErr)' = ids \cap DOMAIN checked /\ IdsIn(optData)' = ids \ DOMAIN checked
  <2>1. \A s \in done : /\ TuneRecordOf(s, time[s], err[s]).gemm = Trace[s[1]]
                        /\ CheckRecordOf(s, err[s]).gemm = Trace[s[1]]
    BY DEF TuneRecordOf, CheckRecordOf
  <2>2. IdsIn(singleErr') = {Trace[s[1]] : s \in done \ tuneSlots}
    <3>1. ASSUME NEW r \in singleErr'
          PROVE  \E s \in done \ tuneSlots : r.gemm = Trace[s[1]]
      BY <1>4, <2>1
    <3>2. ASSUME NEW s \in done \ tuneSlots
          PROVE  \E r \in singleErr' : r.gemm = Trace[s[1]]
      BY <1>4, <2>1
    <3> QED BY <3>1, <3>2 DEF IdsIn
  <2>3. IdsIn(optData') = {Trace[s[1]] : s \in tuneSlots}
    <3>1. ASSUME NEW r \in optData'
          PROVE  \E s \in tuneSlots : r.gemm = Trace[s[1]]
      BY <1>4, <2>1
    <3>2. ASSUME NEW s \in tuneSlots
          PROVE  \E r \in optData' : r.gemm = Trace[s[1]]
      BY <1>4, <2>1
    <3> QED BY <3>1, <3>2 DEF IdsIn
  <2>4. IdsIn(singleErr)' = IdsIn(singleErr') /\ IdsIn(optData)' = IdsIn(optData')
    BY DEF IdsIn
  <2> QED BY <2>2, <2>3, <2>4
<1>7. FilesInOrder'
  BY <1>5, <1>6, <1>1 DEF FilesInOrder
<1>8. \A s \in done : /\ s[1] \in DOMAIN Trace
                      /\ Trace[s[1]] \in Gemms
                      /\ s[2] \in Args
                      /\ s[2] \in Measures(Trace[s[1]])
  BY TraceAssumption DEF Prefixes, Slots
<1>9. optData' \subseteq TuneRecords /\ singleErr' \subseteq CheckRecords
  BY <1>4, <1>8 DEF TuneRecordOf, CheckRecordOf, TuneRecords, CheckRecords
<1>10. TypeOK' /\ DriverInv'
  <2>1. Len(idFile) = N
    BY NAssumption DEF DriverInv, Gemms
  <2>2. pc' = IF runs + 1 = N + 2 THEN "gen" ELSE "readBan"
    BY <1>4, <2>1 DEF AfterRun
  <2>3. pc = "exec" /\ runs < N + 2 /\ runs \in 0..(N + 2)
    BY DEF TypeOK, DriverInv
  <2>4. runs' \in 0..(N + 2) /\ (pc' \notin {"gen", "done"} => runs' < N + 2)
    BY <2>2, <2>3, NAssumption
  <2>5. DriverInv'
    BY <2>3, <2>4 DEF DriverInv
  <2>6. TypeOK'
    BY <1>9, <2>2, <2>4 DEF TypeOK
  <2> QED BY <2>5, <2>6
<1>11. MemoryInOrder' /\ TunedInOrder' /\ ArgsDefined' /\ LevelsKept'
  <2>1. pc' \in {"gen", "readBan"}
    BY <1>4 DEF AfterRun
  <2> QED BY <2>1 DEF MemoryInOrder, TunedInOrder, ArgsDefined, LevelsKept
<1>12. RecordsOfCode'
  <2>1. ASSUME NEW r \in singleErr'
        PROVE  r.gemm \in DOMAIN checked /\ r.args = checked[r.gemm]
    <3>1. PICK s \in done \ tuneSlots : r = CheckRecordOf(s, err[s])
      BY <1>4
    <3>2. r.gemm = Trace[s[1]] /\ r.args = s[2]
      BY <3>1 DEF CheckRecordOf
    <3>3. Trace[s[1]] \in DOMAIN checked
      BY <3>1
    <3> QED BY <3>2, <3>3, <1>8 DEF Measures
  <2>2. ASSUME NEW r \in optData'
        PROVE  r.gemm = tuning /\ r.gemm \notin DOMAIN checked
    <3>1. PICK s \in tuneSlots : r = TuneRecordOf(s, time[s], err[s])
      BY <1>4
    <3>2. r.gemm = Trace[s[1]]
      BY <3>1 DEF TuneRecordOf
    <3> QED BY <3>1, <3>2, <1>8 DEF Measures
  <2> QED BY <2>1, <2>2 DEF RecordsOfCode
<1> QED BY <1>7, <1>10, <1>11, <1>12

LEMMA GenerateFinalCodeStep == IInv /\ GenerateFinalCode => IInv'
<1> SUFFICES ASSUME IInv, GenerateFinalCode PROVE IInv'
  OBVIOUS
<1> USE DEF IInv, GenerateFinalCode, driver, files, code, memory
<1>1. TypeOK'
  BY DEF TypeOK
<1>2. DriverInv' /\ FilesInOrder'
  BY DEF DriverInv, FilesInOrder, IdsIn
<1>3. MemoryInOrder' /\ TunedInOrder' /\ ArgsDefined' /\ RecordsOfCode' /\ LevelsKept'
  BY DEF MemoryInOrder, TunedInOrder, ArgsDefined, RecordsOfCode, LevelsKept
<1> QED BY <1>1, <1>2, <1>3

LEMMA RestartStep == IInv /\ Restart => IInv'
<1> SUFFICES ASSUME IInv, Restart PROVE IInv'
  OBVIOUS
<1> USE DEF IInv, Restart, code
<1>1. TypeOK'
  BY NAssumption, TraceAssumption, ModeAssumption DEF TypeOK
<1>2. DriverInv' /\ FilesInOrder'
  <2>1. DriverInv'
    BY NAssumption DEF DriverInv
  <2>2. FilesInOrder'
    BY DEF FilesInOrder, IdsIn
  <2> QED BY <2>1, <2>2
<1>3. MemoryInOrder' /\ TunedInOrder' /\ ArgsDefined' /\ RecordsOfCode' /\ LevelsKept'
  BY DEF MemoryInOrder, TunedInOrder, ArgsDefined, RecordsOfCode, LevelsKept
<1> QED BY <1>1, <1>2, <1>3

LEMMA StutterStep == IInv /\ UNCHANGED vars => IInv'
<1> SUFFICES ASSUME IInv, UNCHANGED vars PROVE IInv'
  OBVIOUS
<1> USE DEF IInv, vars, driver, files, code, memory
<1>1. TypeOK' /\ DriverInv'
  BY DEF TypeOK, DriverInv
<1>2. FilesInOrder'
  BY DEF FilesInOrder, IdsIn
<1>3. MemoryInOrder'
  BY DEF MemoryInOrder, IdsIn
<1>4. TunedInOrder' /\ ArgsDefined' /\ RecordsOfCode' /\ LevelsKept'
  BY DEF TunedInOrder, ArgsDefined, RecordsOfCode, LevelsKept
<1> QED BY <1>1, <1>2, <1>3, <1>4

LEMMA NextStep == IInv /\ [Next]_vars => IInv'
<1> SUFFICES ASSUME IInv, [Next]_vars PROVE IInv'
  OBVIOUS
<1>1. CASE ReadBanId                  BY <1>1, ReadBanIdStep
<1>2. CASE ReadRunnedFuncIDFile       BY <1>2, ReadRunnedFuncIDFileStep
<1>3. CASE ReadOptimizedDataFile      BY <1>3, ReadOptimizedDataFileStep
<1>4. CASE ReadLastPassSeperateError  BY <1>4, ReadLastPassSeperateErrorStep
<1>5. CASE WriteBanId                 BY <1>5, WriteBanIdStep
<1>6. CASE BestArgumentsRepair        BY <1>6, BestArgumentsRepairStep
<1>7. CASE ReplaceCalls               BY <1>7, ReplaceCallsStep
<1>8. CASE Execute                    BY <1>8, ExecuteStep
<1>9. CASE GenerateFinalCode          BY <1>9, GenerateFinalCodeStep
<1>10. CASE Restart                   BY <1>10, RestartStep
<1>11. CASE Done \/ UNCHANGED vars    BY <1>11, StutterStep DEF Done
<1> QED
  BY <1>1, <1>2, <1>3, <1>4, <1>5, <1>6, <1>7, <1>8, <1>9, <1>10, <1>11
  DEF Next, Script, Pass

----------------------------------------------------------------------------
(* The theorems.                                                           *)

\* The inductive invariant holds in every state of the tuning loop, with early
\* exits of the program and interruptions of the driver.
THEOREM Invariance == Spec => []IInv
<1> QED BY InitIInv, NextStep, PTL DEF Spec

\* Every variable keeps its type.
THEOREM TypeCorrect == Spec => []TypeOK
<1>1. IInv => TypeOK
  BY DEF IInv
<1> QED BY <1>1, Invariance, PTL

\* The size of best_arguments always names the next GEMM to tune: runOnModule
\* emits checker calls for the GEMMs before it and a tuning call for it alone.
THEOREM TunesInOrder == Spec => []TunedInOrder
<1>1. IInv => TunedInOrder
  BY DEF IInv
<1> QED BY <1>1, Invariance, PTL

\* The two data files hold one set of arguments per checked GEMM and the trials
\* of at most one GEMM, as the comments in the readers say.
THEOREM FilesHaveOneEntry == Spec => []OneEntryPerGemm
<1>1. IInv => OneEntryPerGemm
  <2>1. SUFFICES ASSUME IInv PROVE OneEntryPerGemm
    OBVIOUS
  <2>2. \A r, s \in singleErr : r.gemm = s.gemm => r.args = s.args
    BY <2>1 DEF IInv, RecordsOfCode
  <2>3. \A r, s \in optData : r.gemm = s.gemm
    BY <2>1 DEF IInv, RecordsOfCode
  <2>4. IdsIn(optData) \cap IdsIn(singleErr) = {}
    BY <2>1 DEF IInv, RecordsOfCode, IdsIn
  <2> QED BY <2>2, <2>3, <2>4 DEF OneEntryPerGemm
<1> QED BY <1>1, Invariance, PTL

\* repair_dfs only meets GEMMs that best_arguments has, in every data-flow
\* graph, also one with cycles or with relations to later GEMMs.
THEOREM RepairIsDefined == Spec => []RepairReadsOnlyTuned
<1>1. IInv => RepairReadsOnlyTuned
  <2>1. SUFFICES ASSUME IInv PROVE RepairReadsOnlyTuned
    OBVIOUS
  <2>2. ASSUME pc = "repair" PROVE ReachedFrom(toRepair) \subseteq DOMAIN best
    <3>1. PICK k \in 0..N : DOMAIN best = 1..k
      BY <2>1, <2>2 DEF IInv, MemoryInOrder
    <3>2. toRepair \subseteq DOMAIN best /\ TypeOK
      BY <2>1, <2>2 DEF IInv, MemoryInOrder
    <3> QED BY <3>1, <3>2, ReachedAreTuned
  <2>3. \A g \in DOMAIN best : best[g] # <<>>
    BY <2>1, ArgsFacts DEF IInv, ArgsDefined
  <2> QED BY <2>2, <2>3 DEF RepairReadsOnlyTuned
<1> QED BY <1>1, Invariance, PTL

\* A GEMM that stays checked never gets less precise arguments.
THEOREM PrecisionNeverDrops == Spec => NeverLessPrecise
<1>1. IInv /\ [Next]_vars =>
        [pc = "emit" /\ pc' = "exec" =>
            \A g \in DOMAIN checked \cap DOMAIN checked' :
                Level(checked'[g]) >= Level(checked[g])]_vars
  <2>1. SUFFICES ASSUME IInv, [Next]_vars, pc = "emit", pc' = "exec",
                        NEW g \in DOMAIN checked, g \in DOMAIN checked'
                 PROVE  Level(checked'[g]) >= Level(checked[g])
    OBVIOUS
  <2>2. ReplaceCalls
    BY <2>1 DEF Next, Script, Pass, ReadBanId, ReadRunnedFuncIDFile,
       ReadOptimizedDataFile, ReadLastPassSeperateError, WriteBanId,
       BestArgumentsRepair, Execute, AfterRun, GenerateFinalCode, Restart, Done, vars
  <2> QED BY <2>1, <2>2 DEF ReplaceCalls, IInv, LevelsKept
<1> QED BY <1>1, Invariance, PTL DEF Spec, NeverLessPrecise
=============================================================================
