-------------------------- MODULE RecordFileProofs --------------------------
(***************************************************************************)
(* Proofs about the readers of the two data files, for every trace, list   *)
(* of trials, set of measurements and threshold, and with exits anywhere:  *)
(* they never compare with the record of fp32 when there is none; every    *)
(* GEMM on file is given arguments when all records can be read; and their *)
(* loops, record by record, implement the two steps that SbSTuning has for *)
(* them (ReadersKnow says what a loop has gathered so far).                *)
(***************************************************************************)
EXTENDS RecordFile, SequenceTheorems, FiniteSetTheorems, WellFoundedInduction, TLAPS

----------------------------------------------------------------------------
(* The trials and the records of a file.                                   *)

\* A tuning call makes at least one trial, the first with fp32.
LEMMA TrialFacts ==
  /\ Len(Trials) \in Nat \ {0}
  /\ Trials[1] = Fp32
  /\ \A i \in 1..Len(Trials) : Trials[i] \in Args
<1>1. Tries \in Seq(Grid)
  BY TriesAssumption DEF Grid
<1>2. <<Fp32>> \in Seq(Args) /\ Tries \in Seq(Args)
  <2>1. Fp32 \in Args /\ Grid \subseteq Args
    BY DEF Args
  <2> QED BY <1>1, <2>1
<1> DEFINE fp32 == Fp32
           args == Args
           tries == Tries
<1>3. fp32 \in args /\ tries \in Seq(args)
  BY <1>2 DEF Args
<1> HIDE DEF fp32, args, tries
<1>4. /\ <<fp32>> \o tries \in Seq(args)
      /\ Len(<<fp32>> \o tries) = 1 + Len(tries)
      /\ (<<fp32>> \o tries)[1] = fp32
  BY <1>3
<1>5. Len(tries) \in Nat
  BY <1>3
<1>6. \A i \in 1..Len(<<fp32>> \o tries) : (<<fp32>> \o tries)[i] \in args
  BY <1>4, ElementOfSeq
<1> QED BY <1>4, <1>5, <1>6 DEF Trials, fp32, args, tries

\* What a record more adds to a file.
LEMMA Appended ==
  ASSUME NEW S, NEW file \in Seq(S), NEW r \in S
  PROVE  /\ Append(file, r) \in Seq(S)
         /\ Append(file, r) # <<>>
         /\ DOMAIN Append(file, r) = DOMAIN file \cup {Len(file) + 1}
         /\ Append(file, r)[Len(file) + 1] = r
         /\ \A i \in DOMAIN file : Append(file, r)[i] = file[i]
         /\ AllIds(Append(file, r)) = AllIds(file) \cup {r.gemm}
         /\ AllReadable(Append(file, r)) <=> AllReadable(file) /\ Readable(r)
<1> DEFINE new == Append(file, r)
<1>1. /\ new \in Seq(S) /\ new # <<>> /\ Len(new) = Len(file) + 1
      /\ \A i \in 1..Len(file) : new[i] = file[i]
      /\ new[Len(file) + 1] = r
  BY AppendProperties
<1>2. Len(file) \in Nat /\ DOMAIN file = 1..Len(file) /\ DOMAIN new = 1..Len(new)
  BY <1>1, LenProperties
<1> HIDE DEF new
<1>3. 1..Len(new) = 1..Len(file) \cup {Len(file) + 1}
  BY <1>1, <1>2
<1>4. AllIds(new) = AllIds(file) \cup {r.gemm}
  BY <1>1, <1>3 DEF AllIds, Ids
<1>5. AllReadable(new) <=> AllReadable(file) /\ Readable(r)
  BY <1>1, <1>2, <1>3 DEF AllReadable
<1> QED BY <1>1, <1>2, <1>3, <1>4, <1>5 DEF new

\* What a reader has seen after a record more.
LEMMA IdsOfNext ==
  ASSUME NEW file, NEW n \in Nat
  PROVE  /\ Ids(file, n + 1) = Ids(file, n) \cup {file[n + 1].gemm}
         /\ Ids(file, 0) = {}
<1>1. 1..(n + 1) = 1..n \cup {n + 1} /\ 1..0 = {}
  OBVIOUS
<1> QED BY <1>1 DEF Ids

LEMMA ExtendedDomain ==
  ASSUME NEW f, NEW k, NEW x
  PROVE  DOMAIN Extended(f, k, x) = DOMAIN f \cup {k}
BY DEF Extended

\* A reader that stops before the end has met an unreadable record.
LEMMA StopsAtEnd ==
  ASSUME NEW S, NEW file \in Seq(S), NEW n \in Nat, n <= Len(file),
         AllReadable(file), ~ (n < Len(file) /\ Readable(file[n + 1]))
  PROVE  n = Len(file)
<1>1. Len(file) \in Nat /\ DOMAIN file = 1..Len(file)
  BY LenProperties
<1>2. ~ n < Len(file)
  <2> SUFFICES ASSUME n < Len(file) PROVE FALSE
    OBVIOUS
  <2>1. n + 1 \in DOMAIN file
    BY <1>1
  <2>2. Readable(file[n + 1])
    BY <2>1 DEF AllReadable
  <2> QED BY <2>2
<1> DEFINE len == Len(file)
<1>3. len \in Nat /\ n <= len /\ ~ n < len
  BY <1>1, <1>2
<1> HIDE DEF len
<1>4. n = len
  BY <1>3
<1> QED BY <1>4 DEF len

----------------------------------------------------------------------------
(* The inductive invariant.                                                *)

LEMMA InitInv == Init => IInv
<1> SUFFICES ASSUME Init PROVE IInv
  OBVIOUS
<1>1. PICK k \in 0..N : checked \in [1..k -> Args] /\ tuning = IF k = N THEN 0 ELSE k + 1
  BY DEF Init
<1>2. TypeOK
  <2>1. tuning \in 0..N
    BY <1>1, NAssumption
  <2>2. optFile = <<>> /\ errFile = <<>>
    BY DEF Init
  <2>4. optFile \in Seq(TuneRecords) /\ errFile \in Seq(CheckRecords)
    BY <2>2, EmptySeq
  <2>5. /\ pc = "execute" /\ call = 1 /\ line = 0
        /\ tried \in 0..(Len(Trials) - 1)
    BY TrialFacts DEF Init
  <2>6. garbled \in BOOLEAN
    BY DEF Init
  <2>3. \A g \in DOMAIN checked : checked[g] \in Args
    BY <1>1
  <2> QED BY <2>1, <2>3, <2>4, <2>5, <2>6 DEF TypeOK
<1>3. AllIds(<<>>) = {} /\ AllReadable(<<>>)
  BY DEF AllIds, Ids, AllReadable
<1>4. OptFileInv
  BY DEF Init, OptFileInv
<1>5. HistoryInv
  BY <1>3 DEF Init, HistoryInv
<1>6. ReaderInv
  BY DEF Init, ReaderInv
<1> QED BY <1>2, <1>4, <1>5, <1>6 DEF IInv

\* The execution leaves the readers where they are.
LEMMA ExecutionInv == IInv /\ Execution => IInv'
<1> SUFFICES ASSUME IInv, Execution PROVE IInv'
  OBVIOUS
<1> USE DEF IInv
<1>1. pc = "execute" /\ line = 0 /\ keys = <<>> /\ data = <<>>
  BY DEF Execution, Check, Try, RunPlain, ExitOnNaN, ReaderInv
<1>2. ASSUME Check PROVE IInv'
  <2> DEFINE g == Trace[call]
  <2>1. PICK err \in Errs \cup {Unreadable} :
          LET r == [call |-> call, gemm |-> g, args |-> checked[g], err |-> err]
          IN  errFile' = Append(errFile, r) /\ Written(r)
    BY <1>2 DEF Check
  <2> DEFINE r == [call |-> call, gemm |-> g, args |-> checked[g], err |-> err]
  <2>2. r \in CheckRecords
    BY <1>2 DEF Check, TypeOK, CheckRecords
  <2>3. errFile \in Seq(CheckRecords)
    BY DEF TypeOK
  <2>4. r.gemm = g /\ r.err = err
    OBVIOUS
  <2>5. errFile' = Append(errFile, r) /\ Written(r)
    BY <2>1
  <2> HIDE DEF r
  <2>6. /\ errFile' \in Seq(CheckRecords)
        /\ AllIds(errFile') = AllIds(errFile) \cup {r.gemm}
        /\ AllReadable(errFile') <=> AllReadable(errFile) /\ Readable(r)
    BY <2>2, <2>3, <2>5, Appended
  <2>7. TypeOK'
    <3>1. pc' \in {"execute", "readOpt"} /\ call' \in Nat \ {0} /\ garbled' \in BOOLEAN
      BY <1>2, <2>5 DEF Check, NextCall, TypeOK, Written
    <3>2. UNCHANGED <<tried, tuning, line, optFile, checked>>
      BY <1>2 DEF Check, code, reader
    <3>3. CheckRecords' = CheckRecords
      BY <3>2 DEF CheckRecords
    <3> QED BY <2>6, <3>1, <3>2, <3>3 DEF TypeOK
  <2>8. UNCHANGED <<tried, tuning, checked, optFile, line, keys, data, best>>
    BY <1>2 DEF Check, code, reader, memory
  <2>9. OptFileInv'
    BY <1>1, <2>8 DEF OptFileInv
  <2>10. HistoryInv'
    BY <1>1, <2>5, <2>6, <2>8 DEF HistoryInv, Written, AllIds, Ids, AllReadable, Readable
  <2>11. ReaderInv'
    <3>1. pc' \in {"execute", "readOpt"}
      BY <1>2 DEF Check, NextCall
    <3>2. Ids(optFile', 0) = {} /\ Len(optFile') \in Nat
      BY <2>7 DEF Ids, TypeOK
    <3> QED BY <1>1, <2>8, <3>1, <3>2 DEF ReaderInv, DataIds
  <2> QED BY <2>7, <2>9, <2>10, <2>11
<1>3. ASSUME Try PROVE IInv'
  <2>1. PICK time \in Times, err \in Errs \cup {Unreadable} :
          LET r == [call |-> call, gemm |-> tuning, args |-> Trials[tried + 1], time |-> time, err |-> err]
          IN  optFile' = Append(optFile, r) /\ Written(r)
    BY <1>3 DEF Try
  <2> DEFINE r == [call |-> call, gemm |-> tuning, args |-> Trials[tried + 1], time |-> time, err |-> err]
  <2>2. r \in TuneRecords
    BY TrialFacts DEF TypeOK, TuneRecords
  <2>3. optFile \in Seq(TuneRecords)
    BY DEF TypeOK
  <2>4. r.gemm = tuning /\ r.args = Trials[tried + 1]
    OBVIOUS
  <2>5. optFile' = Append(optFile, r) /\ Written(r)
    BY <2>1
  <2> HIDE DEF r
  <2>6. /\ optFile' \in Seq(TuneRecords)
        /\ optFile' # <<>>
        /\ DOMAIN optFile' = DOMAIN optFile \cup {Len(optFile) + 1}
        /\ optFile'[Len(optFile) + 1] = r
        /\ \A i \in DOMAIN optFile : optFile'[i] = optFile[i]
        /\ AllIds(optFile') = AllIds(optFile) \cup {r.gemm}
        /\ AllReadable(optFile') <=> AllReadable(optFile) /\ Readable(r)
    BY <2>2, <2>3, <2>5, Appended
  <2>7. UNCHANGED <<tuning, checked, errFile, line, keys, data, best>>
    BY <1>3 DEF Try, code, reader, memory
  <2>8. TypeOK'
    <3>1. pc' \in {"execute", "readOpt"} /\ call' \in Nat \ {0} /\ tried' \in 0..(Len(Trials) - 1)
      BY <1>1, <1>3, TrialFacts DEF Try, NextCall, TypeOK
    <3>2. garbled' \in BOOLEAN
      BY <2>5 DEF Written, TypeOK
    <3>3. CheckRecords' = CheckRecords
      BY <2>7 DEF CheckRecords
    <3> QED BY <2>6, <2>7, <3>1, <3>2, <3>3 DEF TypeOK
  <2>9. OptFileInv'
    <3>1. \A i \in DOMAIN optFile' : optFile'[i].gemm = tuning'
      BY <2>4, <2>6, <2>7 DEF OptFileInv
    <3>2. optFile'[1].args = Fp32
      <4>1. CASE optFile = <<>>
        <5>1. tried = 0 /\ Len(optFile) = 0
          BY <1>1, <4>1 DEF OptFileInv, TypeOK
        <5> QED BY <2>4, <2>6, <5>1, TrialFacts
      <4>2. CASE optFile # <<>>
        <5>1. 1 \in DOMAIN optFile
          BY <2>3, <4>2, EmptySeq, LenProperties
        <5> QED BY <2>6, <4>2, <5>1 DEF OptFileInv
      <4> QED BY <4>1, <4>2
    <3> QED BY <2>6, <3>1, <3>2 DEF OptFileInv
  <2>10. HistoryInv'
    <3>1. AllIds(errFile') = AllIds(errFile) /\ (AllReadable(errFile') <=> AllReadable(errFile))
      BY <2>7
    <3>2. onFile' = onFile \cup {r.gemm} /\ (~ garbled' => ~ garbled /\ Readable(r))
      BY <2>5 DEF Written, Readable
    <3>3. onFile' = AllIds(optFile') \cup AllIds(errFile')
      BY <1>1, <2>6, <3>1, <3>2 DEF HistoryInv
    <3>4. ~ garbled' => AllReadable(optFile') /\ AllReadable(errFile')
      BY <1>1, <2>6, <3>1, <3>2 DEF HistoryInv
    <3> QED BY <3>3, <3>4 DEF HistoryInv
  <2>11. ReaderInv'
    <3>1. pc' \in {"execute", "readOpt"}
      BY <1>1, <1>3 DEF Try, NextCall
    <3>2. Ids(optFile', 0) = {} /\ Len(optFile') \in Nat
      BY <2>8 DEF Ids, TypeOK
    <3> QED BY <1>1, <2>7, <3>1, <3>2 DEF ReaderInv, DataIds
  <2> QED BY <2>8, <2>9, <2>10, <2>11
<1>4. ASSUME RunPlain \/ ExitOnNaN PROVE IInv'
  <2>1. /\ pc' \in {"execute", "readOpt"} /\ call' \in Nat \ {0}
        /\ UNCHANGED <<tried, code, files, reader, memory, history>>
    BY <1>4 DEF RunPlain, ExitOnNaN, NextCall, TypeOK
  <2>2. UNCHANGED <<tried, checked, tuning, optFile, errFile, line, keys, data, best, onFile, garbled>>
    BY <2>1 DEF code, files, reader, memory, history
  <2>3. TypeOK'
    <3>1. CheckRecords' = CheckRecords
      BY <2>2 DEF CheckRecords
    <3> QED BY <2>1, <2>2, <3>1 DEF TypeOK
  <2>4. OptFileInv' /\ HistoryInv'
    BY <1>1, <2>1, <2>2 DEF OptFileInv, HistoryInv, AllIds, Ids, AllReadable
  <2>5. ReaderInv'
    <3>1. Ids(optFile', 0) = {} /\ Len(optFile') \in Nat
      BY <2>3 DEF Ids, TypeOK
    <3> QED BY <1>1, <2>1, <2>2, <3>1 DEF ReaderInv, DataIds
  <2> QED BY <2>3, <2>4, <2>5
<1> QED BY <1>2, <1>3, <1>4 DEF Execution

LEMMA ReadOptimizedRecordInv == IInv /\ ReadOptimizedRecord => IInv'
<1> SUFFICES ASSUME IInv, ReadOptimizedRecord PROVE IInv'
  OBVIOUS
<1> USE DEF IInv
<1> DEFINE r == optFile[line + 1]
           key == <<r.gemm, r.args>>
<1>1. /\ pc = "readOpt" /\ line \in Nat /\ line < Len(optFile) /\ line' = line + 1
      /\ UNCHANGED <<pc, call, tried, code, files, memory, history>>
  BY DEF ReadOptimizedRecord, CanRead, TypeOK
<1>2. UNCHANGED <<pc, call, tried, checked, tuning, optFile, errFile, best, onFile, garbled>>
  BY <1>1 DEF code, files, memory, history
<1>3. Len(optFile) \in Nat /\ DOMAIN optFile = 1..Len(optFile)
  BY LenProperties DEF TypeOK
<1>4. line + 1 \in DOMAIN optFile
  BY <1>1, <1>3
<1>5. r.gemm = tuning /\ (line = 0 => r.args = Fp32)
  BY <1>4 DEF OptFileInv
<1>6. DOMAIN keys = Ids(optFile, line) /\ DataIds \subseteq DOMAIN keys
      /\ (line > 0 => <<tuning, Fp32>> \in DOMAIN data)
  BY <1>1 DEF ReaderInv
<1>7. /\ DOMAIN data' = DOMAIN data \cup {key}
      /\ DOMAIN keys' = DOMAIN keys \cup {r.gemm}
  <2>1. CASE key \in DOMAIN data
    <3>1. keys' = keys /\ DOMAIN data' = DOMAIN data
      BY <2>1 DEF ReadOptimizedRecord
    <3>2. r.gemm \in DOMAIN keys
      BY <1>6, <2>1 DEF DataIds
    <3> QED BY <2>1, <3>1, <3>2
  <2>2. CASE key \notin DOMAIN data
    <3>1. /\ data' = Extended(data, key, Entered(r))
          /\ keys' = Extended(keys, r.gemm, Append(KeysOf(r.gemm), r.args))
      BY <2>2 DEF ReadOptimizedRecord
    <3> QED BY <3>1, ExtendedDomain
  <2> QED BY <2>1, <2>2
<1>8. TypeOK'
  <2>1. CheckRecords' = CheckRecords /\ line' \in Nat
    BY <1>1, <1>2 DEF CheckRecords
  <2> QED BY <1>2, <2>1 DEF TypeOK
<1>9. OptFileInv' /\ HistoryInv'
  BY <1>2 DEF OptFileInv, HistoryInv
<1>10. ReaderInv'
  <2>1. line' <= Len(optFile')
    BY <1>1, <1>2, <1>3
  <2>2. DOMAIN keys' = Ids(optFile', line')
    BY <1>1, <1>2, <1>6, <1>7, IdsOfNext
  <2>3. <<tuning', Fp32>> \in DOMAIN data'
    BY <1>1, <1>2, <1>5, <1>6, <1>7
  <2>4. DataIds' \subseteq DOMAIN keys'
    BY <1>6, <1>7 DEF DataIds
  <2> QED BY <1>1, <1>2, <2>1, <2>2, <2>3, <2>4 DEF ReaderInv
<1> QED BY <1>8, <1>9, <1>10

LEMMA GetBestArgumentsInv == IInv /\ GetBestArguments => IInv'
<1> SUFFICES ASSUME IInv, GetBestArguments PROVE IInv'
  OBVIOUS
<1> USE DEF IInv
<1>1. /\ pc = "readOpt" /\ pc' = "readErr" /\ line' = 0 /\ data' = <<>> /\ optFile' = <<>>
      /\ UNCHANGED <<call, tried, code, errFile, onFile, garbled>>
      /\ DOMAIN best' = DOMAIN keys
  BY DEF GetBestArguments, Found
<1>2. UNCHANGED <<call, tried, checked, tuning, errFile, onFile, garbled>>
  BY <1>1 DEF code
<1>3. TypeOK'
  <2>1. CheckRecords' = CheckRecords /\ line' \in Nat /\ pc' \in {"readErr"}
    BY <1>1, <1>2 DEF CheckRecords
  <2>2. optFile' \in Seq(TuneRecords)
    BY <1>1, EmptySeq
  <2> QED BY <1>2, <2>1, <2>2 DEF TypeOK
<1>4. OptFileInv' /\ HistoryInv'
  BY <1>1 DEF OptFileInv, HistoryInv
<1>5. ReaderInv'
  <2>1. Ids(errFile', 0) = {} /\ Len(errFile') \in Nat /\ DataIds' = {}
    <3>1. Len(errFile) \in Nat /\ Ids(errFile, 0) = {}
      BY LenProperties, IdsOfNext DEF TypeOK
    <3>2. DataIds' = {}
      BY <1>1 DEF DataIds
    <3> QED BY <1>2, <3>1, <3>2
  <2>2. ASSUME ~ garbled PROVE AllReadable(errFile) /\ onFile = DOMAIN best' \cup AllIds(errFile)
    <3>1. /\ onFile = AllIds(optFile) \cup AllIds(errFile)
          /\ AllReadable(optFile) /\ AllReadable(errFile)
      BY <1>1, <2>2 DEF HistoryInv
    <3>2. line = Len(optFile)
      <4>1. /\ optFile \in Seq(TuneRecords) /\ line \in Nat /\ line <= Len(optFile)
            /\ ~ (line < Len(optFile) /\ Readable(optFile[line + 1]))
        BY <1>1 DEF GetBestArguments, CanRead, TypeOK, ReaderInv
      <4> QED BY <3>1, <4>1, StopsAtEnd
    <3>3. DOMAIN best' = AllIds(optFile)
      BY <1>1, <3>2 DEF ReaderInv, AllIds
    <3> QED BY <3>1, <3>3
  <2> QED BY <1>1, <1>2, <2>1, <2>2 DEF ReaderInv
<1> QED BY <1>3, <1>4, <1>5

LEMMA ReadErrorRecordInv == IInv /\ ReadErrorRecord => IInv'
<1> SUFFICES ASSUME IInv, ReadErrorRecord PROVE IInv'
  OBVIOUS
<1> USE DEF IInv
<1> DEFINE r == errFile[line + 1]
           key == <<r.gemm, r.args>>
<1>1. /\ pc = "readErr" /\ line \in Nat /\ line < Len(errFile) /\ line' = line + 1
      /\ UNCHANGED <<pc, call, tried, code, files, keys, memory, history>>
  BY DEF ReadErrorRecord, CanRead, TypeOK
<1>2. UNCHANGED <<pc, call, tried, checked, tuning, optFile, errFile, keys, best, onFile, garbled>>
  BY <1>1 DEF code, files, memory, history
<1>3. Len(errFile) \in Nat
  BY LenProperties DEF TypeOK
<1>4. DOMAIN data' = DOMAIN data \cup {key}
  BY ExtendedDomain DEF ReadErrorRecord
<1>5. TypeOK'
  <2>1. CheckRecords' = CheckRecords /\ line' \in Nat
    BY <1>1, <1>2 DEF CheckRecords
  <2> QED BY <1>2, <2>1 DEF TypeOK
<1>6. OptFileInv' /\ HistoryInv'
  BY <1>1, <1>2 DEF OptFileInv, HistoryInv
<1>7. ReaderInv'
  <2>1. line' <= Len(errFile')
    BY <1>1, <1>2, <1>3
  <2>2. DataIds' = DataIds \cup {r.gemm}
    <3> DEFINE k == key
               g == r.gemm
    <3>1. DOMAIN data' = DOMAIN data \cup {k} /\ k[1] = g
      BY <1>4
    <3> HIDE DEF k, g
    <3>2. DataIds' = DataIds \cup {g}
      BY <3>1 DEF DataIds
    <3> QED BY <3>2 DEF g
  <2>3. DataIds' = Ids(errFile', line')
    <3>1. DataIds = Ids(errFile, line)
      BY <1>1 DEF ReaderInv
    <3>2. Ids(errFile, line + 1) = Ids(errFile, line) \cup {r.gemm}
      BY <1>1, IdsOfNext
    <3> QED BY <1>1, <1>2, <2>2, <3>1, <3>2
  <2>4. ~ garbled' => AllReadable(errFile') /\ onFile' = DOMAIN best' \cup AllIds(errFile')
    BY <1>1, <1>2 DEF ReaderInv
  <2> QED BY <1>1, <1>2, <2>1, <2>3, <2>4 DEF ReaderInv
<1> QED BY <1>5, <1>6, <1>7

LEMMA EndErrorFileInv == IInv /\ EndErrorFile => IInv'
<1> SUFFICES ASSUME IInv, EndErrorFile PROVE IInv'
  OBVIOUS
<1> USE DEF IInv
<1>1. /\ pc = "readErr" /\ pc' = "keep"
      /\ UNCHANGED <<call, tried, code, files, reader, memory, history>>
  BY DEF EndErrorFile
<1>2. UNCHANGED <<call, tried, checked, tuning, optFile, errFile, line, keys, data, best, onFile, garbled>>
  BY <1>1 DEF code, files, reader, memory, history
<1>3. TypeOK'
  <2>1. CheckRecords' = CheckRecords
    BY <1>2 DEF CheckRecords
  <2> QED BY <1>1, <1>2, <2>1 DEF TypeOK
<1>4. OptFileInv' /\ HistoryInv'
  BY <1>1, <1>2 DEF OptFileInv, HistoryInv
<1>5. ASSUME ~ garbled PROVE onFile = DOMAIN best \cup DataIds
  <2>1. AllReadable(errFile) /\ onFile = DOMAIN best \cup AllIds(errFile)
    BY <1>1, <1>5 DEF ReaderInv
  <2>2. /\ errFile \in Seq(CheckRecords) /\ line \in Nat /\ line <= Len(errFile)
        /\ ~ (line < Len(errFile) /\ Readable(errFile[line + 1]))
    BY <1>1 DEF EndErrorFile, CanRead, TypeOK, ReaderInv
  <2>3. line = Len(errFile)
    BY <2>1, <2>2, StopsAtEnd
  <2>4. DataIds = AllIds(errFile)
    BY <1>1, <2>3 DEF ReaderInv, AllIds
  <2> QED BY <2>1, <2>4
<1>6. ReaderInv'
  BY <1>1, <1>2, <1>5 DEF ReaderInv, DataIds
<1> QED BY <1>3, <1>4, <1>6

LEMMA KeepingInv == IInv /\ Keeping => IInv'
<1> SUFFICES ASSUME IInv, Keeping PROVE IInv'
  OBVIOUS
<1> USE DEF IInv
<1>1. ASSUME KeepArguments PROVE IInv'
  <2>1. /\ pc = "keep"
        /\ UNCHANGED <<pc, call, tried, code, files, line, keys, banned, history>>
    BY <1>1 DEF KeepArguments
  <2>2. UNCHANGED <<pc, call, tried, checked, tuning, optFile, errFile, line, keys, onFile, garbled>>
    BY <2>1 DEF code, files, history
  <2>3. PICK key \in DOMAIN data :
          /\ DOMAIN best' = DOMAIN best \cup {key[1]}
          /\ DOMAIN data' = DOMAIN data \ {key}
    <3>1. PICK key \in DOMAIN data :
            LET g == key[1]
                failed == data[key] > Threshold
            IN  /\ best' = Extended(best, g, IF failed /\ g \in banned THEN Fp32 ELSE key[2])
                /\ data' = [k \in DOMAIN data \ {key} |-> data[k]]
      BY <1>1 DEF KeepArguments
    <3>2. DOMAIN best' = DOMAIN best \cup {key[1]}
      BY <3>1, ExtendedDomain
    <3>3. DOMAIN data' = DOMAIN data \ {key}
      BY <3>1
    <3> QED BY <3>2, <3>3
  <2>4. DOMAIN best \cup DataIds = DOMAIN best' \cup DataIds'
    BY <2>3 DEF DataIds
  <2>5. TypeOK'
    <3>1. CheckRecords' = CheckRecords
      BY <2>2 DEF CheckRecords
    <3> QED BY <2>2, <3>1 DEF TypeOK
  <2>6. OptFileInv' /\ HistoryInv'
    BY <2>1, <2>2 DEF OptFileInv, HistoryInv
  <2>7. ReaderInv'
    BY <2>1, <2>2, <2>4 DEF ReaderInv
  <2> QED BY <2>5, <2>6, <2>7
<1>2. ASSUME EndKeeping PROVE IInv'
  <2>1. /\ pc = "keep" /\ pc' = "done" /\ data = <<>> /\ errFile' = <<>>
        /\ UNCHANGED <<call, tried, code, optFile, reader, memory, history>>
    BY <1>2 DEF EndKeeping
  <2>2. UNCHANGED <<call, tried, checked, tuning, optFile, line, keys, data, best, onFile, garbled>>
    BY <2>1 DEF code, reader, memory, history
  <2>3. DataIds = {}
    BY <2>1 DEF DataIds
  <2>4. TypeOK'
    <3>1. CheckRecords' = CheckRecords /\ errFile' \in Seq(CheckRecords)
      BY <2>1, <2>2, EmptySeq DEF CheckRecords
    <3> QED BY <2>1, <2>2, <3>1 DEF TypeOK
  <2>5. OptFileInv' /\ HistoryInv'
    BY <2>1, <2>2 DEF OptFileInv, HistoryInv
  <2>6. ReaderInv'
    BY <2>1, <2>2, <2>3 DEF ReaderInv
  <2> QED BY <2>4, <2>5, <2>6
<1> QED BY <1>1, <1>2 DEF Keeping

LEMMA StutterInv == IInv /\ UNCHANGED vars => IInv'
<1> SUFFICES ASSUME IInv, UNCHANGED vars PROVE IInv'
  OBVIOUS
<1>1. UNCHANGED <<pc, call, tried, checked, tuning, optFile, errFile, line, keys, data, best, onFile, garbled>>
  BY DEF vars, code, files, reader, memory, history
<1>2. CheckRecords' = CheckRecords /\ DataIds' = DataIds
  BY <1>1 DEF CheckRecords, DataIds
<1>3. TypeOK'
  BY <1>1, <1>2 DEF IInv, TypeOK
<1>4. OptFileInv' /\ HistoryInv' /\ ReaderInv'
  BY <1>1, <1>2 DEF IInv, OptFileInv, HistoryInv, ReaderInv
<1> QED BY <1>3, <1>4 DEF IInv

LEMMA StepInv == IInv /\ [Next]_vars => IInv'
<1> SUFFICES ASSUME IInv, [Next]_vars PROVE IInv'
  OBVIOUS
<1>1. CASE Reading
  BY <1>1, ReadOptimizedRecordInv, GetBestArgumentsInv, ReadErrorRecordInv, EndErrorFileInv DEF Reading
<1> QED BY <1>1, ExecutionInv, KeepingInv, StutterInv DEF Next

----------------------------------------------------------------------------
(* Sums, by induction over the naturals.                                   *)

\* Induction over the naturals, for a set in place of a predicate.
LEMMA SetInduction ==
  ASSUME NEW T, 0 \in T, \A n \in Nat : n \in T => n + 1 \in T
  PROVE  Nat \subseteq T
<1> SUFFICES ASSUME Nat \ T # {} PROVE FALSE
  OBVIOUS
<1> DEFINE U == Nat \ T
<1>1. U \subseteq Nat /\ U # {}
  OBVIOUS
<1> HIDE DEF U
<1>2. \E n \in U : \A m \in U : ~ (<<m, n>> \in OpToRel(<, Nat))
  BY <1>1, NatLessThanWellFounded, WFMin, Zenon
<1>3. PICK n \in U : \A m \in U : ~ (<<m, n>> \in OpToRel(<, Nat))
  BY <1>2
<1>4. \A m \in U : ~ (m < n)
  BY <1>1, <1>3 DEF OpToRel
<1> USE DEF U
<1>5. n \in Nat /\ n # 0
  OBVIOUS
<1>6. n - 1 \in Nat /\ n - 1 < n /\ (n - 1) + 1 = n
  BY <1>5
<1>7. n - 1 \in T
  BY <1>4, <1>6
<1> QED BY <1>6, <1>7

----------------------------------------------------------------------------
(* The sum of the times of a set of records.                               *)

Some(s) == CHOOSE x \in s : TRUE

\* What the fold behind MapThenSumSet makes of a set s, given its sums f of the
\* smaller ones.
SumOver(f, s) == IF s = {} THEN 0 ELSE Some(s).time + f[s \ {Some(s)}]

Timed(S) == IsFiniteSet(S) /\ \A r \in S : r.time \in Nat

\* The sets the fold has to know the sums of to give that of S.
IsSumOn(f, S) == \A s \in SUBSET S : f[s] \in Nat /\ f[s] = SumOver(f, s)

\* Taking an element from a set makes it smaller by one.
LEMMA SubsetSize ==
  ASSUME NEW S, IsFiniteSet(S), NEW s \in SUBSET S
  PROVE  /\ IsFiniteSet(s) /\ Cardinality(s) \in Nat /\ Cardinality(s) <= Cardinality(S)
         /\ (Cardinality(s) = 0 <=> s = {})
         /\ \A x \in s : s \ {x} \in SUBSET S /\ Cardinality(s \ {x}) = Cardinality(s) - 1
<1>1. IsFiniteSet(s) /\ Cardinality(s) <= Cardinality(S)
  BY FS_Subset
<1>2. Cardinality(s) \in Nat /\ (Cardinality(s) = 0 <=> s = {})
  BY <1>1, FS_CardinalityType, FS_EmptySet
<1>3. ASSUME NEW x \in s PROVE s \ {x} \in SUBSET S /\ Cardinality(s \ {x}) = Cardinality(s) - 1
  BY <1>1, FS_RemoveElement
<1> QED BY <1>1, <1>2, <1>3

\* The fold is well defined: by induction on the size of the sets it sums.
LEMMA SumExists ==
  ASSUME NEW S, Timed(S)
  PROVE  \E f : f = [s \in SUBSET S |-> SumOver(f, s)] /\ IsSumOn(f, S)
<1> DEFINE D(n) == {s \in SUBSET S : Cardinality(s) <= n}
           Good == {n \in Nat : \E f \in [D(n) -> Nat] : \A s \in D(n) : f[s] = SumOver(f, s)}
<1>0. IsFiniteSet(S) /\ Cardinality(S) \in Nat /\ \A r \in S : r.time \in Nat
  BY FS_CardinalityType DEF Timed
<1>1. 0 \in Good
  <2> DEFINE f == [s \in D(0) |-> 0]
  <2>1. \A s \in D(0) : s = {}
    BY <1>0, SubsetSize
  <2>2. f \in [D(0) -> Nat] /\ \A s \in D(0) : f[s] = SumOver(f, s)
    BY <2>1 DEF SumOver
  <2> QED BY <2>2
<1>2. ASSUME NEW n \in Nat, n \in Good PROVE n + 1 \in Good
  <2>1. PICK f \in [D(n) -> Nat] : \A s \in D(n) : f[s] = SumOver(f, s)
    BY <1>2
  <2> DEFINE g == [s \in D(n + 1) |-> SumOver(f, s)]
  <2>2. \A s \in D(n + 1) : s # {} => Some(s) \in s /\ s \ {Some(s)} \in D(n)
    <3> SUFFICES ASSUME NEW s \in D(n + 1), s # {}
                 PROVE  Some(s) \in s /\ s \ {Some(s)} \in D(n)
      OBVIOUS
    <3>1. Some(s) \in s
      BY DEF Some
    <3>2. Cardinality(s) \in Nat /\ Cardinality(s) <= n + 1 /\ s \in SUBSET S
      BY <1>0, SubsetSize
    <3>3. s \ {Some(s)} \in SUBSET S /\ Cardinality(s \ {Some(s)}) = Cardinality(s) - 1
      BY <1>0, <3>1, <3>2, SubsetSize
    <3>4. Cardinality(s \ {Some(s)}) <= n
      BY <3>2, <3>3
    <3> QED BY <3>1, <3>3, <3>4
  <2>3. \A s \in D(n) : s \in D(n + 1) /\ g[s] = f[s]
    <3> SUFFICES ASSUME NEW s \in D(n) PROVE s \in D(n + 1)
      BY <2>1
    <3>1. Cardinality(s) \in Nat /\ Cardinality(s) <= n
      BY <1>0, SubsetSize
    <3> QED BY <3>1
  <2>4. \A s \in D(n + 1) : SumOver(f, s) \in Nat
    <3> SUFFICES ASSUME NEW s \in D(n + 1), s # {} PROVE SumOver(f, s) \in Nat
      BY DEF SumOver
    <3>1. Some(s).time \in Nat /\ f[s \ {Some(s)}] \in Nat
      BY <1>0, <2>2
    <3> QED BY <3>1 DEF SumOver
  <2>5. \A s \in D(n + 1) : g[s] = SumOver(g, s)
    <3> SUFFICES ASSUME NEW s \in D(n + 1) PROVE SumOver(f, s) = SumOver(g, s)
      OBVIOUS
    <3> HIDE DEF g
    <3> QED BY <2>2, <2>3 DEF SumOver
  <2>6. g \in [D(n + 1) -> Nat]
    BY <2>4
  <2>7. \E h \in [D(n + 1) -> Nat] : \A s \in D(n + 1) : h[s] = SumOver(h, s)
    <3> HIDE DEF g, D
    <3> QED BY <2>5, <2>6
  <2> HIDE DEF D, g
  <2>8. n + 1 \in Nat
    OBVIOUS
  <2> QED BY <2>7, <2>8
<1>3. Nat \subseteq Good
  <2> HIDE DEF Good
  <2> QED BY <1>1, <1>2, SetInduction
<1>4. PICK f \in [D(Cardinality(S)) -> Nat] : \A s \in D(Cardinality(S)) : f[s] = SumOver(f, s)
  BY <1>0, <1>3
<1>5. D(Cardinality(S)) = SUBSET S
  BY <1>0, SubsetSize
<1>6. f \in [SUBSET S -> Nat] /\ \A s \in SUBSET S : f[s] = SumOver(f, s)
  BY <1>4, <1>5
<1>7. f = [s \in SUBSET S |-> SumOver(f, s)] /\ IsSumOn(f, S)
  BY <1>6 DEF IsSumOn
<1> QED BY <1>7

\* The fold has no choice, by the same induction.
LEMMA SumUnique ==
  ASSUME NEW S, Timed(S), NEW f, IsSumOn(f, S), NEW g,
         \A s \in SUBSET S : g[s] = SumOver(g, s)
  PROVE  g[S] = f[S]
<1> DEFINE Good == {n \in Nat : \A s \in SUBSET S : Cardinality(s) = n => g[s] = f[s]}
<1>1. IsFiniteSet(S) /\ Cardinality(S) \in Nat
  BY FS_CardinalityType DEF Timed
<1>2. \A s \in SUBSET S : g[s] = SumOver(g, s) /\ f[s] = SumOver(f, s)
  BY DEF IsSumOn
<1>3. 0 \in Good
  <2> SUFFICES ASSUME NEW s \in SUBSET S, Cardinality(s) = 0 PROVE g[s] = f[s]
    OBVIOUS
  <2>1. s = {}
    BY <1>1, SubsetSize
  <2> QED BY <1>2, <2>1 DEF SumOver
<1>4. ASSUME NEW n \in Nat, n \in Good PROVE n + 1 \in Good
  <2> SUFFICES ASSUME NEW s \in SUBSET S, Cardinality(s) = n + 1 PROVE g[s] = f[s]
    OBVIOUS
  <2>1. s # {}
    BY <1>1, SubsetSize
  <2>2. Some(s) \in s
    BY <2>1 DEF Some
  <2>3. s \ {Some(s)} \in SUBSET S /\ Cardinality(s \ {Some(s)}) = Cardinality(s) - 1
    BY <1>1, <2>2, SubsetSize
  <2>4. g[s \ {Some(s)}] = f[s \ {Some(s)}]
    BY <1>4, <2>3
  <2> QED BY <1>2, <2>1, <2>4 DEF SumOver
<1>5. Nat \subseteq Good
  <2> HIDE DEF Good
  <2> QED BY <1>3, <1>4, SetInduction
<1> QED BY <1>1, <1>5

\* The sum of S is that of any such f.
LEMMA TimeOfIsSum ==
  ASSUME NEW S, Timed(S)
  PROVE  /\ \E f : IsSumOn(f, S)
         /\ \A f : IsSumOn(f, S) => Loop!TimeOf(S) = f[S]
<1> DEFINE sum == CHOOSE f : f = [s \in SUBSET S |-> SumOver(f, s)]
<1>1. Loop!TimeOf(S) = sum[S]
  BY DEF Loop!TimeOf, Loop!MapThenSumSet, Loop!MapThenFoldSet, SumOver, Some
<1>2. PICK f : f = [s \in SUBSET S |-> SumOver(f, s)] /\ IsSumOn(f, S)
  BY SumExists
<1>3. sum = [s \in SUBSET S |-> SumOver(sum, s)]
  BY <1>2
<1> HIDE DEF sum
<1>4. \A s \in SUBSET S : sum[s] = SumOver(sum, s)
  BY <1>3
<1>5. \A g : IsSumOn(g, S) => sum[S] = g[S]
  BY <1>4, SumUnique
<1> QED BY <1>1, <1>2, <1>5

\* Any element may be taken first, by induction on the size of the set.
LEMMA AnyFirst ==
  ASSUME NEW S, Timed(S), NEW f, IsSumOn(f, S), NEW r \in S
  PROVE  f[S] = r.time + f[S \ {r}]
<1> DEFINE Good == {n \in Nat : \A s \in SUBSET S : Cardinality(s) = n =>
                       \A x \in s : f[s] = x.time + f[s \ {x}]}
<1>1. IsFiniteSet(S) /\ Cardinality(S) \in Nat /\ \A x \in S : x.time \in Nat
  BY FS_CardinalityType DEF Timed
<1>2. 0 \in Good
  BY <1>1, SubsetSize
<1>3. ASSUME NEW n \in Nat, n \in Good PROVE n + 1 \in Good
  <2> SUFFICES ASSUME NEW s \in SUBSET S, Cardinality(s) = n + 1, NEW x \in s
               PROVE  f[s] = x.time + f[s \ {x}]
    OBVIOUS
  <2> DEFINE y == Some(s)
             both == s \ {x, y}
  <2>1. y \in s
    BY DEF Some
  <2>2. f[s] = y.time + f[s \ {y}]
    BY <2>1 DEF IsSumOn, SumOver
  <2>3. CASE x = y
    BY <2>2, <2>3
  <2>4. CASE x # y
    <3>1. \A z \in s : s \ {z} \in SUBSET S /\ Cardinality(s \ {z}) = n
      <4> SUFFICES ASSUME NEW z \in s PROVE s \ {z} \in SUBSET S /\ Cardinality(s \ {z}) = n
        OBVIOUS
      <4>1. s \ {z} \in SUBSET S /\ Cardinality(s \ {z}) = Cardinality(s) - 1
        BY <1>1, SubsetSize
      <4> QED BY <4>1
    <3> HIDE DEF y
    <3>2. x \in s \ {y} /\ y \in s \ {x} /\ (s \ {y}) \ {x} = both /\ (s \ {x}) \ {y} = both
      BY <2>1, <2>4
    <3>3. f[s \ {y}] = x.time + f[both] /\ f[s \ {x}] = y.time + f[both]
      BY <1>3, <2>1, <3>1, <3>2
    <3>4. x.time \in Nat /\ y.time \in Nat /\ f[both] \in Nat
      BY <1>1, <2>1 DEF IsSumOn
    <3> QED BY <2>2, <3>3, <3>4
  <2> QED BY <2>3, <2>4
<1>4. Nat \subseteq Good
  <2> HIDE DEF Good
  <2> QED BY <1>2, <1>3, SetInduction
<1> QED BY <1>1, <1>4

\* A record more adds its time.
LEMMA TimeOfMore ==
  ASSUME NEW S, NEW r, Timed(S \cup {r}), r \notin S
  PROVE  /\ Loop!TimeOf(S) \in Nat
         /\ Loop!TimeOf(S \cup {r}) = Loop!TimeOf(S) + r.time
<1> DEFINE R == S \cup {r}
<1>1. Timed(S) /\ S \in SUBSET R /\ R \ {r} = S /\ r \in R /\ r.time \in Nat
  BY FS_Subset DEF Timed
<1> HIDE DEF R
<1>2. Timed(R)
  BY DEF R
<1>3. PICK f : IsSumOn(f, R) /\ Loop!TimeOf(R) = f[R]
  BY <1>2, TimeOfIsSum
<1>4. IsSumOn(f, S)
  BY <1>1, <1>3 DEF IsSumOn
<1>5. Loop!TimeOf(S) = f[S] /\ f[S] \in Nat
  BY <1>1, <1>4, TimeOfIsSum DEF IsSumOn
<1>6. f[R] = r.time + f[S]
  BY <1>1, <1>2, <1>3, AnyFirst
<1>7. Loop!TimeOf(R) = Loop!TimeOf(S) + r.time
  BY <1>1, <1>3, <1>5, <1>6
<1> QED BY <1>5, <1>7 DEF R

LEMMA TimeOfNone == Loop!TimeOf({}) = 0
<1>1. Timed({})
  BY FS_EmptySet DEF Timed
<1>2. PICK f : IsSumOn(f, {}) /\ Loop!TimeOf({}) = f[{}]
  BY <1>1, TimeOfIsSum
<1> QED BY <1>2 DEF IsSumOn, SumOver

\* Trials come in the order of Rank, so none comes twice.
LEMMA TrialsInOrder ==
  /\ \A i, j \in 1..Len(Trials) : i < j => Loop!Rank(Trials[i]) < Loop!Rank(Trials[j])
  /\ \A i, j \in 1..Len(Trials) : Trials[i] = Trials[j] => i = j
  /\ \A i \in 1..Len(Trials) : Loop!Rank(Trials[i]) \in Nat
<1> DEFINE Triples == {0, 1} \X {0, 1} \X {0, 1}
<1>1. /\ Tries \in Seq(Triples) /\ Len(Tries) \in Nat /\ DOMAIN Tries = 1..Len(Tries)
      /\ \A i \in 1..Len(Tries) : Tries[i] \in Triples
  BY TriesAssumption, ElementOfSeq, LenProperties
<1>2. \A a \in Triples : Place(a) \in Nat /\ Loop!Rank(a) = 1 + Place(a)
  <2> SUFFICES ASSUME NEW x \in {0, 1}, NEW y \in {0, 1}, NEW z \in {0, 1}
               PROVE  Place(<<x, y, z>>) \in Nat /\ Loop!Rank(<<x, y, z>>) = 1 + Place(<<x, y, z>>)
    OBVIOUS
  <2>1. <<x, y, z>> # <<-1, -1, -1>>
    OBVIOUS
  <2> QED BY <2>1 DEF Place, Loop!Rank, Loop!Fp32
<1>3. /\ Len(Trials) = Len(Tries) + 1 /\ Trials[1] = Fp32
      /\ \A i \in 1..Len(Trials) : i # 1 => i - 1 \in 1..Len(Tries) /\ Trials[i] = Tries[i - 1]
  <2> DEFINE fp32 == Fp32
             tries == Tries
             triples == Triples \cup {fp32}
  <2>1. fp32 \in triples /\ tries \in Seq(triples) /\ Len(tries) \in Nat
    BY <1>1
  <2> HIDE DEF fp32, tries, triples
  <2>2. /\ Len(<<fp32>> \o tries) = Len(tries) + 1 /\ (<<fp32>> \o tries)[1] = fp32
        /\ \A i \in 1..Len(<<fp32>> \o tries) : i # 1 => i - 1 \in 1..Len(tries) /\ (<<fp32>> \o tries)[i] = tries[i - 1]
    BY <2>1
  <2> QED BY <2>2 DEF Trials, fp32, tries
<1>4. Loop!Rank(Fp32) = 0
  BY DEF Loop!Rank, Loop!Fp32, Fp32
<1> HIDE DEF Triples
<1> DEFINE len == Len(Trials)
           rank(i) == Loop!Rank(Trials[i])
<1>5. \A i \in 1..len : i # 1 => i - 1 \in 1..Len(Tries) /\ rank(i) = 1 + Place(Tries[i - 1]) /\ Place(Tries[i - 1]) \in Nat
  BY <1>1, <1>2, <1>3
<1>6. rank(1) = 0 /\ len \in Nat \ {0}
  BY <1>1, <1>3, <1>4
<1>7. \A i \in 1..len : rank(i) \in Nat
  <2> HIDE DEF rank
  <2> QED BY <1>5, <1>6
<1>8. ASSUME NEW i \in 1..len, NEW j \in 1..len, i < j PROVE rank(i) < rank(j)
  <2>1. j # 1 /\ i \in Nat /\ j \in Nat
    BY <1>6, <1>8
  <2>2. CASE i = 1
    <3> HIDE DEF rank
    <3> QED BY <1>5, <1>6, <2>1, <2>2
  <2>3. CASE i # 1
    <3>1. i - 1 \in DOMAIN Tries /\ j - 1 \in DOMAIN Tries /\ i - 1 < j - 1
      BY <1>1, <1>5, <1>8, <2>1, <2>3
    <3>2. Place(Tries[i - 1]) < Place(Tries[j - 1])
      BY <3>1, TriesAssumption
    <3> HIDE DEF rank
    <3> QED BY <1>5, <2>1, <2>3, <3>2
  <2> QED BY <2>2, <2>3
<1>9. ASSUME NEW i \in 1..len, NEW j \in 1..len, Trials[i] = Trials[j] PROVE i = j
  <2>1. rank(i) = rank(j)
    BY <1>9
  <2>2. ~ i < j /\ ~ j < i
    <3> HIDE DEF rank
    <3> QED BY <1>7, <1>8, <2>1
  <2> QED BY <1>6, <2>2
<1> QED BY <1>7, <1>8, <1>9

----------------------------------------------------------------------------
(* The records read so far.                                                *)

\* A line more is a record more.
LEMMA SeenNext ==
  ASSUME NEW file, NEW n \in Nat
  PROVE  /\ Seen(file, 0) = {}
         /\ Seen(file, n + 1) = Seen(file, n) \cup {file[n + 1]}
         /\ IsFiniteSet(Seen(file, n))
         /\ KeysIn(Seen(file, n + 1)) = KeysIn(Seen(file, n)) \cup {<<file[n + 1].gemm, file[n + 1].args>>}
<1>1. 1..0 = {} /\ \A m \in Nat : 1..(m + 1) = 1..m \cup {m + 1}
  OBVIOUS
<1>2. Seen(file, 0) = {} /\ \A m \in Nat : Seen(file, m + 1) = Seen(file, m) \cup {file[m + 1]}
  BY <1>1 DEF Seen
<1> DEFINE Good == {m \in Nat : IsFiniteSet(Seen(file, m))}
<1>3. 0 \in Good
  BY <1>2, FS_EmptySet
<1>4. \A m \in Nat : m \in Good => m + 1 \in Good
  BY <1>2, FS_AddElement
<1>5. Nat \subseteq Good
  <2> HIDE DEF Good
  <2> QED BY <1>3, <1>4, SetInduction
<1>6. KeysIn(Seen(file, n + 1)) = KeysIn(Seen(file, n)) \cup {<<file[n + 1].gemm, file[n + 1].args>>}
  BY <1>2 DEF KeysIn
<1> QED BY <1>2, <1>5, <1>6

\* A record more is one more of the records of its own key only.
LEMMA RecordsOfMore ==
  ASSUME NEW S, NEW r, NEW g, NEW a
  PROVE  /\ Loop!RecordsOf(S, g, a) \subseteq S
         /\ Loop!RecordsOf(S \cup {r}, g, a) =
              IF g = r.gemm /\ a = r.args THEN Loop!RecordsOf(S, g, a) \cup {r}
              ELSE Loop!RecordsOf(S, g, a)
         /\ <<g, a>> \in KeysIn(S) <=> Loop!RecordsOf(S, g, a) # {}
BY DEF Loop!RecordsOf, KeysIn

\* The records a reader has read when it stops are those before the first that
\* cannot be read.
LEMMA StopsAtUnreadable ==
  ASSUME NEW S, NEW file \in Seq(S), NEW n \in Nat, n <= Len(file),
         \A i \in 1..n : Readable(file[i]), ~ (n < Len(file) /\ Readable(file[n + 1]))
  PROVE  ReadableOf(file) = Seen(file, n)
<1> DEFINE len == Len(file)
           ok(i) == Readable(file[i])
           good == {j \in 1..len : \A k \in 1..j : ok(k)}
<1>1. len \in Nat /\ DOMAIN file = 1..len
  BY LenProperties
<1>2. n <= len /\ (\A i \in 1..n : ok(i)) /\ ~ (n < len /\ ok(n + 1))
  OBVIOUS
<1>3. good = 1..n
  <2> HIDE DEF ok, len
  <2>1. \A j \in 1..n : j \in good
    BY <1>1, <1>2
  <2>2. ASSUME NEW j \in good PROVE j \in 1..n
    <3> SUFFICES ASSUME ~ j <= n PROVE FALSE
      BY <1>1
    <3>1. n < len /\ n + 1 \in 1..j
      BY <1>1
    <3> QED BY <1>2, <3>1
  <2> QED BY <2>1, <2>2
<1>4. ReadableOf(file) = {file[i] : i \in good}
  BY <1>1 DEF ReadableOf
<1> QED BY <1>3, <1>4 DEF Seen

----------------------------------------------------------------------------
(* What the readers know: from one step to the next.                       *)

LEMMA InitKnow == Init => ReadersKnow
<1> SUFFICES ASSUME Init PROVE ReadersKnow
  OBVIOUS
<1>1. pc = "execute" /\ tried = 0 /\ optFile = <<>> /\ errFile = <<>>
  BY DEF Init
<1>2. Len(optFile) = 0 /\ DOMAIN optFile = {} /\ DOMAIN errFile = {}
  BY <1>1
<1> QED BY <1>1, <1>2 DEF ReadersKnow, RecordsInOrder, Gathered, Kept

\* The readers have nothing while the program runs.
LEMMA NothingGathered ==
  ASSUME pc' \in {"execute", "readOpt"}, line' = 0, keys' = <<>>, data' = <<>>
  PROVE  Gathered' /\ Kept'
<1>1. Kept'
  BY DEF Kept
<1>2. Seen(optFile', 0) = {} /\ KeysIn({}) = {} /\ 1..0 = {}
  BY SeenNext DEF KeysIn
<1>3. Gathered'
  BY <1>2 DEF Gathered, AllRead
<1> QED BY <1>1, <1>3

\* Records of the files have arguments and measurements of their sets.
LEMMA FilesTyped ==
  ASSUME TypeOK
  PROVE  /\ Len(optFile) \in Nat /\ DOMAIN optFile = 1..Len(optFile)
         /\ \A i \in DOMAIN optFile : /\ optFile[i] \in TuneRecords
                                      /\ optFile[i].call \in Nat /\ optFile[i].time \in Nat
         /\ Len(errFile) \in Nat /\ DOMAIN errFile = 1..Len(errFile)
         /\ \A i \in DOMAIN errFile : errFile[i] \in CheckRecords
<1>1. optFile \in Seq(TuneRecords) /\ errFile \in Seq(CheckRecords)
  BY DEF TypeOK
<1>2. /\ Len(optFile) \in Nat /\ DOMAIN optFile = 1..Len(optFile)
      /\ Len(errFile) \in Nat /\ DOMAIN errFile = 1..Len(errFile)
      /\ \A i \in DOMAIN optFile : optFile[i] \in TuneRecords
      /\ \A i \in DOMAIN errFile : errFile[i] \in CheckRecords
  BY <1>1, ElementOfSeq, LenProperties
<1>3. \A r \in TuneRecords : r.call \in Nat /\ r.time \in Nat
  BY MeasureAssumption DEF TuneRecords
<1> QED BY <1>2, <1>3

LEMMA CheckKnow == IInv /\ ReadersKnow /\ Check => ReadersKnow'
<1> SUFFICES ASSUME IInv, ReadersKnow, Check PROVE ReadersKnow'
  OBVIOUS
<1> USE DEF ReadersKnow
<1>1. /\ pc = "execute" /\ line = 0 /\ keys = <<>> /\ data = <<>>
      /\ UNCHANGED <<tried, code, optFile, reader, memory>>
      /\ pc' \in {"execute", "readOpt"} /\ call' = call + 1 /\ call \in Nat
      /\ errFile \in Seq(CheckRecords)
  BY DEF IInv, ReaderInv, TypeOK, Check, NextCall
<1>2. UNCHANGED <<tried, checked, optFile, line, keys, data>>
  BY <1>1 DEF code, reader
<1>3. PICK err \in Errs \cup {Unreadable} :
        LET g == Trace[call]
            r == [call |-> call, gemm |-> g, args |-> checked[g], err |-> err]
        IN  errFile' = Append(errFile, r) /\ Written(r)
  BY DEF Check
<1> DEFINE r == [call |-> call, gemm |-> Trace[call], args |-> checked[Trace[call]], err |-> err]
<1>4. errFile' = Append(errFile, r) /\ r.args = checked[r.gemm] /\ r \in CheckRecords
  BY <1>3 DEF IInv, TypeOK, CheckRecords, Check
<1> HIDE DEF r
<1>5. \A i \in DOMAIN errFile' : errFile'[i].args = checked'[errFile'[i].gemm]
  <2>1. /\ DOMAIN errFile' = DOMAIN errFile \cup {Len(errFile) + 1}
        /\ errFile'[Len(errFile) + 1] = r
        /\ \A i \in DOMAIN errFile : errFile'[i] = errFile[i]
    BY <1>1, <1>4, Appended
  <2> QED BY <1>2, <1>4, <2>1 DEF RecordsInOrder
<1>6. \A i \in DOMAIN optFile : optFile[i].call \in Nat
  BY FilesTyped DEF IInv
<1>7. \A i \in DOMAIN optFile' : pc' = "execute" => optFile'[i].call < call'
  <2> SUFFICES ASSUME NEW i \in DOMAIN optFile PROVE optFile[i].call < call + 1
    BY <1>1, <1>2
  <2>1. optFile[i].call < call \/ optFile[i].call = call
    BY <1>1 DEF RecordsInOrder
  <2> QED BY <1>1, <1>6, <2>1
<1>8. RecordsInOrder'
  BY <1>1, <1>2, <1>5, <1>7 DEF RecordsInOrder
<1> QED BY <1>1, <1>2, <1>8, NothingGathered

LEMMA TryKnow == IInv /\ ReadersKnow /\ Try => ReadersKnow'
<1> SUFFICES ASSUME IInv, ReadersKnow, Try PROVE ReadersKnow'
  OBVIOUS
<1> USE DEF ReadersKnow
<1>1. /\ pc = "execute" /\ line = 0 /\ keys = <<>> /\ data = <<>>
      /\ UNCHANGED <<code, errFile, reader, memory>>
      /\ pc' \in {"execute", "readOpt"} /\ call \in Nat
      /\ optFile \in Seq(TuneRecords)
      /\ tried \in 0..(Len(Trials) - 1)
      /\ \/ tried + 1 < Len(Trials) /\ tried' = tried + 1 /\ call' = call
         \/ ~ (tried + 1 < Len(Trials)) /\ tried' = 0 /\ call' = call + 1
  BY DEF IInv, ReaderInv, TypeOK, Try, NextCall
<1>2. UNCHANGED <<checked, errFile, line, keys, data>>
  BY <1>1 DEF code, reader
<1>3. PICK time \in Times, err \in Errs \cup {Unreadable} :
        LET r == [call |-> call, gemm |-> tuning, args |-> Trials[tried + 1], time |-> time, err |-> err]
        IN  optFile' = Append(optFile, r) /\ Written(r)
  BY DEF Try
<1> DEFINE r == [call |-> call, gemm |-> tuning, args |-> Trials[tried + 1], time |-> time, err |-> err]
           n == Len(optFile)
           len == Len(Trials)
<1>4. optFile' = Append(optFile, r) /\ r.args = Trials[tried + 1] /\ r.call = call /\ r \in TuneRecords
  BY <1>1, <1>3, TrialFacts DEF IInv, TypeOK, TuneRecords
<1> HIDE DEF r
<1>5. /\ DOMAIN optFile' = DOMAIN optFile \cup {n + 1}
      /\ optFile'[n + 1] = r
      /\ \A i \in DOMAIN optFile : optFile'[i] = optFile[i]
  BY <1>1, <1>4, Appended
<1>6. n \in Nat /\ DOMAIN optFile = 1..n /\ len \in Nat \ {0} /\ DOMAIN Trials = 1..len /\ Len(optFile') = n + 1
  <2>1. DOMAIN Trials = 1..len
    BY TriesAssumption DEF Trials
  <2> QED BY <1>1, <1>4, <2>1, TrialFacts, LenProperties, AppendProperties
<1>7. n < len => tried = n
  BY <1>1 DEF RecordsInOrder
<1>8. \A i \in DOMAIN optFile : optFile[i].call \in Nat
  BY FilesTyped DEF IInv
<1> HIDE DEF n, len
<1>9. tried + 1 \in 1..len
  BY <1>1, <1>6 DEF len
<1>10. \A i \in DOMAIN optFile : optFile[i] # r
  <2> SUFFICES ASSUME NEW i \in DOMAIN optFile, optFile[i] = r PROVE FALSE
    OBVIOUS
  <2>1. optFile[i].call = call /\ ~ (optFile[i].call < call)
    BY <1>1, <1>4
  <2>2. PICK k \in 1..tried : optFile[i].args = Trials[k]
    BY <1>1, <2>1 DEF RecordsInOrder
  <2>3. Trials[k] = Trials[tried + 1] /\ k \in 1..len
    BY <1>1, <1>4, <1>6, <2>2 DEF len
  <2>4. k = tried + 1
    BY <1>9, <2>3, TrialsInOrder DEF len
  <2> QED BY <1>1, <2>2, <2>4
<1>11. \A i, j \in DOMAIN optFile' : optFile'[i] = optFile'[j] => i = j
  BY <1>5, <1>10 DEF RecordsInOrder
<1>12. ASSUME NEW i \in DOMAIN optFile'
       PROVE  /\ \E k \in DOMAIN Trials : optFile'[i].args = Trials[k]
              /\ i <= len => optFile'[i].args = Trials[i]
  <2>1. CASE i \in DOMAIN optFile
    BY <1>5, <2>1 DEF RecordsInOrder, len
  <2>2. CASE i = n + 1
    <3>1. optFile'[i].args = Trials[tried + 1] /\ tried + 1 \in DOMAIN Trials
      BY <1>4, <1>5, <1>6, <1>9, <2>2
    <3>2. i <= len => tried + 1 = i
      BY <1>6, <1>7, <2>2
    <3> QED BY <3>1, <3>2
  <2> QED BY <1>5, <2>1, <2>2
<1>13. ASSUME NEW i \in DOMAIN optFile'
       PROVE  \/ optFile'[i].call < call'
              \/ optFile'[i].call = call' /\ \E k \in 1..tried' : optFile'[i].args = Trials[k]
  <2>1. /\ \/ optFile'[i].call < call
           \/ optFile'[i].call = call /\ \E k \in 1..(tried + 1) : optFile'[i].args = Trials[k]
        /\ optFile'[i].call \in Nat
    <3>1. CASE i \in DOMAIN optFile
      <4>1. \/ optFile[i].call < call
            \/ optFile[i].call = call /\ \E k \in 1..tried : optFile[i].args = Trials[k]
        BY <1>1, <3>1 DEF RecordsInOrder
      <4>2. 1..tried \subseteq 1..(tried + 1)
        BY <1>1
      <4> QED BY <1>5, <1>8, <3>1, <4>1, <4>2
    <3>2. CASE i = n + 1
      <4>1. optFile'[i] = r /\ tried + 1 \in 1..(tried + 1)
        BY <1>1, <1>5, <3>2
      <4> QED BY <1>1, <1>4, <4>1
    <3> QED BY <1>5, <3>1, <3>2
  <2>2. CASE tried + 1 < len
    BY <1>1, <2>1, <2>2 DEF len
  <2>3. CASE ~ (tried + 1 < len)
    <3>1. call' = call + 1
      BY <1>1, <2>3 DEF len
    <3>2. optFile'[i].call < call + 1
      BY <1>1, <2>1
    <3> QED BY <3>1, <3>2
  <2> QED BY <2>2, <2>3
<1>14. Len(optFile') < len => tried' = Len(optFile')
  BY <1>1, <1>6, <1>7 DEF len
<1>15. \A i \in DOMAIN errFile' : errFile'[i].args = checked'[errFile'[i].gemm]
  BY <1>2 DEF RecordsInOrder
<1>16. RecordsInOrder'
  BY <1>11, <1>12, <1>13, <1>14, <1>15 DEF RecordsInOrder, len
<1> QED BY <1>1, <1>2, <1>16, NothingGathered

LEMMA PlainKnow == IInv /\ ReadersKnow /\ (RunPlain \/ ExitOnNaN) => ReadersKnow'
<1> SUFFICES ASSUME IInv, ReadersKnow, RunPlain \/ ExitOnNaN PROVE ReadersKnow'
  OBVIOUS
<1> USE DEF ReadersKnow
<1>1. /\ pc = "execute" /\ line = 0 /\ keys = <<>> /\ data = <<>>
      /\ UNCHANGED <<tried, code, files, reader, memory, history>>
      /\ pc' \in {"execute", "readOpt"} /\ call' \in {call, call + 1} /\ call \in Nat
      /\ pc' = "execute" => call' = call + 1
  BY DEF IInv, ReaderInv, TypeOK, RunPlain, ExitOnNaN, NextCall
<1>2. UNCHANGED <<tried, checked, optFile, errFile, line, keys, data>>
  BY <1>1 DEF code, reader, files
<1>3. \A i \in DOMAIN optFile : optFile[i].call \in Nat
  BY FilesTyped DEF IInv
<1>4. \A i \in DOMAIN optFile' : pc' = "execute" => optFile'[i].call < call'
  <2> SUFFICES ASSUME NEW i \in DOMAIN optFile PROVE optFile[i].call < call + 1
    BY <1>1, <1>2
  <2>1. optFile[i].call < call \/ optFile[i].call = call
    BY <1>1 DEF RecordsInOrder
  <2> QED BY <1>1, <1>3, <2>1
<1>5. RecordsInOrder'
  BY <1>1, <1>2, <1>4 DEF RecordsInOrder
<1> QED BY <1>1, <1>2, <1>5, NothingGathered

\* A record more of a key: its time is added, its error counts if it is larger.
LEMMA CombinedMore ==
  ASSUME NEW R, NEW r, r \notin R, Timed(R \cup {r}), \A s \in R \cup {r} : s.err \in Nat,
         NEW d, Combines(d, R)
  PROVE  Combines(Combined(d, r), R \cup {r})
<1>1. IsFiniteSet(R)
  BY FS_Subset DEF Timed
<1>2. Cardinality(R \cup {r}) = Cardinality(R) + 1
  BY <1>1, FS_AddElement
<1>3. Loop!TimeOf(R \cup {r}) = Loop!TimeOf(R) + r.time
  BY TimeOfMore
<1>4. LargestError(Larger(d.err, r.err), R \cup {r})
  BY DEF Combines, LargestError, Larger
<1> QED BY <1>2, <1>3, <1>4 DEF Combines, Combined

\* The first record of a key.
LEMMA EnteredFirst ==
  ASSUME NEW r, r.time \in Nat, r.err \in Nat
  PROVE  Combines(Entered(r), {r})
<1>1. Timed({} \cup {r})
  BY FS_Singleton DEF Timed
<1>2. Loop!TimeOf({} \cup {r}) = 0 + r.time
  BY <1>1, TimeOfMore, TimeOfNone
<1>3. Loop!TimeOf({r}) = r.time
  BY <1>2
<1>4. Cardinality({r}) = 1
  BY FS_Singleton
<1>5. LargestError(r.err, {r})
  BY DEF LargestError
<1> QED BY <1>3, <1>4, <1>5 DEF Combines, Entered

\* Readable records measure naturals.
LEMMA ReadableErr ==
  ASSUME NEW e \in Errs \cup {Unreadable}, e # Unreadable
  PROVE  e \in Nat
BY MeasureAssumption

LEMMA TrialsCount == Len(Trials) \in Nat \ {0} /\ DOMAIN Trials = 1..Len(Trials)
<1>1. DOMAIN Trials = 1..Len(Trials)
  BY TriesAssumption DEF Trials
<1> QED BY <1>1, TrialFacts

\* A record has arguments that none before has as long as the trials of the
\* first call last, and never after.
LEMMA NewArguments ==
  ASSUME IInv, RecordsInOrder, line < Len(optFile)
  PROVE  LET r == optFile[line + 1]
         IN  /\ <<r.gemm, r.args>> \in KeysIn(Seen(optFile, line)) <=> Len(Trials) <= line
             /\ line < Len(Trials) => r.args = Trials[line + 1]
             /\ r.gemm = tuning
             /\ r \notin Seen(optFile, line)
<1> DEFINE r == optFile[line + 1]
           n == Len(optFile)
           len == Len(Trials)
<1>1. line \in Nat /\ n \in Nat /\ DOMAIN optFile = 1..n /\ len \in Nat \ {0} /\ DOMAIN Trials = 1..len
  BY FilesTyped, TrialsCount DEF IInv, TypeOK
<1>2. line < n
  OBVIOUS
<1> HIDE DEF n, len
<1>3. line + 1 \in DOMAIN optFile /\ \A i \in 1..line : i \in DOMAIN optFile /\ i # line + 1
  BY <1>1, <1>2
<1>4. \A i \in DOMAIN optFile : optFile[i].gemm = tuning
  BY DEF IInv, OptFileInv
<1>5. \A i \in DOMAIN optFile : i <= len => optFile[i].args = Trials[i]
  BY DEF RecordsInOrder, len
<1>6. \A i, j \in 1..len : Trials[i] = Trials[j] => i = j
  BY TrialsInOrder DEF len
<1>7. KeysIn(Seen(optFile, line)) = {<<tuning, optFile[i].args>> : i \in 1..line}
  BY <1>3, <1>4 DEF KeysIn, Seen
<1>8. ASSUME line < len PROVE r.args = Trials[line + 1] /\ \A i \in 1..line : optFile[i].args # r.args
  <2>1. line + 1 \in 1..len /\ \A i \in 1..line : i \in 1..len /\ i # line + 1
    BY <1>1, <1>8
  <2>2. r.args = Trials[line + 1] /\ \A i \in 1..line : optFile[i].args = Trials[i]
    BY <1>1, <1>3, <1>5, <2>1
  <2> QED BY <1>6, <2>1, <2>2
<1>9. ASSUME len <= line PROVE \E i \in 1..line : optFile[i].args = r.args
  <2>1. PICK k \in 1..len : r.args = Trials[k]
    BY <1>1, <1>3 DEF RecordsInOrder
  <2>2. k \in 1..line /\ k <= len
    BY <1>1, <1>9, <2>1
  <2> QED BY <1>3, <1>5, <2>1, <2>2
<1>10. r.gemm = tuning
  BY <1>3, <1>4
<1>11. <<r.gemm, r.args>> \in KeysIn(Seen(optFile, line)) <=> len <= line
  <2>1. <<r.gemm, r.args>> \in KeysIn(Seen(optFile, line)) <=> \E i \in 1..line : optFile[i].args = r.args
    BY <1>7, <1>10
  <2> QED BY <1>1, <1>8, <1>9, <2>1
<1>12. r \notin Seen(optFile, line)
  BY <1>3 DEF Seen, RecordsInOrder
<1> QED BY <1>8, <1>10, <1>11, <1>12 DEF len

LEMMA ReadOptimizedRecordKnow == IInv /\ ReadersKnow /\ ReadOptimizedRecord => ReadersKnow'
<1> SUFFICES ASSUME IInv, ReadersKnow, ReadOptimizedRecord PROVE ReadersKnow'
  OBVIOUS
<1> USE DEF ReadersKnow
<1> DEFINE r == optFile[line + 1]
           key == <<r.gemm, r.args>>
           old == Seen(optFile, line)
           new == Seen(optFile, line + 1)
           len == Len(Trials)
<1>1. /\ pc = "readOpt" /\ line \in Nat /\ line < Len(optFile) /\ Readable(r) /\ line' = line + 1
      /\ UNCHANGED <<pc, call, tried, code, files, memory, history>>
  BY DEF ReadOptimizedRecord, CanRead, IInv, TypeOK
<1>2. UNCHANGED <<pc, call, tried, checked, optFile, errFile>>
  BY <1>1 DEF code, files
<1>3. /\ key \in KeysIn(old) <=> len <= line
      /\ line < len => r.args = Trials[line + 1]
      /\ r.gemm = tuning
      /\ r \notin old
  BY <1>1, NewArguments
<1>4. len \in Nat \ {0}
  BY TrialsCount
<1>5. new = old \cup {r} /\ IsFiniteSet(new) /\ KeysIn(new) = KeysIn(old) \cup {key}
  BY <1>1, SeenNext
<1>6. \A s \in new : s.time \in Nat /\ s.err \in Nat
  <2> SUFFICES ASSUME NEW i \in 1..(line + 1) PROVE optFile[i].time \in Nat /\ optFile[i].err \in Nat
    BY DEF Seen
  <2>1. i \in DOMAIN optFile
    BY <1>1, FilesTyped DEF IInv
  <2>2. Readable(optFile[i])
    BY <1>1 DEF Gathered, AllRead
  <2>3. optFile[i].time \in Nat /\ optFile[i].err \in Errs \cup {Unreadable}
    BY <2>1, FilesTyped DEF IInv, TuneRecords
  <2> QED BY <2>2, <2>3, ReadableErr DEF Readable
<1>7. AllRead(optFile)'
  <2>1. \A i \in 1..line : Readable(optFile[i])
    BY <1>1 DEF Gathered, AllRead
  <2>2. \A i \in 1..(line + 1) : Readable(optFile[i])
    BY <1>1, <2>1
  <2> QED BY <1>1, <1>2, <2>2 DEF AllRead
<1>8. /\ DOMAIN data = KeysIn(old)
      /\ \A k \in DOMAIN data : Combines(data[k], Loop!RecordsOf(old, k[1], k[2]))
  BY <1>1 DEF Gathered
<1> HIDE DEF r, key, old, new, len
<1>9. ASSUME NEW g, NEW a
      PROVE  Timed(Loop!RecordsOf(new, g, a)) /\ \A s \in Loop!RecordsOf(new, g, a) : s.err \in Nat
  <2>1. Loop!RecordsOf(new, g, a) \in SUBSET new
    BY RecordsOfMore
  <2> QED BY <1>5, <1>6, <2>1, FS_Subset DEF Timed
<1>10. key[1] = r.gemm /\ key[2] = r.args /\ r \in new
  BY <1>5 DEF key
<1>11. /\ DOMAIN data' = DOMAIN data \cup {key}
       /\ \A k \in DOMAIN data : k # key => data'[k] = data[k]
       /\ key \in DOMAIN data => data'[key] = Combined(data[key], r)
       /\ key \notin DOMAIN data => data'[key] = Entered(r)
  <2>1. CASE key \in DOMAIN data
    <3>1. data' = [data EXCEPT ![key] = Combined(data[key], r)]
      BY <2>1 DEF ReadOptimizedRecord, key, r
    <3> QED BY <2>1, <3>1
  <2>2. CASE key \notin DOMAIN data
    <3>1. data' = Extended(data, key, Entered(r))
      BY <2>2 DEF ReadOptimizedRecord, key, r
    <3> QED BY <2>2, <3>1 DEF Extended
  <2> QED BY <2>1, <2>2
<1>12. ASSUME NEW k \in DOMAIN data'
       PROVE  Combines(data'[k], Loop!RecordsOf(new, k[1], k[2]))
  <2>1. CASE k # key
    <3>1. k \in KeysIn(old) /\ k \in DOMAIN data
      BY <1>8, <1>11, <2>1
    <3>2. ~ (k[1] = r.gemm /\ k[2] = r.args)
      BY <2>1, <3>1 DEF KeysIn, key
    <3>3. Loop!RecordsOf(new, k[1], k[2]) = Loop!RecordsOf(old, k[1], k[2])
      BY <1>5, <3>2 DEF Loop!RecordsOf
    <3> QED BY <1>8, <1>11, <2>1, <3>1, <3>3
  <2>2. CASE k = key
    <3> DEFINE R == Loop!RecordsOf(old, r.gemm, r.args)
    <3>1. Loop!RecordsOf(new, k[1], k[2]) = R \cup {r}
      BY <1>5, <1>10, <2>2 DEF Loop!RecordsOf
    <3>2. r \notin R /\ Timed(R \cup {r}) /\ \A s \in R \cup {r} : s.err \in Nat
      <4>1. R \subseteq old
        BY RecordsOfMore
      <4> QED BY <1>3, <1>9, <3>1, <4>1
    <3>3. CASE key \in DOMAIN data
      <4>1. Combines(data[key], R)
        BY <1>8, <1>10, <3>3
      <4> HIDE DEF R
      <4>2. Combines(Combined(data[key], r), R \cup {r})
        BY <3>2, <4>1, CombinedMore
      <4> QED BY <1>11, <2>2, <3>1, <3>3, <4>2
    <3>4. CASE key \notin DOMAIN data
      <4>1. R = {}
        BY <1>8, <3>4, RecordsOfMore DEF key
      <4>2. Combines(Entered(r), {r})
        BY <1>6, <1>10, EnteredFirst
      <4>3. Combines(data'[k], R \cup {r})
        BY <1>11, <2>2, <3>4, <4>1, <4>2
      <4> QED BY <3>1, <4>3
    <3> QED BY <3>3, <3>4
  <2> QED BY <2>1, <2>2
<1>13. ASSUME NEW g \in DOMAIN keys'
       PROVE  /\ keys'[g] \in Seq(Args)
              /\ Len(keys'[g]) = IF line + 1 < len THEN line + 1 ELSE len
              /\ \A i \in DOMAIN keys'[g] : keys'[g][i] = Trials[i]
  <2>1. \A h \in DOMAIN keys : /\ keys[h] \in Seq(Args)
                               /\ Len(keys[h]) = IF line < len THEN line ELSE len
                               /\ \A i \in DOMAIN keys[h] : keys[h][i] = Trials[i]
    BY <1>1 DEF Gathered, len
  <2>2. CASE key \in DOMAIN data
    <3>1. keys' = keys
      BY <2>2 DEF ReadOptimizedRecord, key, r
    <3>2. len <= line
      BY <1>3, <1>8, <2>2
    <3>3. (IF line + 1 < len THEN line + 1 ELSE len) = (IF line < len THEN line ELSE len)
      BY <1>1, <1>4, <3>2
    <3> QED BY <2>1, <3>1, <3>3
  <2>3. CASE key \notin DOMAIN data
    <3>1. keys' = Extended(keys, r.gemm, Append(KeysOf(r.gemm), r.args))
      BY <2>3 DEF ReadOptimizedRecord, key, r
    <3>2. line < len
      BY <1>1, <1>3, <1>4, <1>8, <2>3
    <3>3. r.args = Trials[line + 1] /\ line + 1 \in 1..len
      BY <1>1, <1>3, <1>4, <3>2
    <3>4. r.args \in Args
      BY <3>3, TrialFacts DEF len
    <3>5. CASE g # r.gemm
      <4>1. g \in DOMAIN keys /\ g \in Ids(optFile, line)
        <5>1. g \in DOMAIN keys
          BY <3>1, <3>5 DEF Extended
        <5> QED BY <1>1, <5>1 DEF IInv, ReaderInv
      <4>2. PICK i \in 1..line : g = optFile[i].gemm
        BY <4>1 DEF Ids
      <4>3. i \in DOMAIN optFile
        BY <1>1, <4>2, FilesTyped DEF IInv
      <4>4. g = tuning
        BY <4>2, <4>3 DEF IInv, OptFileInv
      <4> QED BY <1>3, <3>5, <4>4
    <3>6. CASE g = r.gemm
      <4> DEFINE k == KeysOf(g)
      <4>1. k \in Seq(Args) /\ Len(k) = line /\ \A i \in 1..line : k[i] = Trials[i]
        <5>1. CASE g \in DOMAIN keys
          <6>1. k = keys[g]
            BY <5>1 DEF KeysOf
          <6> QED BY <2>1, <3>2, <5>1, <6>1, LenProperties
        <5>2. CASE g \notin DOMAIN keys
          <6>1. k = <<>> /\ Len(k) = 0
            BY <5>2 DEF KeysOf
          <6>2. line = 0
            <7> SUFFICES ASSUME line # 0 PROVE FALSE
              OBVIOUS
            <7>1. line > 0
              BY <1>1
            <7>2. <<tuning, Fp32>> \in DOMAIN data /\ DataIds \subseteq DOMAIN keys
              BY <1>1, <7>1 DEF IInv, ReaderInv
            <7>3. tuning \in DataIds
              BY <7>2 DEF DataIds
            <7> QED BY <1>3, <3>6, <5>2, <7>2, <7>3
          <6> QED BY <6>1, <6>2, EmptySeq
        <5> QED BY <5>1, <5>2
      <4> HIDE DEF k
      <4>2. keys'[g] = Append(k, r.args)
        BY <3>1, <3>6 DEF Extended, k
      <4>3. /\ keys'[g] \in Seq(Args) /\ Len(keys'[g]) = line + 1
            /\ \A i \in 1..line : keys'[g][i] = k[i]
            /\ keys'[g][line + 1] = r.args
        BY <3>4, <4>1, <4>2, AppendProperties
      <4>4. DOMAIN keys'[g] = 1..(line + 1)
        BY <4>3, LenProperties
      <4>5. ASSUME NEW i \in 1..(line + 1) PROVE keys'[g][i] = Trials[i]
        BY <1>1, <3>3, <4>1, <4>3
      <4>6. line + 1 = IF line + 1 < len THEN line + 1 ELSE len
        BY <1>1, <1>4, <3>2
      <4> QED BY <4>3, <4>4, <4>5, <4>6
    <3> QED BY <3>5, <3>6
  <2> QED BY <2>2, <2>3
<1>14. Gathered'
  <2>1. DOMAIN data' = KeysIn(Seen(optFile', line'))
    BY <1>1, <1>2, <1>5, <1>8, <1>11 DEF new
  <2>2. Seen(optFile', line') = new
    BY <1>1, <1>2 DEF new
  <2>3. Len(Trials)' = len /\ line' = line + 1
    BY <1>1 DEF len
  <2> QED BY <1>7, <1>12, <1>13, <2>1, <2>2, <2>3 DEF Gathered, len
<1>15. RecordsInOrder' /\ Kept'
  BY <1>1, <1>2 DEF RecordsInOrder, Kept
<1> QED BY <1>14, <1>15

LEMMA GetBestArgumentsKnow == IInv /\ ReadersKnow /\ GetBestArguments => ReadersKnow'
<1> SUFFICES ASSUME IInv, ReadersKnow, GetBestArguments PROVE ReadersKnow'
  OBVIOUS
<1> USE DEF ReadersKnow
<1>1. /\ pc = "readOpt" /\ pc' = "readErr" /\ line' = 0 /\ data' = <<>> /\ optFile' = <<>>
      /\ chosen' = <<best', toRepair'>>
      /\ UNCHANGED <<code, errFile>>
  BY DEF GetBestArguments
<1>2. UNCHANGED <<checked, errFile>>
  BY <1>1 DEF code
<1>3. best' = [g \in DOMAIN best' |-> best'[g]]
  BY DEF GetBestArguments
<1>4. Len(optFile') = 0 /\ DOMAIN optFile' = {}
  BY <1>1
<1>5. RecordsInOrder'
  BY <1>1, <1>2, <1>4 DEF RecordsInOrder
<1>6. Gathered'
  BY <1>1 DEF Gathered
<1>7. Kept'
  <2>1. Seen(errFile', 0) = {} /\ KeysIn({}) = {} /\ 1..0 = {}
    BY SeenNext DEF KeysIn
  <2>2. DOMAIN data' = {} /\ pc' # "keep" /\ AllRead(errFile)'
    BY <1>1, <2>1 DEF AllRead
  <2> QED BY <1>1, <1>3, <2>1, <2>2 DEF Kept
<1> QED BY <1>5, <1>6, <1>7

\* The errors that a reader has read are naturals.
LEMMA ErrorsRead ==
  ASSUME TypeOK, NEW n \in Nat, n <= Len(errFile), \A i \in 1..n : Readable(errFile[i])
  PROVE  \A s \in Seen(errFile, n) : s.err \in Nat
<1> SUFFICES ASSUME NEW i \in 1..n PROVE errFile[i].err \in Nat
  BY DEF Seen
<1>1. i \in DOMAIN errFile
  BY FilesTyped
<1>2. errFile[i].err \in Errs \cup {Unreadable}
  BY <1>1, FilesTyped DEF CheckRecords
<1>3. errFile[i].err # Unreadable
  BY DEF Readable
<1> QED BY <1>2, <1>3, ReadableErr

LEMMA ReadErrorRecordKnow == IInv /\ ReadersKnow /\ ReadErrorRecord => ReadersKnow'
<1> SUFFICES ASSUME IInv, ReadersKnow, ReadErrorRecord PROVE ReadersKnow'
  OBVIOUS
<1> USE DEF ReadersKnow
<1> DEFINE r == errFile[line + 1]
           key == <<r.gemm, r.args>>
           old == Seen(errFile, line)
           new == Seen(errFile, line + 1)
<1>1. /\ pc = "readErr" /\ line \in Nat /\ line < Len(errFile) /\ Readable(r) /\ line' = line + 1
      /\ UNCHANGED <<pc, call, tried, code, files, keys, memory, history>>
  BY DEF ReadErrorRecord, CanRead, IInv, TypeOK
<1>2. UNCHANGED <<pc, call, tried, checked, optFile, errFile, best, toRepair, chosen>>
  BY <1>1 DEF code, files, memory, history
<1>3. new = old \cup {r} /\ KeysIn(new) = KeysIn(old) \cup {key}
  BY <1>1, SeenNext
<1>4. AllRead(errFile)'
  <2>1. \A i \in 1..line : Readable(errFile[i])
    BY <1>1 DEF Kept, AllRead
  <2>2. \A i \in 1..(line + 1) : Readable(errFile[i])
    BY <1>1, <2>1
  <2> QED BY <1>1, <1>2, <2>2 DEF AllRead
<1>5. \A s \in new : s.err \in Nat
  <2>1. \A i \in 1..(line + 1) : Readable(errFile[i])
    BY <1>1, <1>2, <1>4 DEF AllRead
  <2>2. TypeOK /\ line + 1 \in Nat /\ line + 1 <= Len(errFile)
    BY <1>1, FilesTyped DEF IInv
  <2> QED BY <2>1, <2>2, ErrorsRead
<1>6. /\ DOMAIN data = KeysIn(old)
      /\ \A k \in DOMAIN data : LargestError(data[k], Loop!RecordsOf(old, k[1], k[2]))
  BY <1>1 DEF Kept
<1>7. /\ DOMAIN data' = DOMAIN data \cup {key}
      /\ \A k \in DOMAIN data : k # key => data'[k] = data[k]
      /\ data'[key] = IF key \in DOMAIN data THEN Larger(data[key], r.err) ELSE r.err
  BY DEF ReadErrorRecord, Extended
<1> HIDE DEF r, key, old, new
<1>8. key[1] = r.gemm /\ key[2] = r.args /\ r \in new
  BY <1>3 DEF key
<1>9. ASSUME NEW k \in DOMAIN data'
      PROVE  LargestError(data'[k], Loop!RecordsOf(new, k[1], k[2]))
  <2>1. CASE k # key
    <3>1. k \in KeysIn(old) /\ k \in DOMAIN data
      BY <1>6, <1>7, <2>1
    <3>2. ~ (k[1] = r.gemm /\ k[2] = r.args)
      BY <2>1, <3>1 DEF KeysIn, key
    <3>3. Loop!RecordsOf(new, k[1], k[2]) = Loop!RecordsOf(old, k[1], k[2])
      BY <1>3, <3>2 DEF Loop!RecordsOf
    <3> QED BY <1>6, <1>7, <2>1, <3>1, <3>3
  <2>2. CASE k = key
    <3> DEFINE R == Loop!RecordsOf(old, r.gemm, r.args)
    <3>1. Loop!RecordsOf(new, k[1], k[2]) = R \cup {r}
      BY <1>3, <1>8, <2>2 DEF Loop!RecordsOf
    <3>2. \A s \in R \cup {r} : s.err \in Nat
      <4>1. R \subseteq old
        BY RecordsOfMore
      <4> QED BY <1>3, <1>5, <4>1
    <3>3. CASE key \in DOMAIN data
      <4>1. LargestError(data[key], R)
        BY <1>6, <1>8, <3>3
      <4> HIDE DEF R
      <4>2. LargestError(Larger(data[key], r.err), R \cup {r})
        BY <3>2, <4>1 DEF LargestError, Larger
      <4> QED BY <1>7, <2>2, <3>1, <3>3, <4>2
    <3>4. CASE key \notin DOMAIN data
      <4>1. R = {}
        BY <1>6, <3>4, RecordsOfMore DEF key
      <4>2. LargestError(r.err, R \cup {r})
        BY <3>2, <4>1 DEF LargestError
      <4> QED BY <1>7, <2>2, <3>1, <3>4, <4>2
    <3> QED BY <3>3, <3>4
  <2> QED BY <2>1, <2>2
<1>10. Kept'
  <2>1. Seen(errFile', line') = new /\ DOMAIN data' = KeysIn(new)
    BY <1>1, <1>2, <1>3, <1>6, <1>7 DEF new
  <2>2. chosen' = <<best', toRepair'>> /\ best' = [g \in DOMAIN best' |-> best'[g]]
    BY <1>1, <1>2 DEF Kept
  <2> QED BY <1>1, <1>4, <1>9, <2>1, <2>2 DEF Kept
<1>11. RecordsInOrder' /\ Gathered'
  BY <1>1, <1>2 DEF RecordsInOrder, Gathered
<1> QED BY <1>10, <1>11

LEMMA IdsOfKeys ==
  ASSUME NEW S
  PROVE  {key[1] : key \in KeysIn(S)} = Loop!IdsIn(S)
<1>1. ASSUME NEW key \in KeysIn(S) PROVE key[1] \in Loop!IdsIn(S)
  BY DEF KeysIn, Loop!IdsIn
<1>2. ASSUME NEW r \in S PROVE r.gemm \in {key[1] : key \in KeysIn(S)}
  <2>1. <<r.gemm, r.args>> \in KeysIn(S) /\ <<r.gemm, r.args>>[1] = r.gemm
    BY DEF KeysIn
  <2> QED BY <2>1
<1> QED BY <1>1, <1>2 DEF Loop!IdsIn

LEMMA EndErrorFileKnow == IInv /\ ReadersKnow /\ EndErrorFile => ReadersKnow'
<1> SUFFICES ASSUME IInv, ReadersKnow, EndErrorFile PROVE ReadersKnow'
  OBVIOUS
<1> USE DEF ReadersKnow
<1>1. /\ pc = "readErr" /\ pc' = "keep" /\ ~ CanRead(errFile)
      /\ UNCHANGED <<call, tried, code, files, reader, memory, history>>
  BY DEF EndErrorFile
<1>2. UNCHANGED <<checked, optFile, errFile, data, line, best, toRepair, banned, chosen>>
  BY <1>1 DEF code, files, reader, memory, history
<1> DEFINE file == Seen(errFile, line)
<1>3. /\ chosen = <<best, toRepair>> /\ best = [g \in DOMAIN best |-> best[g]]
      /\ AllRead(errFile) /\ DOMAIN data = KeysIn(file)
      /\ \A key \in DOMAIN data : LargestError(data[key], Loop!RecordsOf(file, key[1], key[2]))
  BY <1>1 DEF Kept
<1>4. line \in Nat /\ line <= Len(errFile) /\ errFile \in Seq(CheckRecords)
  BY <1>1 DEF IInv, TypeOK, ReaderInv
<1>5. ReadableOf(errFile) = file
  BY <1>1, <1>3, <1>4, StopsAtUnreadable DEF AllRead, CanRead
<1>6. \A s \in file : s.err \in Nat
  BY <1>3, <1>4, ErrorsRead DEF AllRead, IInv
<1> HIDE DEF file
<1>7. DataIds = Loop!IdsIn(file)
  BY <1>3, IdsOfKeys DEF DataIds
<1>8. ASSUME NEW key \in DOMAIN data
      PROVE  ~ Loop!WithinThreshold(file, key[1], key[2]) <=> data[key] > Threshold
  <2> DEFINE R == Loop!RecordsOf(file, key[1], key[2])
  <2>1. LargestError(data[key], R) /\ \A s \in R : s.err \in Nat
    BY <1>3, <1>6, RecordsOfMore
  <2>2. Loop!WithinThreshold(file, key[1], key[2]) <=> \A s \in R : s.err <= Threshold
    BY DEF Loop!WithinThreshold
  <2> HIDE DEF R
  <2> QED BY <2>1, <2>2, MeasureAssumption DEF LargestError
<1>9. Kept'
  <2>1. DataIds' = DataIds /\ ReadableOf(errFile') = file /\ DOMAIN data' = KeysIn(file)
    BY <1>2, <1>3, <1>5 DEF DataIds
  <2> DEFINE kept == Loop!IdsIn(file) \ DataIds
  <2>2. kept = {}
    BY <1>7
  <2>3. best' = [g \in DOMAIN chosen'[1] \cup kept |->
                    IF g \in kept THEN Loop!KeptArgs(g, checked[g])' ELSE chosen'[1][g]]
    BY <1>2, <1>3, <2>2
  <2>4. toRepair' = chosen'[2] \cup {g \in kept : ~ Loop!WithinThreshold(file, g, checked[g])}
    BY <1>2, <1>3, <2>2
  <2> QED BY <1>1, <1>2, <1>8, <2>1, <2>3, <2>4 DEF Kept
<1>10. RecordsInOrder' /\ Gathered'
  BY <1>1, <1>2 DEF RecordsInOrder, Gathered
<1> QED BY <1>9, <1>10
\* What a GEMM keeps depends on the file, its arguments and the bans only.
LEMMA KeepsTheSame ==
  ASSUME UNCHANGED <<errFile, banned, checked>>, NEW h
  PROVE  /\ Loop!KeptArgs(h, checked[h])' = Loop!KeptArgs(h, checked[h])
         /\ Loop!WithinThreshold(ReadableOf(errFile), h, checked[h])' <=>
            Loop!WithinThreshold(ReadableOf(errFile), h, checked[h])
BY DEF Loop!KeptArgs, Loop!WithinThreshold, Loop!RecordsOf, ReadableOf, Readable, Loop!Fp32

LEMMA KeepArgumentsKnow == IInv /\ ReadersKnow /\ KeepArguments => ReadersKnow'
<1> SUFFICES ASSUME IInv, ReadersKnow, KeepArguments PROVE ReadersKnow'
  OBVIOUS
<1> USE DEF ReadersKnow
<1>1. /\ pc = "keep"
      /\ UNCHANGED <<pc, call, tried, code, files, line, keys, banned, history>>
  BY DEF KeepArguments
<1>2. UNCHANGED <<checked, optFile, errFile, banned, chosen>>
  BY <1>1 DEF code, files, history
<1>3. PICK key \in DOMAIN data :
        LET g == key[1]
            failed == data[key] > Threshold
        IN  /\ best' = Extended(best, g, IF failed /\ g \in banned THEN Fp32 ELSE key[2])
            /\ toRepair' = IF failed THEN toRepair \cup {g} ELSE toRepair
            /\ data' = [k \in DOMAIN data \ {key} |-> data[k]]
  BY DEF KeepArguments
<1> DEFINE file == ReadableOf(errFile)
           kept == Loop!IdsIn(file) \ DataIds
           g == key[1]
           Keeps(h) == Loop!KeptArgs(h, checked[h])
           Fails(h) == ~ Loop!WithinThreshold(file, h, checked[h])
<1>4. /\ DOMAIN data \subseteq KeysIn(file)
      /\ \A k \in DOMAIN data : ~ Loop!WithinThreshold(file, k[1], k[2]) <=> data[k] > Threshold
      /\ best = [h \in DOMAIN chosen[1] \cup kept |-> IF h \in kept THEN Keeps(h) ELSE chosen[1][h]]
      /\ toRepair = chosen[2] \cup {h \in kept : Fails(h)}
  BY <1>1 DEF Kept
<1>5. \A s \in file : s.args = checked[s.gemm]
  BY DEF RecordsInOrder, ReadableOf
<1>6. \A k \in KeysIn(file) : k = <<k[1], checked[k[1]]>>
  BY <1>5 DEF KeysIn
<1>7. key[2] = checked[g] /\ g \in Loop!IdsIn(file) /\ g \in DataIds
  <2>1. key \in KeysIn(file)
    BY <1>4
  <2>2. key[1] \in Loop!IdsIn(file)
    BY <2>1, IdsOfKeys
  <2> QED BY <1>6, <2>1, <2>2 DEF DataIds
<1>8. DOMAIN data' = DOMAIN data \ {key} /\ \A k \in DOMAIN data' : data'[k] = data[k]
  BY <1>3
<1>9. DataIds' = DataIds \ {g}
  <2>1. \A k \in DOMAIN data : k[1] = g => k = key
    BY <1>4, <1>6
  <2>2. DataIds' = {k[1] : k \in DOMAIN data \ {key}}
    BY <1>8 DEF DataIds
  <2>3. ASSUME NEW h \in DataIds, h # g PROVE h \in DataIds'
    BY <2>2, <2>3 DEF DataIds
  <2>4. ASSUME NEW h \in DataIds' PROVE h \in DataIds /\ h # g
    BY <2>1, <2>2 DEF DataIds
  <2> QED BY <2>3, <2>4
<1>10. UNCHANGED <<file, Loop!IdsIn(file)>> /\ kept' = kept \cup {g}
  BY <1>2, <1>7, <1>9
<1>11. \A h : Keeps(h)' = Keeps(h) /\ (Fails(h)' <=> Fails(h))
  BY <1>2, KeepsTheSame
<1>12. /\ Fails(g) <=> data[key] > Threshold
       /\ Keeps(g) = IF data[key] > Threshold /\ g \in banned THEN Fp32 ELSE key[2]
  <2>1. Fails(g) <=> data[key] > Threshold
    BY <1>4, <1>7
  <2> QED BY <1>7, <2>1 DEF Loop!KeptArgs, Loop!Fp32, Fp32
<1> HIDE DEF kept, g, Keeps, Fails
<1>13. best' = [h \in DOMAIN chosen[1] \cup kept \cup {g} |->
                   IF h \in kept \cup {g} THEN Keeps(h) ELSE chosen[1][h]]
  BY <1>3, <1>4, <1>12 DEF Extended, g
<1>14. toRepair' = chosen[2] \cup {h \in kept \cup {g} : Fails(h)}
  BY <1>3, <1>4, <1>12 DEF g
<1> USE DEF kept, Keeps, Fails
<1>15. Kept'
  BY <1>1, <1>2, <1>4, <1>8, <1>10, <1>11, <1>13, <1>14 DEF Kept
<1>16. RecordsInOrder' /\ Gathered'
  BY <1>1, <1>2 DEF RecordsInOrder, Gathered
<1> QED BY <1>15, <1>16

LEMMA EndKeepingKnow == IInv /\ ReadersKnow /\ EndKeeping => ReadersKnow'
<1> SUFFICES ASSUME IInv, ReadersKnow, EndKeeping PROVE ReadersKnow'
  OBVIOUS
<1>1. /\ pc = "keep" /\ pc' = "done" /\ errFile' = <<>>
      /\ UNCHANGED <<call, tried, code, optFile, reader, memory, history>>
  BY DEF EndKeeping
<1>2. DOMAIN errFile' = {}
  BY <1>1
<1> QED BY <1>1, <1>2 DEF ReadersKnow, RecordsInOrder, Gathered, Kept

LEMMA StutterKnow == ReadersKnow /\ UNCHANGED vars => ReadersKnow'
<1> SUFFICES ASSUME ReadersKnow, UNCHANGED vars PROVE ReadersKnow'
  OBVIOUS
<1>1. UNCHANGED <<pc, call, tried, checked, optFile, errFile, line, keys, data, best, toRepair, banned, chosen>>
  BY DEF vars, code, files, reader, memory, history
<1>2. Gathered'
  BY <1>1 DEF ReadersKnow, Gathered, AllRead
<1>3. DataIds' = DataIds /\ \A h : Loop!KeptArgs(h, checked[h])' = Loop!KeptArgs(h, checked[h])
  BY <1>1, KeepsTheSame DEF DataIds
<1>4. Kept'
  BY <1>1, <1>3 DEF ReadersKnow, Kept, AllRead
<1>5. RecordsInOrder'
  BY <1>1 DEF ReadersKnow, RecordsInOrder
<1> QED BY <1>2, <1>4, <1>5 DEF ReadersKnow

LEMMA StepKnow == IInv /\ ReadersKnow /\ [Next]_vars => ReadersKnow'
<1> SUFFICES ASSUME IInv, ReadersKnow, [Next]_vars PROVE ReadersKnow'
  OBVIOUS
<1>1. CASE Execution
  BY <1>1, CheckKnow, TryKnow, PlainKnow DEF Execution
<1>2. CASE Reading
  BY <1>2, ReadOptimizedRecordKnow, GetBestArgumentsKnow, ReadErrorRecordKnow, EndErrorFileKnow
     DEF Reading
<1>3. CASE Keeping
  BY <1>3, KeepArgumentsKnow, EndKeepingKnow DEF Keeping
<1> QED BY <1>1, <1>2, <1>3, StutterKnow DEF Next

----------------------------------------------------------------------------
(* The choice of the best arguments.                                       *)

\* Multiplying by a positive number keeps the order.
LEMMA TimesKeepsOrder ==
  ASSUME NEW x \in Nat, NEW y \in Nat, NEW n \in Nat, n > 0
  PROVE  /\ x < y <=> x * n < y * n
         /\ x <= y <=> x * n <= y * n
OBVIOUS

LEMMA TimesReordered ==
  ASSUME NEW x \in Nat, NEW y \in Nat, NEW z \in Nat
  PROVE  x * y \in Nat /\ (x * y) * z = (x * z) * y
OBVIOUS

\* A smaller mean than one that is not greater than a third.
LEMMA MeansTransitive ==
  ASSUME NEW ta \in Nat, NEW na \in Nat, NEW tb \in Nat, NEW nb \in Nat, NEW tc \in Nat, NEW nc \in Nat,
         na > 0, nb > 0, nc > 0
  PROVE  /\ ta * nb < tb * na /\ ~ (tc * nb < tb * nc) => ta * nc < tc * na
         /\ ta * nb < tb * na => ~ (tb * na < ta * nb)
<1>1. (ta * nb) * nc = (ta * nc) * nb /\ (tb * na) * nc = (tb * nc) * na /\ (tc * nb) * na = (tc * na) * nb
  BY TimesReordered
<1>2. /\ ta * nb \in Nat /\ tb * na \in Nat /\ tb * nc \in Nat /\ tc * nb \in Nat
      /\ ta * nc \in Nat /\ tc * na \in Nat
  BY TimesReordered
<1> DEFINE ab == ta * nb
           ba == tb * na
           bc == tb * nc
           cb == tc * nb
           ac == ta * nc
           ca == tc * na
<1> HIDE DEF ab, ba, bc, cb, ac, ca
<1>3. ab \in Nat /\ ba \in Nat /\ bc \in Nat /\ cb \in Nat /\ ac \in Nat /\ ca \in Nat
  BY <1>2 DEF ab, ba, bc, cb, ac, ca
<1>4. ab * nc = ac * nb /\ ba * nc = bc * na /\ cb * na = ca * nb
  BY <1>1 DEF ab, ba, bc, cb, ac, ca
<1>5. ASSUME ab < ba, ~ (cb < bc) PROVE ac < ca
  <2>1. ab * nc < ba * nc
    BY <1>3, <1>5, TimesKeepsOrder
  <2>2. bc * na <= cb * na
    <3>1. bc <= cb
      BY <1>3, <1>5
    <3> QED BY <1>3, <3>1, TimesKeepsOrder
  <2> DEFINE p == ac * nb
             q == ca * nb
             m == bc * na
  <2>3. p \in Nat /\ q \in Nat /\ m \in Nat
    BY <1>3, TimesReordered
  <2>4. p < m /\ m <= q
    BY <1>4, <2>1, <2>2
  <2> HIDE DEF p, q, m
  <2>5. p < q
    BY <2>3, <2>4
  <2> QED BY <1>3, <2>5, TimesKeepsOrder DEF p, q
<1>6. ab < ba => ~ (ba < ab)
  BY <1>3
<1> QED BY <1>5, <1>6 DEF ab, ba, bc, cb, ac, ca

\* best_id_argument from one key to the next.
NextBest(g, b, i) ==
  IF i = 0 THEN <<>>
  ELSE IF Allowed(g, keys[g][i]) /\ (b[i - 1] = <<>> \/ Quicker(g, keys[g][i], b[i - 1]))
       THEN keys[g][i]
       ELSE b[i - 1]

\* The function best_id_argument is computed by is well defined.
LEMMA BestAfterSteps ==
  ASSUME NEW g, Len(KeysOf(g)) \in Nat
  PROVE  \A i \in 0..Len(KeysOf(g)) : BestAfter(g)[i] = NextBest(g, BestAfter(g), i)
<1> DEFINE Good == {n \in Nat : \E f : f = [i \in 0..n |-> NextBest(g, f, i)]}
<1>1. 0 \in Good
  <2> DEFINE f == [i \in 0..0 |-> <<>>]
  <2>1. f = [i \in 0..0 |-> NextBest(g, f, i)]
    BY DEF NextBest
  <2> QED BY <2>1
<1>2. ASSUME NEW n \in Nat, n \in Good PROVE n + 1 \in Good
  <2>1. PICK f : f = [i \in 0..n |-> NextBest(g, f, i)]
    BY <1>2
  <2> DEFINE h == [i \in 0..(n + 1) |-> IF i = n + 1 THEN NextBest(g, f, i) ELSE f[i]]
  <2>2. \A i \in 0..n : h[i] = f[i] /\ f[i] = NextBest(g, f, i)
    BY <2>1
  <2>3. ASSUME NEW i \in 0..(n + 1) PROVE h[i] = NextBest(g, h, i)
    <3>1. h[i] = NextBest(g, f, i)
      <4>1. CASE i = n + 1
        BY <4>1
      <4>2. CASE i # n + 1
        <5>1. i \in 0..n
          BY <4>2
        <5> QED BY <2>2, <5>1
      <4> QED BY <4>1, <4>2
    <3>2. i # 0 => i - 1 \in 0..n /\ h[i - 1] = f[i - 1]
      BY <2>2
    <3> HIDE DEF h
    <3> QED BY <3>1, <3>2 DEF NextBest
  <2>4. h = [i \in 0..(n + 1) |-> h[i]]
    OBVIOUS
  <2> HIDE DEF h
  <2>5. h = [i \in 0..(n + 1) |-> NextBest(g, h, i)]
    BY <2>3, <2>4
  <2>6. n + 1 \in Nat
    OBVIOUS
  <2> QED BY <2>5, <2>6
<1>3. Nat \subseteq Good
  <2> HIDE DEF Good
  <2> QED BY <1>1, <1>2, SetInduction
<1> DEFINE len == Len(KeysOf(g))
           b == CHOOSE f : f = [i \in 0..len |-> NextBest(g, f, i)]
<1>4. \E f : f = [i \in 0..len |-> NextBest(g, f, i)]
  BY <1>3
<1>5. b = [i \in 0..len |-> NextBest(g, b, i)]
  BY <1>4
<1>6. BestAfter(g) = b
  BY DEF BestAfter, NextBest
<1> HIDE DEF b, len
<1>7. \A i \in 0..len : b[i] = NextBest(g, b, i)
  BY <1>5
<1> QED BY <1>6, <1>7 DEF len
\* After i keys: an allowed one of them that is quicker than the allowed ones
\* before it, and that none after it beats.
IsBestOf(g, a, i) ==
  \E m \in 1..i :
     /\ a = keys[g][m] /\ Allowed(g, a)
     /\ \A j \in 1..i : Allowed(g, keys[g][j]) =>
          /\ j < m => Quicker(g, a, keys[g][j])
          /\ j > m => ~ Quicker(g, keys[g][j], a)

\* What the choice needs of the maps.
CanCompare(g) ==
  /\ g \in DOMAIN keys /\ Len(keys[g]) \in Nat
  /\ \A i \in 1..Len(keys[g]) :
       LET d == data[<<g, keys[g][i]>>]
       IN  keys[g][i] # <<>> /\ d.total \in Nat /\ d.times \in Nat /\ d.times > 0

LEMMA QuickerTransitive ==
  ASSUME NEW g, CanCompare(g)
  PROVE  \A i, j, k \in 1..Len(keys[g]) :
           LET a == keys[g][i]
               b == keys[g][j]
               c == keys[g][k]
           IN  /\ Quicker(g, a, b) /\ ~ Quicker(g, c, b) => Quicker(g, a, c)
               /\ Quicker(g, a, b) => ~ Quicker(g, b, a)
<1> TAKE i, j, k \in 1..Len(keys[g])
<1> DEFINE ta == data[<<g, keys[g][i]>>].total
           na == data[<<g, keys[g][i]>>].times
           tb == data[<<g, keys[g][j]>>].total
           nb == data[<<g, keys[g][j]>>].times
           tc == data[<<g, keys[g][k]>>].total
           nc == data[<<g, keys[g][k]>>].times
<1>1. /\ ta \in Nat /\ na \in Nat /\ tb \in Nat /\ nb \in Nat /\ tc \in Nat /\ nc \in Nat
      /\ na > 0 /\ nb > 0 /\ nc > 0
  BY DEF CanCompare
<1> HIDE DEF ta, na, tb, nb, tc, nc
<1>2. /\ ta * nb < tb * na /\ ~ (tc * nb < tb * nc) => ta * nc < tc * na
      /\ ta * nb < tb * na => ~ (tb * na < ta * nb)
  BY <1>1, MeansTransitive
<1> QED BY <1>2 DEF Quicker, ta, na, tb, nb, tc, nc

\* By induction on the keys, the running minimum is one of them, if any.
LEMMA BestAfterChooses ==
  ASSUME NEW g, CanCompare(g)
  PROVE  \A i \in 0..Len(keys[g]) :
           IF BestAfter(g)[i] = <<>> THEN \A j \in 1..i : ~ Allowed(g, keys[g][j])
           ELSE IsBestOf(g, BestAfter(g)[i], i)
<1> DEFINE len == Len(keys[g])
           b == BestAfter(g)
           Right(i) == IF b[i] = <<>> THEN \A j \in 1..i : ~ Allowed(g, keys[g][j])
                       ELSE IsBestOf(g, b[i], i)
           Good == {n \in Nat : n <= len => Right(n)}
<1>1. KeysOf(g) = keys[g] /\ len \in Nat
  BY DEF CanCompare, KeysOf
<1>2. \A i \in 0..len : b[i] = NextBest(g, b, i)
  BY <1>1, BestAfterSteps
<1>3. \A i, j, k \in 1..len :
        /\ Quicker(g, keys[g][i], keys[g][j]) /\ ~ Quicker(g, keys[g][k], keys[g][j])
             => Quicker(g, keys[g][i], keys[g][k])
        /\ Quicker(g, keys[g][i], keys[g][j]) => ~ Quicker(g, keys[g][j], keys[g][i])
  BY QuickerTransitive
<1>4. \A i \in 1..len : keys[g][i] # <<>>
  BY DEF CanCompare
<1> HIDE DEF len, b
<1>5. 0 \in Good
  BY <1>1, <1>2 DEF NextBest
<1>6. ASSUME NEW n \in Nat, n \in Good, n + 1 <= len PROVE Right(n + 1)
  <2> DEFINE new == keys[g][n + 1]
             Q(i, j) == Quicker(g, keys[g][i], keys[g][j])
             A(i) == Allowed(g, keys[g][i])
  <2>1. Right(n) /\ n + 1 \in 0..len /\ n + 1 \in 1..len /\ n + 1 # 0 /\ (n + 1) - 1 = n
    BY <1>1, <1>6
  <2>2. b[n + 1] = IF A(n + 1) /\ (b[n] = <<>> \/ Quicker(g, new, b[n])) THEN new ELSE b[n]
    BY <1>2, <2>1 DEF NextBest
  <2>3. 1..(n + 1) = 1..n \cup {n + 1} /\ 1..n \subseteq 1..len
    BY <1>1, <1>6
  <2>4. CASE b[n] = <<>>
    <3>1. \A j \in 1..n : ~ A(j)
      BY <2>1, <2>4
    <3>2. CASE A(n + 1)
      <4>1. b[n + 1] = new /\ new # <<>>
        BY <1>4, <2>1, <2>2, <2>4, <3>2
      <4>2. IsBestOf(g, new, n + 1)
        <5>1. \A j \in 1..(n + 1) : A(j) => ~ (j < n + 1) /\ ~ (j > n + 1)
          BY <2>3, <3>1
        <5> QED BY <3>2, <5>1 DEF IsBestOf
      <4> QED BY <4>1, <4>2
    <3>3. CASE ~ A(n + 1)
      <4>1. b[n + 1] = <<>>
        BY <2>2, <2>4, <3>3
      <4> QED BY <2>3, <3>1, <3>3, <4>1
    <3> QED BY <3>2, <3>3
  <2>5. CASE b[n] # <<>>
    <3>1. PICK m \in 1..n :
            /\ b[n] = keys[g][m] /\ A(m)
            /\ \A j \in 1..n : A(j) => (j < m => Q(m, j)) /\ (j > m => ~ Q(j, m))
      BY <2>1, <2>5 DEF IsBestOf
    <3>2. CASE A(n + 1) /\ Q(n + 1, m)
      <4>1. b[n + 1] = new /\ new # <<>>
        BY <1>4, <2>1, <2>2, <3>1, <3>2
      <4>2. ASSUME NEW j \in 1..n, A(j) PROVE Q(n + 1, j)
        <5>1. CASE j = m
          BY <3>2, <5>1
        <5>2. CASE j # m
          <6>1. ~ Q(j, m)
            <7>1. CASE j < m
              BY <1>3, <2>3, <3>1, <4>2, <7>1
            <7>2. CASE j > m
              BY <3>1, <4>2, <7>2
            <7> QED BY <5>2, <7>1, <7>2
          <6> QED BY <1>3, <2>1, <2>3, <3>2, <6>1
        <5> QED BY <5>1, <5>2
      <4>3. IsBestOf(g, new, n + 1)
        <5>1. \A j \in 1..(n + 1) : A(j) => (j < n + 1 => Q(n + 1, j)) /\ ~ (j > n + 1)
          BY <2>3, <4>2
        <5> QED BY <3>2, <5>1 DEF IsBestOf
      <4> QED BY <4>1, <4>3
    <3>3. CASE ~ (A(n + 1) /\ Q(n + 1, m))
      <4>1. b[n + 1] = b[n]
        BY <2>2, <2>5, <3>1, <3>3
      <4>2. m \in 1..(n + 1) /\ m < n + 1
        OBVIOUS
      <4>3. \A j \in 1..(n + 1) : A(j) => (j < m => Q(m, j)) /\ (j > m => ~ Q(j, m))
        BY <2>3, <3>1, <3>3, <4>2
      <4>4. IsBestOf(g, b[n + 1], n + 1)
        BY <3>1, <4>1, <4>2, <4>3 DEF IsBestOf
      <4> QED BY <2>5, <4>1, <4>4
    <3> QED BY <3>2, <3>3
  <2> QED BY <2>4, <2>5
<1>7. Nat \subseteq Good
  <2>1. \A n \in Nat : n \in Good => n + 1 \in Good
    <3> SUFFICES ASSUME NEW n \in Nat, n \in Good, n + 1 <= len PROVE Right(n + 1)
      OBVIOUS
    <3> QED BY <1>6
  <2> HIDE DEF Good
  <2> QED BY <1>5, <2>1, SetInduction
<1>8. \A i \in 0..len : Right(i)
  BY <1>1, <1>7
<1> QED BY <1>8 DEF len, b

----------------------------------------------------------------------------
(* The readers do what SbSTuning has as a step each.                       *)

\* A key of data is an argument in funcid_keys.
LEMMA KeysOfData ==
  ASSUME IInv, ReadersKnow, pc = "readOpt"
  PROVE  \A g \in DOMAIN keys :
           /\ Len(keys[g]) \in Nat /\ DOMAIN keys[g] = 1..Len(keys[g])
           /\ \A i \in 1..Len(keys[g]) : keys[g][i] = Trials[i] /\ i \in 1..Len(Trials)
           /\ \A a : <<g, a>> \in KeysIn(Seen(optFile, line)) <=> \E i \in 1..Len(keys[g]) : keys[g][i] = a
<1> TAKE g \in DOMAIN keys
<1> DEFINE n == Len(keys[g])
           len == Len(Trials)
<1>1. /\ line \in Nat /\ line <= Len(optFile) /\ Len(optFile) \in Nat
      /\ DOMAIN optFile = 1..Len(optFile) /\ len \in Nat \ {0} /\ DOMAIN Trials = 1..len
      /\ g \in Ids(optFile, line)
  BY FilesTyped, TrialsCount DEF IInv, TypeOK, ReaderInv
<1>2. \A i \in 1..line : i \in DOMAIN optFile
  BY <1>1
<1>3. \A i \in DOMAIN optFile : optFile[i].gemm = tuning /\ (i <= len => optFile[i].args = Trials[i])
                                /\ \E k \in 1..len : optFile[i].args = Trials[k]
  BY <1>1 DEF IInv, OptFileInv, ReadersKnow, RecordsInOrder
<1>4. g = tuning
  BY <1>1, <1>2, <1>3 DEF Ids
<1>5. keys[g] \in Seq(Args) /\ n = (IF line < len THEN line ELSE len) /\ \A i \in DOMAIN keys[g] : keys[g][i] = Trials[i]
  BY DEF ReadersKnow, Gathered
<1>6. n \in Nat /\ DOMAIN keys[g] = 1..n
  BY <1>5, LenProperties
<1> HIDE DEF n, len
<1>7. \A i \in 1..n : i \in 1..line /\ i \in 1..len
  BY <1>1, <1>5, <1>6
<1>8. \A i \in 1..n : optFile[i].args = keys[g][i] /\ keys[g][i] = Trials[i]
  <2> SUFFICES ASSUME NEW i \in 1..n PROVE optFile[i].args = keys[g][i] /\ keys[g][i] = Trials[i]
    OBVIOUS
  <2>1. i \in DOMAIN optFile /\ i <= len /\ i \in DOMAIN keys[g]
    BY <1>1, <1>2, <1>6, <1>7
  <2>2. optFile[i].args = Trials[i]
    BY <1>3, <2>1
  <2> QED BY <1>5, <2>1, <2>2
<1>9. ASSUME NEW i \in 1..line PROVE \E k \in 1..n : keys[g][k] = optFile[i].args
  <2>1. CASE line < len
    <3>1. i \in 1..n /\ i <= len
      BY <1>1, <1>5, <2>1
    <3> QED BY <1>8, <3>1
  <2>2. CASE ~ (line < len)
    <3>1. n = len
      BY <1>5, <2>2
    <3>2. PICK k \in 1..len : optFile[i].args = Trials[k]
      BY <1>2, <1>3
    <3> QED BY <1>8, <3>1, <3>2
  <2> QED BY <2>1, <2>2
<1>10. KeysIn(Seen(optFile, line)) = {<<g, optFile[i].args>> : i \in 1..line}
  BY <1>2, <1>3, <1>4 DEF KeysIn, Seen
<1>11. \A a : <<g, a>> \in KeysIn(Seen(optFile, line)) <=> \E i \in 1..n : keys[g][i] = a
  BY <1>7, <1>8, <1>9, <1>10
<1> QED BY <1>6, <1>7, <1>8, <1>11 DEF n, len

\* At the end of its loop the reader has the readable records.
LEMMA OptFileRead ==
  ASSUME IInv, ReadersKnow, pc = "readOpt", ~ CanRead(optFile)
  PROVE  ReadableOf(optFile) = Seen(optFile, line)
<1>1. /\ line \in Nat /\ line <= Len(optFile) /\ optFile \in Seq(TuneRecords)
      /\ \A i \in 1..line : Readable(optFile[i])
  BY DEF IInv, TypeOK, ReaderInv, ReadersKnow, Gathered, AllRead
<1> QED BY <1>1, StopsAtUnreadable DEF CanRead

\* Then data and the records compare arguments alike.
LEMMA DataSaysTheSame ==
  ASSUME IInv, ReadersKnow, pc = "readOpt", ~ CanRead(optFile)
  PROVE  LET file == ReadableOf(optFile)
         IN  \A g \in DOMAIN keys :
               /\ CanCompare(g)
               /\ Loop!ArgsIn(file, g) = {keys[g][i] : i \in 1..Len(keys[g])}
               /\ \A a \in Loop!ArgsIn(file, g) :
                    /\ <<g, a>> \in DOMAIN data
                    /\ Loop!WithinThreshold(file, g, a) <=> Allowed(g, a)
                    /\ \A b \in Loop!ArgsIn(file, g) : Loop!Faster(g, a, b) <=> Quicker(g, a, b)
<1> DEFINE file == ReadableOf(optFile)
<1>1. file = Seen(optFile, line)
  BY OptFileRead
<1>2. /\ DOMAIN data = KeysIn(file)
      /\ \A key \in DOMAIN data : Combines(data[key], Loop!RecordsOf(file, key[1], key[2]))
  BY <1>1 DEF ReadersKnow, Gathered
<1>3. IsFiniteSet(file)
  BY <1>1, SeenNext DEF IInv, TypeOK
<1>4. \A s \in file : s.time \in Nat /\ s.err \in Nat
  <2> SUFFICES ASSUME NEW i \in 1..line PROVE optFile[i].time \in Nat /\ optFile[i].err \in Nat
    BY <1>1 DEF Seen
  <2>1. line \in Nat /\ line <= Len(optFile) /\ Len(optFile) \in Nat /\ DOMAIN optFile = 1..Len(optFile)
    BY FilesTyped DEF IInv, TypeOK, ReaderInv
  <2>2. i \in DOMAIN optFile
    BY <2>1
  <2>3. optFile[i].time \in Nat /\ optFile[i].err \in Errs \cup {Unreadable}
    BY <2>2, FilesTyped DEF IInv, TuneRecords
  <2>4. Readable(optFile[i])
    BY DEF ReadersKnow, Gathered, AllRead
  <2> QED BY <2>3, <2>4, ReadableErr DEF Readable
<1> SUFFICES ASSUME NEW g \in DOMAIN keys
             PROVE  /\ CanCompare(g)
                    /\ Loop!ArgsIn(file, g) = {keys[g][i] : i \in 1..Len(keys[g])}
                    /\ \A a \in Loop!ArgsIn(file, g) :
                         /\ <<g, a>> \in DOMAIN data
                         /\ Loop!WithinThreshold(file, g, a) <=> Allowed(g, a)
                         /\ \A b \in Loop!ArgsIn(file, g) : Loop!Faster(g, a, b) <=> Quicker(g, a, b)
  OBVIOUS
<1>5. /\ Len(keys[g]) \in Nat
      /\ \A i \in 1..Len(keys[g]) : keys[g][i] = Trials[i] /\ i \in 1..Len(Trials)
      /\ \A a : <<g, a>> \in KeysIn(file) <=> \E i \in 1..Len(keys[g]) : keys[g][i] = a
  BY <1>1, KeysOfData
<1> DEFINE R(a) == Loop!RecordsOf(file, g, a)
           total(a) == data[<<g, a>>].total
           times(a) == data[<<g, a>>].times
<1>6. Loop!ArgsIn(file, g) = {keys[g][i] : i \in 1..Len(keys[g])}
  <2>1. \A a : a \in Loop!ArgsIn(file, g) <=> <<g, a>> \in KeysIn(file)
    BY DEF Loop!ArgsIn, KeysIn
  <2> HIDE DEF file
  <2> QED BY <1>5, <2>1
<1>7. ASSUME NEW a, <<g, a>> \in DOMAIN data
      PROVE  /\ times(a) = Cardinality(R(a)) /\ times(a) \in Nat /\ times(a) > 0
             /\ total(a) = Loop!TimeOf(R(a)) /\ total(a) \in Nat
             /\ Loop!WithinThreshold(file, g, a) <=> Allowed(g, a)
  <2>1. <<g, a>>[1] = g /\ <<g, a>>[2] = a
    OBVIOUS
  <2>2. Combines(data[<<g, a>>], R(a))
    BY <1>2, <1>7, <2>1
  <2>3. R(a) \in SUBSET file /\ R(a) # {}
    <3>1. <<g, a>> \in KeysIn(file)
      BY <1>2, <1>7
    <3>2. /\ R(a) \subseteq file
          /\ <<g, a>> \in KeysIn(file) <=> R(a) # {}
      <4> HIDE DEF file
      <4> QED BY DEF Loop!RecordsOf, KeysIn
    <3> QED BY <3>1, <3>2
  <2>4. IsFiniteSet(R(a)) /\ Cardinality(R(a)) \in Nat /\ Cardinality(R(a)) # 0
    BY <1>3, <2>3, SubsetSize
  <2>5. Timed(R(a)) /\ \A s \in R(a) : s.err \in Nat
    BY <1>4, <2>3, <2>4 DEF Timed
  <2>6. Loop!TimeOf(R(a)) \in Nat
    <3>1. PICK f : IsSumOn(f, R(a)) /\ Loop!TimeOf(R(a)) = f[R(a)]
      BY <2>5, TimeOfIsSum
    <3> QED BY <3>1 DEF IsSumOn
  <2>7. Loop!WithinThreshold(file, g, a) <=> Allowed(g, a)
    <3> DEFINE e == data[<<g, a>>].err
               S == R(a)
    <3>1. Loop!WithinThreshold(file, g, a) <=> \A s \in S : s.err <= Threshold
      BY DEF Loop!WithinThreshold
    <3>2. Allowed(g, a) <=> e <= Threshold
      BY DEF Allowed
    <3>3. LargestError(e, S) /\ \A s \in S : s.err \in Nat
      BY <2>2, <2>5 DEF Combines
    <3> HIDE DEF e, S
    <3> QED BY <3>1, <3>2, <3>3, MeasureAssumption DEF LargestError
  <2>8. times(a) = Cardinality(R(a)) /\ total(a) = Loop!TimeOf(R(a))
    BY <2>2 DEF Combines
  <2> QED BY <2>4, <2>6, <2>7, <2>8
<1>8. \A a \in Loop!ArgsIn(file, g) : <<g, a>> \in DOMAIN data
  BY <1>2, <1>5, <1>6
<1>9. CanCompare(g)
  <2>1. ASSUME NEW i \in 1..Len(keys[g]) PROVE keys[g][i] # <<>> /\ <<g, keys[g][i]>> \in DOMAIN data
    <3>1. keys[g][i] = Trials[i] /\ Trials[i] \in Args
      BY <1>5, TrialFacts
    <3>2. \A a \in Args : a # <<>>
      <4>1. \A a \in Grid : a # <<>>
        <5>1. Grid \subseteq {0, 1} \X {0, 1} \X {0, 1}
          BY TriesAssumption, ElementOfSeq, LenProperties DEF Grid
        <5>2. \A a \in {0, 1} \X {0, 1} \X {0, 1} : a # <<>>
          OBVIOUS
        <5> QED BY <5>1, <5>2
      <4> QED BY <4>1 DEF Args, Fp32, Skipped, LeastPrecise
    <3> QED BY <1>6, <1>8, <3>1, <3>2
  <2>2. ASSUME NEW i \in 1..Len(keys[g])
        PROVE  total(keys[g][i]) \in Nat /\ times(keys[g][i]) \in Nat /\ times(keys[g][i]) > 0
    BY <1>7, <2>1
  <2> QED BY <1>5, <2>1, <2>2 DEF CanCompare
<1>10. ASSUME NEW a \in Loop!ArgsIn(file, g), NEW b \in Loop!ArgsIn(file, g)
       PROVE  Loop!Faster(g, a, b) <=> Quicker(g, a, b)
  <2>1. /\ times(a) = Cardinality(R(a)) /\ total(a) = Loop!TimeOf(R(a))
        /\ times(b) = Cardinality(R(b)) /\ total(b) = Loop!TimeOf(R(b))
    BY <1>7, <1>8
  <2>2. Loop!Faster(g, a, b) <=>
          Loop!TimeOf(R(a)) * Cardinality(R(b)) < Loop!TimeOf(R(b)) * Cardinality(R(a))
    BY DEF Loop!Faster, Loop!TotalTime, Loop!Calls, Loop!Cardinality, Cardinality
  <2> QED BY <2>1, <2>2 DEF Quicker
<1> QED BY <1>6, <1>7, <1>8, <1>9, <1>10
\* Of the arguments that are not slower than others, or were tried before those
\* that are not quicker, the reader has one: best_id_argument is Fastest.
LEMMA BestIsFastest ==
  ASSUME IInv, ReadersKnow, pc = "readOpt", ~ CanRead(optFile)
  PROVE  \A g \in DOMAIN keys :
           IF BestIdArgument(g) = <<>> THEN Loop!Acceptable(g) = {}
           ELSE BestIdArgument(g) \in Loop!Fastest(g) /\ BestIdArgument(g) \in Args
<1> TAKE g \in DOMAIN keys
<1> DEFINE file == ReadableOf(optFile)
           n == Len(keys[g])
           args == Loop!ArgsIn(file, g)
           a == BestIdArgument(g)
<1>1. /\ CanCompare(g)
      /\ args = {keys[g][i] : i \in 1..n}
      /\ \A b \in args : Loop!WithinThreshold(file, g, b) <=> Allowed(g, b)
      /\ \A b, c \in args : Loop!Faster(g, b, c) <=> Quicker(g, b, c)
  BY DataSaysTheSame
<1>2. n \in Nat /\ KeysOf(g) = keys[g]
  BY <1>1 DEF CanCompare, KeysOf
<1>3. \A i \in 1..n : keys[g][i] = Trials[i] /\ i \in 1..Len(Trials)
  BY KeysOfData
<1>4. a = BestAfter(g)[n]
  BY <1>2 DEF BestIdArgument
<1>5. IF a = <<>> THEN \A j \in 1..n : ~ Allowed(g, keys[g][j]) ELSE IsBestOf(g, a, n)
  BY <1>1, <1>2, <1>4, BestAfterChooses
<1>6. Loop!Acceptable(g) = {b \in args : Allowed(g, b)}
  BY <1>1 DEF Loop!Acceptable
<1>7. CASE a = <<>>
  BY <1>1, <1>5, <1>6, <1>7
<1>8. CASE a # <<>>
  <2> HIDE DEF args, a
  <2>1. PICK m \in 1..n :
          /\ a = keys[g][m] /\ Allowed(g, a)
          /\ \A j \in 1..n : Allowed(g, keys[g][j]) =>
               /\ j < m => Quicker(g, a, keys[g][j])
               /\ j > m => ~ Quicker(g, keys[g][j], a)
    BY <1>5, <1>8 DEF IsBestOf
  <2>2. a \in Loop!Acceptable(g)
    BY <1>1, <1>6, <2>1
  <2>3. ASSUME NEW b \in Loop!Acceptable(g) \ {a}
        PROVE  \/ Loop!Faster(g, a, b)
               \/ ~ Loop!Faster(g, b, a) /\ Loop!Rank(a) < Loop!Rank(b)
    <3>1. PICK j \in 1..n : b = keys[g][j]
      BY <1>1, <1>6, <2>3
    <3>2. Allowed(g, b) /\ a \in args /\ b \in args
      BY <1>6, <2>2, <2>3
    <3>3. CASE j < m
      BY <1>1, <2>1, <3>1, <3>2, <3>3
    <3>4. CASE j > m
      <4>1. ~ Loop!Faster(g, b, a)
        BY <1>1, <2>1, <3>1, <3>2, <3>4
      <4>2. a = Trials[m] /\ b = Trials[j] /\ m \in 1..Len(Trials) /\ j \in 1..Len(Trials)
        BY <1>3, <2>1, <3>1
      <4>3. m < j
        BY <3>4
      <4>4. Loop!Rank(a) < Loop!Rank(b)
        BY <4>2, <4>3, TrialsInOrder
      <4> QED BY <4>1, <4>4
    <3>5. CASE j = m
      BY <2>1, <2>3, <3>1, <3>5
    <3>6. j < m \/ j > m \/ j = m
      BY <1>2
    <3> QED BY <3>3, <3>4, <3>5, <3>6
  <2>4. a \in Loop!Fastest(g)
    BY <2>2, <2>3 DEF Loop!Fastest
  <2>5. a \in Args
    BY <1>3, <2>1, TrialFacts
  <2> QED BY <1>8, <2>4, <2>5 DEF a
<1> QED BY <1>7, <1>8

\* fp32 comes first in the file, so it is there when (1,1,0) is.
LEMMA ComparesDefined == IInv /\ pc = "readOpt" => ComparesUndefined = {}
<1> SUFFICES ASSUME IInv, pc = "readOpt", NEW g \in DOMAIN keys PROVE <<g, Fp32>> \in DOMAIN data
  BY DEF ComparesUndefined, TriesSkipped
<1>1. /\ line \in Nat /\ line <= Len(optFile) /\ DOMAIN keys = Ids(optFile, line)
      /\ line > 0 => <<tuning, Fp32>> \in DOMAIN data
  BY DEF IInv, TypeOK, ReaderInv
<1>2. PICK i \in 1..line : g = optFile[i].gemm
  BY <1>1 DEF Ids
<1>3. i \in DOMAIN optFile /\ line > 0
  BY <1>1, FilesTyped DEF IInv
<1>4. g = tuning
  BY <1>2, <1>3 DEF IInv, OptFileInv
<1> QED BY <1>1, <1>3, <1>4

\* The loop over runned_funcID_list is the step of SbSTuning.
LEMMA GetBestArgumentsIsOneStep ==
  IInv /\ ReadersKnow /\ GetBestArguments => Loop!ReadOptimizedDataFile
<1> SUFFICES ASSUME IInv, ReadersKnow, GetBestArguments PROVE Loop!ReadOptimizedDataFile
  OBVIOUS
<1> DEFINE file == ReadableOf(optFile)
<1>1. /\ pc = "readOpt" /\ ~ CanRead(optFile) /\ pc' = "readErr" /\ optFile' = <<>>
      /\ UNCHANGED <<code, errFile>>
      /\ toRepair' = {g \in DOMAIN keys : BestIdArgument(g) = <<>>}
      /\ best' = [g \in DOMAIN keys |->
                    IF BestIdArgument(g) # <<>> THEN BestIdArgument(g)
                    ELSE IF g \in banned' THEN Fp32 ELSE LeastPrecise]
  BY DEF GetBestArguments, Found
<1>2. banned' = banned \cup SlowWhenSkipped
  <2>1. ComparesUndefined = {}
    BY <1>1, ComparesDefined
  <2> QED BY <2>1 DEF GetBestArguments
<1>3. DOMAIN keys = Loop!IdsIn(file)
  <2>1. file = Seen(optFile, line)
    BY <1>1, OptFileRead
  <2>2. DOMAIN keys = Ids(optFile, line)
    BY <1>1 DEF IInv, ReaderInv
  <2> QED BY <2>1, <2>2 DEF Ids, Seen, Loop!IdsIn
<1>4. \A g \in DOMAIN keys :
        IF BestIdArgument(g) = <<>> THEN Loop!Acceptable(g) = {}
        ELSE BestIdArgument(g) \in Loop!Fastest(g) /\ BestIdArgument(g) \in Args
  BY <1>1, BestIsFastest
<1>5. \A g : Loop!Fastest(g) \subseteq Loop!Acceptable(g)
  BY DEF Loop!Fastest
<1>6. \A g \in DOMAIN keys : BestIdArgument(g) = <<>> <=> Loop!Acceptable(g) = {}
  BY <1>4, <1>5
<1>7. SlowWhenSkipped = {g \in Loop!IdsIn(file) : Loop!SlowWhenSkipped(g)}
  <2>1. SlowWhenSkipped = {g \in DOMAIN keys : (\E i \in DOMAIN keys[g] : keys[g][i] = Skipped) /\ Quicker(g, Fp32, Skipped)}
    <3>1. ComparesUndefined = {}
      BY <1>1, ComparesDefined
    <3> QED BY <3>1 DEF SlowWhenSkipped, TriesSkipped
  <2>2. ASSUME NEW g \in DOMAIN keys
        PROVE  (\E i \in DOMAIN keys[g] : keys[g][i] = Skipped) /\ Quicker(g, Fp32, Skipped)
                 <=> Loop!SlowWhenSkipped(g)
    <3> DEFINE args == Loop!ArgsIn(file, g)
    <3>1. /\ args = {keys[g][i] : i \in 1..Len(keys[g])}
          /\ \A a, b \in args : Loop!Faster(g, a, b) <=> Quicker(g, a, b)
          /\ \A a \in args : <<g, a>> \in DOMAIN data
      BY <1>1, DataSaysTheSame
    <3>2. DOMAIN keys[g] = 1..Len(keys[g]) /\ \A a : <<g, a>> \in KeysIn(Seen(optFile, line)) <=> a \in args
      BY <1>1, <3>1, KeysOfData
    <3> HIDE DEF args
    <3>3. (\E i \in DOMAIN keys[g] : keys[g][i] = Skipped) <=> Skipped \in args
      BY <3>1, <3>2
    <3>4. Skipped \in args => Fp32 \in args
      <4> SUFFICES ASSUME Skipped \in args PROVE Fp32 \in args
        OBVIOUS
      <4>1. g \notin ComparesUndefined /\ g \in TriesSkipped
        BY <1>1, <3>3, ComparesDefined DEF TriesSkipped
      <4>2. <<g, Fp32>> \in DOMAIN data
        BY <4>1 DEF ComparesUndefined
      <4>3. DOMAIN data = KeysIn(Seen(optFile, line))
        BY <1>1 DEF ReadersKnow, Gathered
      <4> QED BY <3>2, <4>2, <4>3
    <3>5. Loop!SlowWhenSkipped(g) <=> Skipped \in args /\ Loop!Faster(g, Fp32, Skipped)
      BY DEF Loop!SlowWhenSkipped, Loop!Skipped, Loop!Fp32, Skipped, Fp32, args
    <3> QED BY <3>1, <3>3, <3>4, <3>5
  <2> QED BY <1>3, <2>1, <2>2
<1>8. best' \in [Loop!IdsIn(file) -> Loop!Args]
  <2>1. Loop!Args = Args
    BY DEF Loop!Args, Args, Loop!Fp32, Loop!Skipped, Loop!LeastPrecise, Fp32, Skipped, LeastPrecise
  <2>2. Fp32 \in Args /\ LeastPrecise \in Args
    BY DEF Args
  <2> QED BY <1>1, <1>3, <1>4, <2>1, <2>2
<1>9. \A g \in Loop!IdsIn(file) :
        IF Loop!Acceptable(g) # {} THEN best'[g] \in Loop!Fastest(g)
        ELSE best'[g] = IF g \in banned' THEN Fp32 ELSE LeastPrecise
  BY <1>1, <1>3, <1>4, <1>6
<1>10. toRepair' = {g \in Loop!IdsIn(file) : Loop!Acceptable(g) = {}}
  BY <1>1, <1>3, <1>6
<1>11. ReadableOf(optFile') = {} /\ ReadableOf(errFile') = ReadableOf(errFile) /\ UNCHANGED <<checked, tuning>>
  <2>1. DOMAIN optFile' = {}
    BY <1>1
  <2> QED BY <1>1, <2>1 DEF ReadableOf, Readable, code
<1> QED BY <1>1, <1>2, <1>7, <1>8, <1>9, <1>10, <1>11
        DEF Loop!ReadOptimizedDataFile, Loop!FlushFile, Loop!driver, Loop!code, Loop!Fp32, Loop!LeastPrecise, Fp32, LeastPrecise

\* When no key is left, the loop over data has done what SbSTuning does in a
\* step.
LEMMA EndKeepingIsOneStep ==
  IInv /\ ReadersKnow /\ EndKeeping => Loop!ReadLastPassSeperateError
<1> SUFFICES ASSUME IInv, ReadersKnow, EndKeeping PROVE Loop!ReadLastPassSeperateError
  OBVIOUS
<1> DEFINE file == ReadableOf(errFile)
           ids == Loop!IdsIn(file)
           last == [g \in ids |-> checked[g]]
<1>1. /\ pc = "keep" /\ pc' = "done" /\ data = <<>> /\ errFile' = <<>>
      /\ UNCHANGED <<call, tried, code, optFile, reader, memory, history>>
  BY DEF EndKeeping
<1>2. UNCHANGED <<checked, tuning, optFile, best, toRepair, banned, chosen>>
  BY <1>1 DEF code, memory, history
<1>3. DataIds = {}
  BY <1>1 DEF DataIds
<1>4. /\ best = [g \in DOMAIN chosen[1] \cup ids |->
                    IF g \in ids THEN Loop!KeptArgs(g, checked[g]) ELSE chosen[1][g]]
      /\ toRepair = chosen[2] \cup {g \in ids : ~ Loop!WithinThreshold(file, g, checked[g])}
  BY <1>1, <1>3 DEF ReadersKnow, Kept
<1>5. \A r \in file : r.args = checked[r.gemm] /\ r.gemm \in DOMAIN checked
  <2>1. \A i \in DOMAIN errFile : errFile[i].args = checked[errFile[i].gemm] /\ errFile[i].gemm \in DOMAIN checked
    BY FilesTyped DEF IInv, ReadersKnow, RecordsInOrder, CheckRecords
  <2> QED BY <2>1 DEF ReadableOf
<1>6. \A g \in ids : Loop!ArgsIn(file, g) = {checked[g]} /\ checked[g] \in Args
  <2> SUFFICES ASSUME NEW g \in ids PROVE Loop!ArgsIn(file, g) = {checked[g]} /\ checked[g] \in Args
    OBVIOUS
  <2> HIDE DEF file
  <2>1. PICK r \in file : r.gemm = g
    BY DEF Loop!IdsIn
  <2>2. checked[g] \in Args
    BY <1>5, <2>1 DEF IInv, TypeOK
  <2>3. Loop!ArgsIn(file, g) = {checked[g]}
    BY <1>5, <2>1 DEF Loop!ArgsIn
  <2> QED BY <2>2, <2>3
<1>7. last \in [ids -> Loop!Args] /\ \A g \in ids : last[g] \in Loop!ArgsIn(file, g)
  <2>1. Loop!Args = Args
    BY DEF Loop!Args, Args, Loop!Fp32, Loop!Skipped, Loop!LeastPrecise, Fp32, Skipped, LeastPrecise
  <2> QED BY <1>6, <2>1
<1> HIDE DEF ids
<1>8. best' = [g \in DOMAIN chosen[1] \cup ids |->
                  IF g \in ids THEN Loop!KeptArgs(g, last[g]) ELSE chosen[1][g]]
  BY <1>2, <1>4
<1>9. toRepair' = chosen[2] \cup {g \in ids : \E a \in Loop!ArgsIn(file, g) : ~ Loop!WithinThreshold(file, g, a)}
  BY <1>2, <1>4, <1>6
<1>10. ReadableOf(errFile') = {} /\ ReadableOf(optFile') = ReadableOf(optFile)
  <2>1. DOMAIN errFile' = {}
    BY <1>1
  <2> QED BY <1>2, <2>1 DEF ReadableOf, Readable
<1>11. \E l \in [ids -> Loop!Args] :
         /\ \A g \in ids : l[g] \in Loop!ArgsIn(file, g)
         /\ best' = [g \in DOMAIN chosen[1] \cup ids |->
                        IF g \in ids THEN Loop!KeptArgs(g, l[g]) ELSE chosen[1][g]]
  <2> HIDE DEF last
  <2> QED BY <1>7, <1>8
<1> QED BY <1>1, <1>2, <1>9, <1>10, <1>11
        DEF Loop!ReadLastPassSeperateError, Loop!FlushFile, Loop!driver, Loop!code, ids

\* Until its end a loop is not seen outside.
LEMMA OtherStepsStutter ==
  /\ IInv /\ ReadersKnow /\ (ReadOptimizedRecord \/ ReadErrorRecord \/ EndErrorFile \/ KeepArguments) => UNCHANGED Loop!vars
  /\ UNCHANGED vars => UNCHANGED Loop!vars
<1>1. ASSUME UNCHANGED <<checked, tuning, optFile, errFile, banned>>,
             UNCHANGED (CASE pc = "execute" -> "exec" [] pc = "readOpt" -> "readOpt"
                          [] pc = "done" -> "writeBan" [] OTHER -> "readLast"),
             UNCHANGED (IF pc = "keep" THEN chosen[1] ELSE best),
             UNCHANGED (IF pc = "keep" THEN chosen[2] ELSE toRepair)
      PROVE  UNCHANGED Loop!vars
  <2>1. UNCHANGED <<ReadableOf(optFile), ReadableOf(errFile)>>
    BY <1>1 DEF ReadableOf, Readable
  <2> QED BY <1>1, <2>1 DEF Loop!vars, Loop!driver, Loop!files, Loop!memory, Loop!code
<1>2. ASSUME IInv, ReadersKnow, ReadOptimizedRecord \/ ReadErrorRecord PROVE UNCHANGED Loop!vars
  <2>1. UNCHANGED <<pc, code, files, memory, history>> /\ pc # "keep"
    BY <1>2 DEF ReadOptimizedRecord, ReadErrorRecord
  <2>2. UNCHANGED <<pc, checked, tuning, optFile, errFile, best, toRepair, banned>>
    BY <2>1 DEF code, files, memory
  <2> QED BY <1>1, <2>1, <2>2
<1>3. ASSUME IInv, ReadersKnow, EndErrorFile PROVE UNCHANGED Loop!vars
  <2>1. UNCHANGED <<code, files, memory, history>> /\ pc = "readErr" /\ pc' = "keep"
    BY <1>3 DEF EndErrorFile
  <2>2. UNCHANGED <<checked, tuning, optFile, errFile, best, toRepair, banned, chosen>>
    BY <2>1 DEF code, files, memory, history
  <2>3. chosen = <<best, toRepair>>
    BY <1>3, <2>1 DEF ReadersKnow, Kept
  <2> QED BY <1>1, <2>1, <2>2, <2>3
<1>4. ASSUME KeepArguments PROVE UNCHANGED Loop!vars
  <2>1. UNCHANGED <<pc, code, files, banned, history>> /\ pc = "keep"
    BY <1>4 DEF KeepArguments
  <2>2. UNCHANGED <<checked, tuning, optFile, errFile, chosen>>
    BY <2>1 DEF code, files, history
  <2> QED BY <1>1, <2>1, <2>2
<1>5. ASSUME UNCHANGED vars PROVE UNCHANGED Loop!vars
  <2>1. UNCHANGED <<pc, checked, tuning, optFile, errFile, best, toRepair, banned, chosen>>
    BY <1>5 DEF vars, code, files, memory, history
  <2> QED BY <1>1, <2>1
<1> QED BY <1>2, <1>3, <1>4, <1>5

----------------------------------------------------------------------------
(* Theorems.                                                               *)

\* Each file and each map of a reader holds the GEMMs IInv says, through
\* executions, exits, both readers' loops and the loop that keeps arguments.
THEOREM ReadersInvariance == Spec => []IInv
<1>1. Init => IInv
  BY InitInv
<1>2. IInv /\ [Next]_vars => IInv'
  BY StepInv
<1> QED BY <1>1, <1>2, PTL DEF Spec

\* read_optimized_data_file never compares (1,1,0) with a record of fp32 that
\* is not there, wherever the execution or its own loop has stopped.
THEOREM ComparesWithRecord == Spec => []NeverWithoutFp32
<1>1. IInv => NeverWithoutFp32
  BY ComparesDefined DEF NeverWithoutFp32
<1> QED BY <1>1, ReadersInvariance, PTL

\* When all records can be read, best_arguments holds the GEMMs on file: its
\* size is the index of the next GEMM to tune.
THEOREM ArgumentsForAll == Spec => []GivesAllReadable
<1>1. IInv => GivesAllReadable
  BY DEF IInv, ReaderInv, GivesAllReadable
<1> QED BY <1>1, ReadersInvariance, PTL

\* What a reader holds is what the records before its line say: the total time,
\* the number and the largest error of each key, the arguments of a GEMM in the
\* order of the trials, and, in whatever order the hash map gives them, the
\* arguments kept and the GEMMs listed for repair.
THEOREM ReadersKnowInvariance == Spec => []ReadersKnow
<1>1. Init => ReadersKnow
  BY InitKnow
<1>2. IInv /\ ReadersKnow /\ [Next]_vars => ReadersKnow'
  BY StepKnow
<1> QED BY <1>1, <1>2, ReadersInvariance, PTL DEF Spec

\* The readers implement two steps of the tuning loop: record by record, and
\* with a running minimum, they choose, ban, keep and list for repair what
\* SbSTuning says of the set of the readable records.
THEOREM ReadersRefineLoop == Spec => ReadsInOneStep
<1>1. IInv /\ ReadersKnow /\ [Next]_vars =>
        [pc # "execute" => Loop!ReadOptimizedDataFile \/ Loop!ReadLastPassSeperateError]_(Loop!vars)
  <2> SUFFICES ASSUME IInv, ReadersKnow, [Next]_vars, pc # "execute"
               PROVE  Loop!ReadOptimizedDataFile \/ Loop!ReadLastPassSeperateError \/ UNCHANGED Loop!vars
    OBVIOUS
  <2>1. CASE Execution
    BY <2>1 DEF Execution, Check, Try, RunPlain, ExitOnNaN
  <2>2. CASE Reading
    BY <2>2, GetBestArgumentsIsOneStep, OtherStepsStutter DEF Reading
  <2>3. CASE Keeping
    BY <2>3, EndKeepingIsOneStep, OtherStepsStutter DEF Keeping
  <2>4. CASE UNCHANGED vars
    BY <2>4, OtherStepsStutter
  <2> QED BY <2>1, <2>2, <2>3, <2>4 DEF Next
<1> QED BY <1>1, ReadersInvariance, ReadersKnowInvariance, PTL DEF Spec, ReadsInOneStep
=============================================================================
