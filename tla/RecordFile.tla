----------------------------- MODULE RecordFile -----------------------------
(***************************************************************************)
(* The two data files, record by record: an execution of the instrumented  *)
(* program appends to them, and read_optimized_data_file and               *)
(* read_last_pass_seperate_error of the next pass read them.  SbSTuning    *)
(* has each reader as one step over a set of records.                      *)
(*                                                                         *)
(* A reader's loop ends at the end of the file and also at a record that   *)
(* operator>> cannot read: an error printed as inf or nan, as that of a    *)
(* product of zeros, 0/0, or of a half-precision product that overflows.   *)
(***************************************************************************)
EXTENDS Integers, Sequences, FiniteSets

CONSTANTS
    N,           \* GEMMs in runned_funcID_list
    Trace,       \* the GEMMs an execution calls, in order
    Tries,       \* the arguments a tuning call tries after fp32, in order
    Times,       \* measured running times
    Errs,        \* finite errors
    Unreadable,  \* an infinite error, or none at all
    Threshold    \* max_err_threshold

Gemms == 1..N
Fp32 == <<-1, -1, -1>>
Skipped == <<1, 1, 0>>
LeastPrecise == <<0, 0, 0>>
Grid == {Tries[i] : i \in DOMAIN Tries}
Args == {Fp32, Skipped, LeastPrecise} \cup Grid

\* Where the three nested loops over 0..1 come to arguments.
Place(a) == 4 * a[1] + 2 * a[2] + a[3]

ASSUME NAssumption == N \in Nat \ {0}
ASSUME TraceAssumption == Trace \in Seq(Gemms) \ {<<>>}
ASSUME TriesAssumption ==
    /\ Tries \in Seq({0, 1} \X {0, 1} \X {0, 1})
    /\ \A i, j \in DOMAIN Tries : i < j => Place(Tries[i]) < Place(Tries[j])
ASSUME MeasureAssumption ==
    Times \subseteq Nat /\ Errs \subseteq Nat /\ Threshold \in Nat /\ Unreadable \notin Nat

VARIABLES
    pc,        \* the execution, or the loop or step of the pass
    call,      \* the call of the trace that runs
    tried,     \* trials a running tuning call has made
    checked,   \* the checker calls of the program and their arguments
    tuning,    \* the GEMM whose call is a tuning call, 0 if none
    optFile,   \* optimized_data.txt
    errFile,   \* single_pass_err.txt
    line,      \* records a reader has read
    keys,      \* funcid_keys: the arguments seen of each GEMM
    data,      \* data: by GEMM and arguments
    best,      \* best_arguments
    toRepair,  \* to_repair_funcID_list
    banned,    \* baned_id_settings
    onFile,    \* history: the GEMMs with a record in either file
    garbled,   \* history: whether one of the records is unreadable
    chosen     \* history: best_arguments and the list, between the two readers

code == <<checked, tuning>>
files == <<optFile, errFile>>
reader == <<line, keys, data>>
memory == <<best, toRepair, banned>>
history == <<onFile, garbled, chosen>>
vars == <<pc, call, tried, code, files, reader, memory, history>>

----------------------------------------------------------------------------
(* The execution.                                                          *)

\* A tuning call measures fp32 first.
TrialsFp32Last == Tries \o <<Fp32>>
Trials == <<Fp32>> \o Tries

NextCall == IF call < Len(Trace) THEN "execute" ELSE "readOpt"

Written(r) ==
    /\ onFile' = onFile \cup {r.gemm}
    /\ garbled' = (garbled \/ r.err = Unreadable)
    /\ chosen' = chosen

\* A checker call appends a record to single_pass_err.txt.
Check ==
    /\ pc = "execute"
    /\ Trace[call] \in DOMAIN checked
    /\ \E err \in Errs \cup {Unreadable} :
        LET g == Trace[call]
            r == [call |-> call, gemm |-> g, args |-> checked[g], err |-> err]
        IN  errFile' = Append(errFile, r) /\ Written(r)
    /\ pc' = NextCall
    /\ call' = call + 1
    /\ UNCHANGED <<tried, code, optFile, reader, memory>>

\* A trial of a tuning call appends one to optimized_data.txt.
Try ==
    /\ pc = "execute"
    /\ Trace[call] = tuning
    /\ \E time \in Times, err \in Errs \cup {Unreadable} :
        LET r == [call |-> call, gemm |-> tuning, args |-> Trials[tried + 1], time |-> time, err |-> err]
        IN  optFile' = Append(optFile, r) /\ Written(r)
    /\ IF tried + 1 < Len(Trials)
       THEN tried' = tried + 1 /\ UNCHANGED <<pc, call>>
       ELSE tried' = 0 /\ pc' = NextCall /\ call' = call + 1
    /\ UNCHANGED <<code, errFile, reader, memory>>

\* Other GEMMs run as they are.
RunPlain ==
    /\ pc = "execute"
    /\ Trace[call] \notin DOMAIN checked \cup {tuning}
    /\ pc' = NextCall
    /\ call' = call + 1
    /\ UNCHANGED <<tried, code, files, reader, memory, history>>

\* A NaN in a result ends the program before its record is written.
ExitOnNaN ==
    /\ pc = "execute"
    /\ Trace[call] \in DOMAIN checked \cup {tuning}
    /\ pc' = "readOpt"
    /\ UNCHANGED <<call, tried, code, files, reader, memory, history>>

----------------------------------------------------------------------------
(* The readers.                                                            *)

\* fs >> id >> runtime_counter >> ... >> max_err
Readable(r) == r.err # Unreadable
CanRead(file) == line < Len(file) /\ Readable(file[line + 1])

LastError(err, new) == new
Larger(err, new) == IF new > err THEN new ELSE err

\* A mean time is kept as a total and a number of times, so it is exact.
CombinedOnce(d, r) ==
    [total |-> d.total + r.time, err |-> Larger(d.err, r.err), times |-> d.times]
Combined(d, r) ==
    [total |-> d.total + r.time, err |-> Larger(d.err, r.err), times |-> d.times + 1]
Entered(r) == [total |-> r.time, err |-> r.err, times |-> 1]

Extended(f, k, x) == [j \in DOMAIN f \cup {k} |-> IF j = k THEN x ELSE f[j]]
KeysOf(g) == IF g \in DOMAIN keys THEN keys[g] ELSE <<>>

ReadOptimizedRecord ==
    /\ pc = "readOpt"
    /\ CanRead(optFile)
    /\ LET r == optFile[line + 1]
           key == <<r.gemm, r.args>>
       IN  IF key \in DOMAIN data
           THEN data' = [data EXCEPT ![key] = Combined(@, r)] /\ keys' = keys
           ELSE /\ data' = Extended(data, key, Entered(r))
                /\ keys' = Extended(keys, r.gemm, Append(KeysOf(r.gemm), r.args))
    /\ line' = line + 1
    /\ UNCHANGED <<pc, call, tried, code, files, memory, history>>

Quicker(g, a, b) == data[<<g, a>>].total * data[<<g, b>>].times < data[<<g, b>>].total * data[<<g, a>>].times
Allowed(g, a) == data[<<g, a>>].err <= Threshold

\* best_id_argument after the first i keys, <<>> as long as there is none.
BestAfter(g) ==
    LET b[i \in 0..Len(KeysOf(g))] ==
            IF i = 0 THEN <<>>
            ELSE IF Allowed(g, keys[g][i]) /\ (b[i - 1] = <<>> \/ Quicker(g, keys[g][i], b[i - 1]))
                 THEN keys[g][i]
                 ELSE b[i - 1]
    IN  b
BestIdArgument(g) == BestAfter(g)[Len(KeysOf(g))]

TriesSkipped == {g \in DOMAIN keys : \E i \in DOMAIN keys[g] : keys[g][i] = Skipped}
\* data[fp32_id_argument][0] is read from an empty vector if it was not there.
ComparesUndefined == {g \in TriesSkipped : <<g, Fp32>> \notin DOMAIN data}
SlowWhenSkipped == {g \in TriesSkipped \ ComparesUndefined : Quicker(g, Fp32, Skipped)}

\* The GEMMs that are given arguments: those with allowed ones and the others.
FoundAllowed == {g \in DOMAIN keys : BestIdArgument(g) # <<>>}
Found == DOMAIN keys

\* The loop over runned_funcID_list.  The file is emptied.
GetBestArguments ==
    /\ pc = "readOpt"
    /\ ~ CanRead(optFile)
    /\ pc' = "readErr"
    /\ \E unlucky \in SUBSET ComparesUndefined : banned' = banned \cup SlowWhenSkipped \cup unlucky
    /\ best' = [g \in Found |->
                    IF BestIdArgument(g) # <<>> THEN BestIdArgument(g)
                    ELSE IF g \in banned' THEN Fp32 ELSE LeastPrecise]
    /\ toRepair' = {g \in DOMAIN keys : BestIdArgument(g) = <<>>}
    /\ chosen' = <<best', toRepair'>>
    /\ optFile' = <<>>
    /\ line' = 0
    /\ keys' = <<>>
    /\ data' = <<>>
    /\ UNCHANGED <<call, tried, code, errFile, onFile, garbled>>

\* The mean times of the checker calls are computed and not used.
ReadErrorRecord ==
    /\ pc = "readErr"
    /\ CanRead(errFile)
    /\ LET r == errFile[line + 1]
           key == <<r.gemm, r.args>>
       IN  data' = Extended(data, key, IF key \in DOMAIN data THEN Larger(data[key], r.err) ELSE r.err)
    /\ line' = line + 1
    /\ UNCHANGED <<pc, call, tried, code, files, keys, memory, history>>

EndErrorFile ==
    /\ pc = "readErr"
    /\ ~ CanRead(errFile)
    /\ pc' = "keep"
    /\ UNCHANGED <<call, tried, code, files, reader, memory, history>>

\* The loop over data, in the order of a hash map; at its end the file is
\* emptied.
KeepArguments ==
    /\ pc = "keep"
    /\ \E key \in DOMAIN data :
        LET g == key[1]
            failed == data[key] > Threshold
        IN  /\ best' = Extended(best, g, IF failed /\ g \in banned THEN Fp32 ELSE key[2])
            /\ toRepair' = IF failed THEN toRepair \cup {g} ELSE toRepair
            /\ data' = [k \in DOMAIN data \ {key} |-> data[k]]
    /\ UNCHANGED <<pc, call, tried, code, files, line, keys, banned, history>>

EndKeeping ==
    /\ pc = "keep"
    /\ data = <<>>
    /\ pc' = "done"
    /\ errFile' = <<>>
    /\ UNCHANGED <<call, tried, code, optFile, reader, memory, history>>

----------------------------------------------------------------------------

\* A pass has emitted a program with checker calls for the first GEMMs, with
\* any arguments, and a tuning call for the next.
Init ==
    /\ pc = "execute"
    /\ call = 1
    /\ tried = 0
    /\ \E k \in 0..N : checked \in [1..k -> Args] /\ tuning = IF k = N THEN 0 ELSE k + 1
    /\ optFile = <<>>
    /\ errFile = <<>>
    /\ line = 0
    /\ keys = <<>>
    /\ data = <<>>
    /\ best = <<>>
    /\ toRepair = {}
    /\ banned \in SUBSET Gemms
    /\ onFile = {}
    /\ garbled = FALSE
    /\ chosen = <<best, toRepair>>

Execution == Check \/ Try \/ RunPlain \/ ExitOnNaN
Reading == ReadOptimizedRecord \/ GetBestArguments \/ ReadErrorRecord \/ EndErrorFile
Keeping == KeepArguments \/ EndKeeping
Next == Execution \/ Reading \/ Keeping

Spec == Init /\ [][Next]_vars

----------------------------------------------------------------------------
(* Properties.                                                             *)

\* The GEMMs of the first n records of a file.
Ids(file, n) == {file[i].gemm : i \in 1..n}
AllIds(file) == Ids(file, Len(file))
DataIds == {key[1] : key \in DOMAIN data}
AllReadable(file) == \A i \in DOMAIN file : Readable(file[i])

TuneRecords == [call : Nat, gemm : 0..N, args : Args, time : Times, err : Errs \cup {Unreadable}]
CheckRecords == [call : Nat, gemm : DOMAIN checked, args : Args, err : Errs \cup {Unreadable}]

TypeOK ==
    /\ pc \in {"execute", "readOpt", "readErr", "keep", "done"}
    /\ call \in Nat \ {0}
    /\ tried \in 0..(Len(Trials) - 1)
    /\ tuning \in 0..N
    /\ garbled \in BOOLEAN
    /\ line \in Nat
    /\ optFile \in Seq(TuneRecords)
    /\ errFile \in Seq(CheckRecords)
    /\ \A g \in DOMAIN checked : checked[g] \in Args

\* A tuning call's first record is fp32's, and all are of one GEMM.
OptFileInv ==
    /\ pc = "execute" /\ tried > 0 => optFile # <<>>
    /\ optFile # <<>> => optFile[1].args = Fp32
    /\ \A i \in DOMAIN optFile : optFile[i].gemm = tuning

\* What the history variables record, as long as both files are there.
HistoryInv ==
    pc \in {"execute", "readOpt"} =>
        /\ onFile = AllIds(optFile) \cup AllIds(errFile)
        /\ ~ garbled => AllReadable(optFile) /\ AllReadable(errFile)

\* Where each loop stands, and what it has gathered from the lines before.
ReaderInv ==
    /\ pc = "execute" => line = 0 /\ keys = <<>> /\ data = <<>>
    /\ pc = "readOpt" =>
        /\ line <= Len(optFile)
        /\ DOMAIN keys = Ids(optFile, line)
        /\ line > 0 => <<tuning, Fp32>> \in DOMAIN data
        /\ DataIds \subseteq DOMAIN keys
    /\ pc = "readErr" =>
        /\ line <= Len(errFile)
        /\ DataIds = Ids(errFile, line)
        /\ ~ garbled => AllReadable(errFile) /\ onFile = DOMAIN best \cup AllIds(errFile)
    /\ pc = "keep" /\ ~ garbled => onFile = DOMAIN best \cup DataIds
    /\ pc = "done" /\ ~ garbled => onFile = DOMAIN best

\* The inductive invariant: which GEMMs each file and each map of a reader
\* holds, from the first record of a tuning call to the last argument kept.
IInv == TypeOK /\ OptFileInv /\ HistoryInv /\ ReaderInv

\* The records before the first that cannot be read.
ReadableOf(file) == {file[i] : i \in {j \in DOMAIN file : \A k \in 1..j : Readable(file[k])}}

\* The readers as the tuning loop sees them: a step each.
Loop == INSTANCE SbSTuning
            WITH Graphs <- {}, MayAbort <- TRUE, MaxSessions <- 1,
                 pc <- CASE pc = "execute" -> "exec"
                         [] pc = "readOpt" -> "readOpt"
                         [] pc = "done" -> "writeBan"
                         [] OTHER -> "readLast",
                 optData <- ReadableOf(optFile),
                 singleErr <- ReadableOf(errFile),
                 best <- IF pc = "keep" THEN chosen[1] ELSE best,
                 toRepair <- IF pc = "keep" THEN chosen[2] ELSE toRepair,
                 sessions <- 1, runs <- 0, idFile <- <<>>, banFile <- {},
                 related <- <<>>, shipped <- <<>>

\* What a reader has read after n lines.
Seen(file, n) == {file[i] : i \in 1..n}
KeysIn(records) == {<<r.gemm, r.args>> : r \in records}
AllRead(file) == \A i \in 1..line : Readable(file[i])

LargestError(err, records) ==
    (\E r \in records : err = r.err) /\ (\A r \in records : r.err <= err)
Combines(d, records) ==
    /\ d.times = Cardinality(records)
    /\ d.total = Loop!TimeOf(records)
    /\ LargestError(d.err, records)

\* No two records of the tuned GEMM are alike, so a set of them loses none, and
\* its arguments come up in the order of the trials.  A checked GEMM's records
\* have the arguments it is checked with.
RecordsInOrder ==
    /\ \A i, j \in DOMAIN optFile : optFile[i] = optFile[j] => i = j
    /\ \A i \in DOMAIN optFile :
           /\ \E k \in DOMAIN Trials : optFile[i].args = Trials[k]
           /\ i <= Len(Trials) => optFile[i].args = Trials[i]
           /\ pc = "execute" =>
                  \/ optFile[i].call < call
                  \/ optFile[i].call = call /\ \E k \in 1..tried : optFile[i].args = Trials[k]
    /\ pc = "execute" /\ Len(optFile) < Len(Trials) => tried = Len(optFile)
    /\ \A i \in DOMAIN errFile : errFile[i].args = checked[errFile[i].gemm]

\* data and funcid_keys hold what the lines read so far say of each key.
Gathered ==
    pc = "readOpt" =>
        /\ AllRead(optFile)
        /\ \A g \in DOMAIN keys :
               /\ keys[g] \in Seq(Args)
               /\ Len(keys[g]) = IF line < Len(Trials) THEN line ELSE Len(Trials)
               /\ \A i \in DOMAIN keys[g] : keys[g][i] = Trials[i]
        /\ DOMAIN data = KeysIn(Seen(optFile, line))
        /\ \A key \in DOMAIN data :
               Combines(data[key], Loop!RecordsOf(Seen(optFile, line), key[1], key[2]))

\* The second reader has the largest error of each key and, in any order, keeps
\* the arguments of one GEMM after the other, as SbSTuning keeps them all.
Kept ==
    /\ pc = "readErr" =>
           /\ chosen = <<best, toRepair>>
           /\ best = [g \in DOMAIN best |-> best[g]]
           /\ AllRead(errFile)
           /\ DOMAIN data = KeysIn(Seen(errFile, line))
           /\ \A key \in DOMAIN data :
                  LargestError(data[key], Loop!RecordsOf(Seen(errFile, line), key[1], key[2]))
    /\ pc = "keep" =>
           LET file == ReadableOf(errFile)
               kept == Loop!IdsIn(file) \ DataIds
           IN  /\ DOMAIN data \subseteq KeysIn(file)
               /\ \A key \in DOMAIN data :
                      ~ Loop!WithinThreshold(file, key[1], key[2]) <=> data[key] > Threshold
               /\ best = [g \in DOMAIN chosen[1] \cup kept |->
                              IF g \in kept THEN Loop!KeptArgs(g, checked[g]) ELSE chosen[1][g]]
               /\ toRepair = chosen[2] \cup
                      {g \in kept : ~ Loop!WithinThreshold(file, g, checked[g])}

\* What the readers hold is what the records before their line say.
ReadersKnow == RecordsInOrder /\ Gathered /\ Kept

\* The readers' loops choose, ban, keep and list for repair what SbSTuning says
\* the readable records ask for, whatever was measured, with several calls of a
\* GEMM, ties, exits and unreadable records.
ReadsInOneStep ==
    [][pc # "execute" => Loop!ReadOptimizedDataFile \/ Loop!ReadLastPassSeperateError]_(Loop!vars)

\* When (1,1,0) is compared with fp32 there is an fp32 record: data[...] does
\* not make an empty vector, wherever the execution or the reader stopped.
NeverWithoutFp32 == pc = "readOpt" => ComparesUndefined = {}

\* Without unreadable records every GEMM with a record is given arguments, so
\* that the size of best_arguments is the index of the next one to tune.
GivesAllReadable == pc = "done" /\ ~ garbled => DOMAIN best = onFile

\* The comment on optimized_func_num: the size of best_arguments is always the
\* number of GEMMs in the two files.
SizeIsNumberOnFile == pc = "done" => Cardinality(DOMAIN best) = Cardinality(onFile)
=============================================================================
