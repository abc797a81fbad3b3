----------------------------- MODULE SbSTuning -----------------------------
(***************************************************************************)
(* The step-by-step tuning loop of moTuner: the driver pass2_witharg.sh,   *)
(* the compiler pass TUNING that it runs once per iteration, the program   *)
(* that the pass instruments and the driver executes, and the pass Gen     *)
(* that generates the final code.  The parts talk through four files       *)
(* beside the bitcode: calledFuncID.txt, optimized_data.txt,               *)
(* single_pass_err.txt and ban_id.txt.                                     *)
(*                                                                         *)
(* A GEMM is named by its place in runned_funcID_list, so GEMM g is the    *)
(* g-th rocblas_gemm_ex call site the program reaches.  Call sites it      *)
(* never reaches are in no file and no pass touches them.                  *)
(***************************************************************************)
EXTENDS Integers, FiniteSets, Sequences, FiniteSetsExt

CONSTANTS
    N,            \* number of GEMM call sites the program reaches
    Trace,        \* the call sites in the order an execution calls them
    Grid,         \* argument triples (p1,p2,p3) that a tuning call tries
    Times,        \* measured running times
    Errs,         \* measured maximal errors
    Threshold,    \* max_err_threshold
    Graphs,       \* the data-flow graphs a program may have
    MayAbort,     \* whether an execution may exit(1) before its end
    MaxSessions   \* bound: times the user starts the whole driver

Gemms == 1..N
Fp32 == <<-1, -1, -1>>
Skipped == <<1, 1, 0>>
LeastPrecise == <<0, 0, 0>>
Args == {Fp32, Skipped, LeastPrecise} \cup Grid
Keys == {Fp32} \cup Grid

ASSUME NAssumption == N \in Nat \ {0}
\* GEMM g is the g-th call site to be reached for the first time.
ASSUME TraceAssumption ==
    /\ Trace \in Seq(Gemms)
    /\ \A g \in Gemms : \E p \in DOMAIN Trace : Trace[p] = g
    /\ \A p \in DOMAIN Trace : \A g \in 1..(Trace[p] - 1) :
           \E q \in 1..(p - 1) : Trace[q] = g
ASSUME GridAssumption ==
    /\ Grid \subseteq ({0, 1} \X {0, 1} \X {0, 1})
    /\ Skipped \in Grid
ASSUME MeasureAssumption ==
    Times \subseteq Nat /\ Errs \subseteq Nat /\ Threshold \in Nat
ASSUME GraphsAssumption == Graphs \subseteq [Gemms -> SUBSET Gemms]
ASSUME ModeAssumption == MayAbort \in BOOLEAN /\ MaxSessions \in Nat \ {0}

VARIABLES
    pc,         \* the step the driver, or the pass it runs, is at
    sessions,   \* sessions started so far
    runs,       \* executions of combine-new-new finished in this session
    idFile,     \* calledFuncID.txt
    banFile,    \* ban_id.txt
    optData,    \* optimized_data.txt: records of the GEMM being tuned
    singleErr,  \* single_pass_err.txt: records of the GEMMs with chosen args
    banned,     \* baned_id_settings
    best,       \* best_arguments
    toRepair,   \* to_repair_funcID_list
    related,    \* related_gemm_id_map, before it is adjusted
    checked,    \* emitted code: the checker calls and their arguments
    tuning,     \* emitted code: the GEMM whose call is a tuning call, 0 if none
    shipped     \* gemm_arg_m of Gen: the arguments in the final code

files == <<idFile, banFile, optData, singleErr>>
memory == <<banned, best, toRepair>>
code == <<checked, tuning>>
driver == <<sessions, runs>>
vars == <<pc, driver, files, memory, related, code, shipped>>

----------------------------------------------------------------------------
(* What the records in the two data files say.                             *)

TuneRecords == [call: DOMAIN Trace, gemm: Gemms, args: Args, time: Times, err: Errs]
CheckRecords == [call: DOMAIN Trace, gemm: Gemms, args: Args, err: Errs]

IdsIn(file) == {r.gemm : r \in file}
ArgsIn(file, g) == {r.args : r \in {s \in file : s.gemm = g}}
RecordsOf(file, g, a) == {r \in file : r.gemm = g /\ r.args = a}

\* Errors are combined by their maximum.
WithinThreshold(file, g, a) == \A r \in RecordsOf(file, g, a) : r.err <= Threshold

TimeOf(records) == MapThenSumSet(LAMBDA r : r.time, records)
TotalTime(g, a) == TimeOf(RecordsOf(optData, g, a))
Calls(g, a) == Cardinality(RecordsOf(optData, g, a))

\* Times are combined by their mean; cross-multiplied here.
Faster(g, a, b) == TotalTime(g, a) * Calls(g, b) < TotalTime(g, b) * Calls(g, a)

\* The order in which a tuning call records its trials: the fp32 one, then
\* three nested loops over 0..1.
Rank(a) == IF a = Fp32 THEN 0 ELSE 1 + 4 * a[1] + 2 * a[2] + a[3]

Acceptable(g) == {a \in ArgsIn(optData, g) : WithinThreshold(optData, g, a)}

\* The acceptable arguments no others beat, the first recorded if times tie.
Fastest(g) ==
    {a \in Acceptable(g) : \A b \in Acceptable(g) \ {a} :
        Faster(g, a, b) \/ (~ Faster(g, b, a) /\ Rank(a) < Rank(b))}

SlowWhenSkipped(g) ==
    Skipped \in ArgsIn(optData, g) /\ Faster(g, Fp32, Skipped)

----------------------------------------------------------------------------
(* The pass TUNING, one action per function runOnModule calls.             *)

\* flush_file opens a data file with ios::out, which empties it.
FlushFileAppending(file) == file
FlushFile(file) == {}

\* The ids in ban_id.txt, read before the file is truncated.
BansReadTooLate == {}
BansRead == banFile

\* A fresh process, so every in-memory structure starts empty.  The ban file
\* is read and then truncated.
ReadBanId ==
    /\ pc = "readBan"
    /\ pc' = "readIds"
    /\ banned' = BansRead
    /\ banFile' = {}
    /\ best' = <<>>
    /\ toRepair' = {}
    /\ UNCHANGED <<driver, idFile, optData, singleErr, related, code, shipped>>

\* What make_runned_func_ID_set leaves in calledFuncID.txt: runned_funcID_list,
\* which GEMMs are named after, in place of the old lines.
MakeRunnedFuncIDSetAppending == idFile \o [g \in Gemms |-> g]
MakeRunnedFuncIDSet == [g \in Gemms |-> g]

\* reorg_flag: the file names a GEMM twice.
Reorg == \E i, j \in DOMAIN idFile : i < j /\ idFile[i] = idFile[j]

\* Repeated ids are dropped and only if there were any is the file rewritten.
ReadRunnedFuncIDFile ==
    /\ pc = "readIds"
    /\ pc' = "readOpt"
    /\ idFile' = IF Reorg THEN MakeRunnedFuncIDSet ELSE idFile
    /\ UNCHANGED <<driver, banFile, optData, singleErr, memory, related, code, shipped>>

ReadOptimizedDataFile ==
    /\ pc = "readOpt"
    /\ pc' = "readLast"
    /\ banned' = banned \cup {g \in IdsIn(optData) : SlowWhenSkipped(g)}
    /\ best' \in [IdsIn(optData) -> Args]
    /\ \A g \in IdsIn(optData) :
           IF Acceptable(g) # {} THEN best'[g] \in Fastest(g)
           ELSE best'[g] = IF g \in banned' THEN Fp32 ELSE LeastPrecise
    /\ toRepair' = {g \in IdsIn(optData) : Acceptable(g) = {}}
    /\ optData' = FlushFile(optData)
    /\ UNCHANGED <<driver, idFile, banFile, singleErr, related, code, shipped>>

\* A checked GEMM keeps its arguments, to be upgraded from there if it failed;
\* a failing GEMM that is banned goes to fp32.
KeptArgsReset(g, a) ==
    IF WithinThreshold(singleErr, g, a) THEN a
    ELSE IF g \in banned THEN Fp32 ELSE LeastPrecise
KeptArgs(g, a) ==
    IF WithinThreshold(singleErr, g, a) \/ g \notin banned THEN a ELSE Fp32

\* The records are walked in the order of a hash map, so if a GEMM had
\* several arguments any of them could be the last one stored.
ReadLastPassSeperateError ==
    /\ pc = "readLast"
    /\ pc' = "writeBan"
    /\ \E last \in [IdsIn(singleErr) -> Args] :
        /\ \A g \in IdsIn(singleErr) : last[g] \in ArgsIn(singleErr, g)
        /\ best' = [g \in DOMAIN best \cup IdsIn(singleErr) |->
                        IF g \in IdsIn(singleErr) THEN KeptArgs(g, last[g])
                        ELSE best[g]]
    /\ toRepair' = toRepair \cup
           {g \in IdsIn(singleErr) :
                \E a \in ArgsIn(singleErr, g) : ~ WithinThreshold(singleErr, g, a)}
    /\ singleErr' = FlushFile(singleErr)
    /\ UNCHANGED <<driver, idFile, banFile, optData, banned, related, code, shipped>>

WriteBanId ==
    /\ pc = "writeBan"
    /\ pc' = "repair"
    /\ banFile' = banFile \cup banned
    /\ UNCHANGED <<driver, idFile, optData, singleErr, memory, related, code, shipped>>

----------------------------------------------------------------------------
(* best_arguments_repair.                                                  *)

Level(a) == IF a = Fp32 THEN 2
            ELSE IF a # <<>> /\ a[1] = 1 /\ a[2] = 1 THEN 1 ELSE 0

\* xxx -> 110, 11x -> -1-1-1.  A vector that operator[] just created is empty
\* and has no element to test or to set.
UpgradeTwoElements(a) ==
    IF a = <<>> THEN a ELSE IF Level(a) = 0 THEN Skipped ELSE <<-1, -1, a[3]>>
UpgradeToFp32(a) == IF a = <<>> THEN a ELSE Fp32
Upgrade(a) == IF a = <<>> THEN a ELSE IF Level(a) = 0 THEN Skipped ELSE Fp32

ArgsOf(b, g) == IF g \in DOMAIN b THEN b[g] ELSE <<>>

\* adjust_related_gemm_map: only GEMMs that run before g stay.
AdjustedNot(g) == related[g]
Adjusted(g) == {h \in related[g] : h < g}

\* The GEMMs repair_dfs reaches: it goes on to the related GEMMs of every GEMM
\* except those already fp32.  A GEMM is upgraded at most once however many
\* paths reach it, so the order of the search does not matter.
ReachedFrom(roots) ==
    {g \in Gemms : \A S \in SUBSET Gemms :
        (/\ roots \subseteq S
         /\ \A h \in S : Level(ArgsOf(best, h)) = 2 \/ Adjusted(h) \subseteq S)
        => g \in S}

BestArgumentsRepair ==
    /\ pc = "repair"
    /\ pc' = "emit"
    /\ LET reached == ReachedFrom(toRepair)
       IN  best' = [g \in DOMAIN best \cup reached |->
                        IF g \notin reached THEN best[g]
                        ELSE IF Level(ArgsOf(best, g)) = 2 THEN Fp32
                        ELSE Upgrade(ArgsOf(best, g))]
    /\ UNCHANGED <<driver, files, banned, toRepair, related, code, shipped>>

----------------------------------------------------------------------------
(* The rest of runOnModule, the instrumented program and the driver.       *)

NextFuncIdTooSoon ==
    LET tuned == Cardinality(DOMAIN best)
    IN  IF tuned + 1 = N THEN 0 ELSE idFile[tuned + 1]
NextFuncId ==
    LET tuned == Cardinality(DOMAIN best)
    IN  IF tuned = N THEN 0 ELSE idFile[tuned + 1]

\* A call site with arguments becomes a checker call, the next one to tune a
\* tuning call, and the rest stay plain rocblas_gemm_ex calls.
ReplaceCalls ==
    /\ pc = "emit"
    /\ pc' = "exec"
    /\ checked' = best
    /\ tuning' = IF NextFuncId \in DOMAIN best THEN 0 ELSE NextFuncId
    /\ UNCHANGED <<driver, files, memory, related, shipped>>

\* The measurements call p of the trace makes, in the order of Before.
Measures(g) ==
    IF g \in DOMAIN checked THEN {checked[g]} ELSE IF g = tuning THEN Keys ELSE {}
Slots == {s \in (DOMAIN Trace) \X Args : s[2] \in Measures(Trace[s[1]])}
Before(s, t) == s[1] < t[1] \/ (s[1] = t[1] /\ Rank(s[2]) < Rank(t[2]))
Prefixes == {done \in SUBSET Slots :
                \A s \in done : \A t \in Slots : Before(t, s) => t \in done}

TuneRecordOf(s, time, err) ==
    [call |-> s[1], gemm |-> Trace[s[1]], args |-> s[2], time |-> time, err |-> err]
CheckRecordOfZeros(s, err) ==
    [call |-> s[1], gemm |-> Trace[s[1]], err |-> err,
     args |-> IF s[2] = Fp32 THEN LeastPrecise ELSE s[2]]
CheckRecordOf(s, err) ==
    [call |-> s[1], gemm |-> Trace[s[1]], args |-> s[2], err |-> err]

\* After the first execution the driver makes one more per line of
\* calledFuncID.txt and a last one, whether or not an execution failed.
AfterRunStopping(done) ==
    IF done # Slots THEN "stopped"
    ELSE IF runs + 1 = Len(idFile) + 2 THEN "gen" ELSE "readBan"
AfterRunTooFew(done) == IF runs + 1 = Len(idFile) THEN "gen" ELSE "readBan"
AfterRun(done) == IF runs + 1 = Len(idFile) + 2 THEN "gen" ELSE "readBan"

\* One execution of combine-new-new.  A checker or tuning call exits the whole
\* program when a result holds a NaN, leaving the records written before.
Execute ==
    /\ pc = "exec"
    /\ \E done \in (IF MayAbort THEN Prefixes ELSE {Slots}) :
        LET tuneSlots == {s \in done : Trace[s[1]] \notin DOMAIN checked}
        IN  \E time \in [tuneSlots -> Times], err \in [done -> Errs] :
              /\ optData' = optData \cup
                     {TuneRecordOf(s, time[s], err[s]) : s \in tuneSlots}
              /\ singleErr' = singleErr \cup
                     {CheckRecordOf(s, err[s]) : s \in done \ tuneSlots}
              /\ pc' = AfterRun(done)
    /\ runs' = runs + 1
    /\ UNCHANGED <<sessions, idFile, banFile, memory, related, code, shipped>>

\* Gen keeps the first record of each GEMM; operator[] gives an empty vector
\* for a GEMM without a record.
GenerateFinalCode ==
    /\ pc = "gen"
    /\ pc' = "done"
    /\ shipped' \in [Gemms -> Args \cup {<<>>}]
    /\ \A g \in Gemms :
           IF g \in IdsIn(singleErr) THEN shipped'[g] \in ArgsIn(singleErr, g)
           ELSE shipped'[g] = <<>>
    /\ UNCHANGED <<driver, files, memory, related, code>>

\* The user starts whole_proc.sh again, after the driver ended or having
\* interrupted it anywhere.  Pass 1 and its execution write calledFuncID.txt
\* anew; the other files stay as they are.
Restart ==
    /\ sessions < MaxSessions
    /\ sessions' = sessions + 1
    /\ runs' = 0
    /\ pc' = "readBan"
    /\ idFile' = Trace
    /\ banned' = {}
    /\ best' = <<>>
    /\ toRepair' = {}
    /\ shipped' = <<>>
    /\ UNCHANGED <<banFile, optData, singleErr, related, code>>

Done == pc = "done" /\ UNCHANGED vars

----------------------------------------------------------------------------

Init ==
    /\ pc = "readBan"
    /\ sessions = 1
    /\ runs = 0
    /\ idFile = Trace
    /\ banFile = {}
    /\ optData = {}
    /\ singleErr = {}
    /\ banned = {}
    /\ best = <<>>
    /\ toRepair = {}
    /\ related \in Graphs
    /\ checked = <<>>
    /\ tuning = 0
    /\ shipped = <<>>

Pass ==
    \/ ReadBanId
    \/ ReadRunnedFuncIDFile
    \/ ReadOptimizedDataFile
    \/ ReadLastPassSeperateError
    \/ WriteBanId
    \/ BestArgumentsRepair
    \/ ReplaceCalls

Script == Pass \/ Execute \/ GenerateFinalCode

Next == Script \/ Restart \/ Done

Spec == Init /\ [][Next]_vars

\* The driver is a sequential script: it always takes its next step.
FairSpec == Spec /\ WF_vars(Script)
----------------------------------------------------------------------------
(* Properties.                                                             *)

\* Every variable has its type.  In memory and in the final code an empty
\* vector may stand where operator[] found nothing.
TypeOK ==
    /\ pc \in {"readBan", "readIds", "readOpt", "readLast", "writeBan", "repair",
               "emit", "exec", "gen", "done"}
    /\ sessions \in 1..MaxSessions
    /\ runs \in 0..(N + 2)
    /\ idFile \in Seq(Gemms)
    /\ banFile \subseteq Gemms
    /\ optData \subseteq TuneRecords
    /\ singleErr \subseteq CheckRecords
    /\ banned \subseteq Gemms
    /\ DOMAIN best \subseteq Gemms
    /\ \A g \in DOMAIN best : best[g] \in Args \cup {<<>>}
    /\ toRepair \subseteq Gemms
    /\ related \in Graphs
    /\ DOMAIN checked \subseteq Gemms
    /\ \A g \in DOMAIN checked : checked[g] \in Args \cup {<<>>}
    /\ tuning \in 0..N
    /\ shipped \in [Gemms -> Args \cup {<<>>}] \cup {<<>>}

\* The instrumented program checks exactly the GEMMs that run before the one it
\* tunes, and it tunes none only when it checks all: the index
\* best_arguments.size() into runned_funcID_list always names the first GEMM
\* without arguments, also when an execution stopped early or the user
\* interrupted the driver and left some of the files behind.
TunedInOrder ==
    pc = "exec" =>
        \E k \in 0..N : /\ DOMAIN checked = 1..k
                        /\ tuning = IF k = N THEN 0 ELSE k + 1

\* A GEMM has one set of arguments in single_pass_err.txt, and at most one GEMM
\* is in optimized_data.txt and then not in the other file: what the comments
\* of read_last_pass_seperate_error and read_optimized_data_file rely on when
\* they store one entry per GEMM.
OneEntryPerGemm ==
    /\ \A r, s \in singleErr : r.gemm = s.gemm => r.args = s.args
    /\ \A r, s \in optData : r.gemm = s.gemm
    /\ pc = "readBan" => IdsIn(optData) \cap IdsIn(singleErr) = {}

\* The repair only walks over GEMMs that have arguments: following the adjusted
\* data-flow graph never makes best_arguments[id] create, and then read, an
\* empty vector.
RepairReadsOnlyTuned ==
    /\ pc = "repair" => ReachedFrom(toRepair) \subseteq DOMAIN best
    /\ pc = "emit" => \A g \in DOMAIN best : best[g] # <<>>

\* Between two instrumented programs a GEMM that keeps a checker call is never
\* moved back to a less precise level, whatever its errors and its relations.
NeverLessPrecise ==
    [][pc = "emit" /\ pc' = "exec" =>
        \A g \in DOMAIN checked \cap DOMAIN checked' :
            Level(checked'[g]) >= Level(checked[g])]_vars

\* The comment of best_arguments_repair: one pass moves a GEMM one level, xxx
\* to 110 and 11x to fp32.  Only a banned GEMM goes to fp32 at once.
OneLevelPerPass ==
    [][pc = "emit" /\ pc' = "exec" =>
        \A g \in DOMAIN checked \cap DOMAIN checked' :
            \/ checked'[g] = checked[g]
            \/ Level(checked'[g]) = Level(checked[g]) + 1
            \/ g \in banned /\ checked'[g] = Fp32]_vars

\* A GEMM whose errors passed the threshold leaves the pass at a higher level
\* than it was checked at, or already at fp32.
FailedIsUpgraded ==
    [][pc = "emit" /\ pc' = "exec" =>
        \A g \in toRepair \cap DOMAIN checked :
            Level(checked'[g]) > Level(checked[g]) \/ checked[g] = Fp32]_vars

\* The repair reaches back, never forward: a GEMM that runs after every failing
\* one keeps its arguments.
RepairGoesBack ==
    [][pc = "repair" /\ pc' = "emit" =>
        \A g \in DOMAIN best :
            best'[g] # best[g] => \E h \in toRepair : g <= h]_vars

\* A banned GEMM is not forgotten: its id is in ban_id.txt or, while the pass
\* holds the truncated file's content, in memory.  (Without interruptions.)
BansKept == [][banFile \cup banned \subseteq banFile' \cup banned']_vars

\* A ban can only be lost to an interruption between read_ban_id, which empties
\* ban_id.txt, and write_ban_id: neither an early exit nor an interruption
\* anywhere else, in the repair, the execution or Gen, costs one.
BansLostOnlyInPass ==
    [][ \/ banFile \cup banned \subseteq banFile' \cup banned'
        \/ /\ sessions' # sessions
           /\ pc \in {"readIds", "readOpt", "readLast", "writeBan"}]_vars

\* Without early exits and interruptions the r-th pass of a session emits the
\* tuning call of the r-th GEMM and the last two emit none, so every GEMM is
\* tuned exactly once although the driver only counts lines of a file that the
\* pass itself may rewrite.
EachTunedOnce ==
    pc = "exec" => tuning = IF runs < N THEN runs + 1 ELSE 0

\* The comment in pass2_witharg.sh that the file is read only after the first
\* pass has reorganised it: once the driver's loop may have it open, no pass of
\* that session writes it, although every pass would if a GEMM were named twice.
ListUnchangedInLoop ==
    [][runs > 0 /\ sessions' = sessions => idFile' = idFile]_vars

\* What Gen puts in the final code are the arguments the last execution
\* checked, for every GEMM. (Without early exits.)
ShipsWhatWasChecked == pc = "done" => shipped = checked

\* With early exits Gen may find no record of a GEMM, but what it does find are
\* still the arguments of the last executed program.
ShipsNothingElse ==
    pc = "done" =>
        \A g \in Gemms : shipped[g] # <<>> =>
            g \in DOMAIN checked /\ shipped[g] = checked[g]

\* The whole procedure ends with the generated final code.
EventuallyDone == <>(pc = "done")

----------------------------------------------------------------------------
(* The inductive invariant behind the safety properties.                   *)

\* The pass has made calledFuncID.txt list every GEMM once, and the driver
\* stops after two executions more than it has lines.
DriverInv ==
    /\ runs > 0 \/ pc \notin {"readBan", "readIds"} => idFile = [g \in Gemms |-> g]
    /\ idFile \in {Trace, [g \in Gemms |-> g]}
    /\ pc \notin {"gen", "done"} => runs < N + 2

\* Whatever part of an execution's records, or of the files, is left: the
\* checked GEMMs on file are the first k, and only GEMM k + 1 has been tuned.
FilesInOrder ==
    \E k \in 0..N : IdsIn(singleErr) = 1..k /\ IdsIn(optData) \subseteq {k + 1}

\* The pass gathers the arguments of the first GEMMs, first from one file and
\* then from the other, and has read both when it repairs them.
MemoryInOrder ==
    /\ pc = "readLast" =>
           /\ optData = {}
           /\ \E k \in 0..N : IdsIn(singleErr) = 1..k /\ DOMAIN best \subseteq {k + 1}
    /\ pc \in {"writeBan", "repair", "emit"} => \E k \in 0..N : DOMAIN best = 1..k
    /\ pc \in {"writeBan", "repair", "emit", "exec"} => optData = {} /\ singleErr = {}
    /\ pc \in {"readLast", "writeBan", "repair"} => toRepair \subseteq DOMAIN best

\* No empty vector is in best_arguments or in the emitted code.
ArgsDefined ==
    /\ \A g \in DOMAIN best : best[g] \in Args
    /\ \A g \in DOMAIN checked : checked[g] \in Args

\* The records on file are those of the code last emitted.
RecordsOfCode ==
    /\ \A r \in singleErr : r.gemm \in DOMAIN checked /\ r.args = checked[r.gemm]
    /\ \A r \in optData : r.gemm = tuning /\ r.gemm \notin DOMAIN checked

\* The arguments gathered for a checked GEMM are at least as precise as those
\* it was checked with.
LevelsKept ==
    /\ pc = "readLast" => DOMAIN best \cap DOMAIN checked = {}
    /\ pc \in {"writeBan", "repair", "emit"} =>
           \A g \in DOMAIN best \cap DOMAIN checked : Level(best[g]) >= Level(checked[g])

IInv ==
    /\ TypeOK
    /\ DriverInv
    /\ FilesInOrder
    /\ MemoryInOrder
    /\ TunedInOrder
    /\ ArgsDefined
    /\ RecordsOfCode
    /\ LevelsKept
=============================================================================
