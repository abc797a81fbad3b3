# A specification of moTuner in TLA+

moTuner lowers the precision of the matrix multiplications (GEMMs) of a HIP
program as far as an error threshold allows. It is three LLVM passes, a
run-time library they link into the program, and shell scripts that run passes
and programs in turn. This directory holds TLA+ modules that model it, the TLC
configurations that check them, and TLAPS proofs.

## 1. The system

| part | source | state | operations |
|---|---|---|---|
| driver | `wrap_command/whole_proc.sh`, `pass2_witharg.sh` | place in the script, lines of `calledFuncID.txt` left | pass 1 and its run; pass 2 and its run, once, then once per line of `calledFuncID.txt`, then once more; pass 3 |
| pass 1, MDFID | `include/llvm/Transforms/Mark_Dimension_FuncID/MDFID.cpp` | `dimension.txt`, `calledFuncID.txt` (emptied) | numbers the `rocblas_gemm_ex` call sites, replaces each by `mzw_wrapper_GemmEx`, makes a counter `mzw_rc<id>` for each |
| pass 2, TUNING | `include/llvm/Transforms/SbS_Tuning/TUNING.cpp` | in memory: `runned_funcID_list`, `best_arguments`, `to_repair_funcID_list`, `baned_id_settings`, `related_gemm_id_map`, pool dimensions; `ban_id.txt` | reads and empties the files, numbers the GEMMs again, analyses the data flow between them, chooses arguments, bans, repairs along the data flow, replaces calls, inserts the memory pool |
| pass 3, Gen | `include/llvm/Transforms/Final_Gen/Gen.cpp` | `gemm_arg_m`, pool dimensions | reads the chosen arguments, replaces calls by `mzw_faster_mul`, inserts the memory pool |
| run-time library | `rocblas_tool.hip` | the data files (appended to), one `.bin` file per GEMM and call, the memory pool on the device | wrapper, checker, tuning call, `mzw_faster_mul`, result check |

The parts share no memory. A pass is a process; the program it instruments is
another; they talk through files next to the bitcode:

* `calledFuncID.txt`: written by the program of pass 1, one line per executed
  call; made duplicate-free by the first run of pass 2; read by the driver's loop.
* `optimized_data.txt`: one record per trial of the GEMM being tuned; appended by
  the program, read and emptied by pass 2.
* `single_pass_err.txt`: one record per checked call, of the GEMMs that already
  have arguments; appended by the program, read and emptied by pass 2, read by Gen.
* one `.bin` file per call site and n: the result of its n-th call in pass 1;
  written by the program of pass 1, read by those of pass 2, never removed.
* `ban_id.txt`: GEMMs for which the setting (1,1,0) is slower than fp32; read and
  emptied by pass 2 at its start, written again a few steps later.

The arguments of a GEMM are a triple. (-1,-1,-1) is plain fp32; the others say
which refinement terms `mzw_faster_mul` adds to the half-precision product.
The repair knows three levels: *xxx* -> (1,1,0) -> fp32.

What is hard about it: no memory survives from one pass to the next, so every
pass works out from the files alone which GEMM is next (`best_arguments.size()`
is its index); files are truncated and rewritten in the middle of a pass;
executions may `exit(1)` half-way through and nobody looks at the exit status;
nothing cleans the data files when the user starts again; and every choice made
late (a repair) invalidates measurements made early. PROJECT.json lists each of
these hazards at its line.

What makes each part correct:

* driver and pass 2 together: every GEMM is tuned in one pass of its own, in
  order, and the procedure ends; what is shipped is what was last checked;
* repair: upgrades a failing GEMM, reaches back and never forward, moves one
  level at a time, never lowers precision, never reads arguments that are not there,
  and does not depend on the order in which its recursion walks the graph;
* bans: not lost, but for an interruption while the pass holds the emptied file;
* data-flow analysis: relates a GEMM to all that write what it reads, and no others;
* readers of the data files: what they choose depends on the set of records only;
* emitted programs: make the calls of the original program with the operands of the
  original; each result is compared with that of the same call in pass 1;
* pool and `mzw_faster_mul`: every buffer of every call lies inside the pool, no
  live buffer is overwritten, and the sum computed is the one the arguments say;
* the three passes: agree on the number of a call site.

## 2. Modules

| module | what it is |
|---|---|
| `SbSTuning` | driver, pass 2, the instrumented program, Gen: one session of tuning, or several |
| `TuningPlan`, `SbSTuningRefinement` | the abstract specification of the tuning loop; the mapping to it |
| `SbSTuningProofs`, `SbSTuningStepsProofs`, `SbSTuningRefinementProofs` | theorems about them |
| `RecordFile`, `RecordFileProofs` | the data files record by record, and pass 2's readers as the loops they are |
| `RepairDfs`, `RepairDfsProofs` | `best_arguments_repair` as the recursive search it is |
| `DataFlow`, `DataFlowProofs` | `run_data_flow_analysis`, and the numbering of GEMMs in the three passes |
| `GemmCalls`, `GemmCallsProofs` | the emitted programs and the library functions that stand for a GEMM, with the matrices and reference files |
| `MixedPrecision` | the abstract specification of an emitted program |
| `FasterMul`, `FasterMulProofs` | the memory pool and `mzw_faster_mul` |
| `MC...` | instances of each for TLC |

How they fit together. `SbSTuning` is the whole procedure, with each function of a
pass as one step and each execution as one step. The others look inside its steps:
`RecordFile` inside the two readers and the execution's records, `RepairDfs` inside the
repair; both state as a property that what they do in many steps is the step
`SbSTuning` has (`ReadsInOneStep`, `RepairsInOneStep`, each by an `INSTANCE` of
`SbSTuning`). `DataFlow` says which graphs, the `Graphs` of `SbSTuning` and
`Maps` of `RepairDfs`, a program gets. `GemmCalls` looks inside an execution, at matrices
instead of records, and takes `mzw_faster_mul` as one step; `FasterMul` is that step.

A definition whose name extends or varies another's (`FlushFileAppending` beside
`FlushFile`, `KeptArgsReset` beside `KeptArgs`, `CountedForAll` beside `Counted`, ...)
is a mutated form of it: a plausible bug, not used by the specification. Putting it in
place of the original makes the property it is paired with fail, which shows that the
property depends on that piece of code. PROJECT.json lists the pairs.

### 2.1 `SbSTuning`

One action per function that `runOnModule` of pass 2 calls, in program order
(`ReadBanId`, `ReadRunnedFuncIDFile`, `ReadOptimizedDataFile`,
`ReadLastPassSeperateError`, `WriteBanId`, `BestArgumentsRepair`,
`ReplaceCalls`), then `Execute` (one run of `combine-new-new`), the driver's count
(`AfterRun`), and `GenerateFinalCode`. `Restart` is the user starting
`whole_proc.sh` over, after the end or in the middle of anything.

| variable | code |
|---|---|
| `idFile`, `banFile`, `optData`, `singleErr` | the four files; the data files are sets of records |
| `banned`, `best`, `toRepair` | `baned_id_settings`, `best_arguments`, `to_repair_funcID_list` |
| `related` | `related_gemm_id_map` as `run_data_flow_analysis` fills it; any graph in `Graphs` |
| `checked`, `tuning` | the checker calls and the tuning call in the emitted code |
| `shipped` | `gemm_arg_m` of Gen |
| `runs`, `sessions` | the place in the driver's loop; how often the user started |

Abstractions. GEMM `g` is the `g`-th call site reached (its place in
`runned_funcID_list`), so numbers of call sites do not appear. Measured times and
errors are natural numbers chosen freely by `Execute`: any finite measurement
is allowed, also that fp32 has an error or that the same setting measures
differently each time. An error that is printed as `inf` or `nan`, which a reader
cannot read, is not: in the middle of `single_pass_err.txt` it would leave a gap in
`best_arguments`, and `TunedInOrder` and what rests on it would not hold
(`RecordFile` has such records, for both readers, and the run `unreadable` shows the
consequence; the reader of Gen stops at one in the same way). `avg_err` is left out since its threshold is the largest
float. Means of times are compared by cross-multiplication, so the running mean's
rounding is not modelled. `repair_dfs` is given by the set it reaches
(`ReachedFrom`), which `RepairDfs` justifies; a reader is one step over a set of
records, which `RecordFile` justifies.

Every execution makes the calls of one `Trace`, the one pass 1 recorded, or a prefix of
it. That is an assumption about the program that is tuned, and nothing in the code
secures it: a site that a later execution leaves out has no record in that pass, and
`TunedInOrder`, `EachTunedOnce` and `ShipsWhatWasChecked` may fail. `GemmCalls`
allows a different sequence in each execution.

The driver's loop is a count of executions. The shell reads a line of
`calledFuncID.txt` before each, from the place it has reached in the open file; since
no pass changes the file from the second on (`ListUnchangedInLoop`), that place is the
number of the execution and the end of the file is where the count says.
`ReadRunnedFuncIDFile` rewrites the file only if a GEMM is named twice, as the code does.

An early exit (`MayAbort`) leaves any prefix of the records of the execution, in
the order the calls and the trials inside a tuning call make them.

### 2.2 `TuningPlan`

Three variables: the precision level of each GEMM in the program last emitted,
the GEMM on trial in it, and the levels in the final code. `Emit` tunes what was on
trial and puts the next GEMM on trial, in order, and lowers no level; `Generate`
makes the final code from the levels of the last program. `Loses` says whether
executions may exit early or sessions be started over: then the last GEMMs may go
back to be tuned again and the final code may miss a level. Without losses `Emit`
is exact and `Generate` waits until every GEMM is tuned. Of the eight
steps of a pass and its execution `ReplaceCalls` is the `Emit`, the others stutter.

### 2.3 `FasterMul`

A pass reads the lines of `dimension.txt` (`ReadDimension`,
`get_biggest_dimension`) and inserts the allocation (`AllocatePool`); then the
program calls `mzw_faster_mul` again and again, for any recorded size, any
operation on A and B and any parameters. A call is nine steps, one for each part
of the function: `StartCall`, `Quantize`, `LowPrecisionGemm`, `ResidualB`,
`ResidualA`, `RefineWithRB`, `RefineWithRA`, `RefineWithRAAndRB`, `Finish`.

| variable | code |
|---|---|
| `file`, `line`, `biggest`, `maxSize` | `dimension.txt`, the place in it, `pool_m/n/k`, `max_size` |
| `pool` | bytes at `mzw_mempool`, 0 for a null pointer |
| `call` | `m, n, k`, `Trans_A`, `Trans_B`, `p1, p2, p3` of the call |
| `mem` | what each matrix in the pool is: which value, stored with which operation and leading dimension |
| `acc` | the products summed in `HP_appro_MatrixC` |
| `c`, `overrun` | the program's C; whether a kernel wrote past the pool |

Offsets and sizes are the code's, byte for byte (`Start`, `Size`), in int where the
code has int. A write destroys every other matrix it touches, so a wrong offset
shows as `"junk"` in a later product. Values are symbols: `<<"A", "RB">>` is the
product of A's cast and B's residual. A GEMM reads a matrix rightly only if told
the operation and leading dimension it was stored with. Matrices of the program are
dense. rocBLAS is external: it rejects leading dimensions smaller than a stored
column, and may refuse to transpose in place.

The pool and the tuning loop meet in one place only, the arguments: `ReplaceCalls`
emits triples from `Grid`, `StartCall` runs with any triple of zeros and ones.

### 2.4 `GemmCalls` and `MixedPrecision`

The program of a pass is a function from call sites to what stands there
(`emitted`): the call itself, the wrapper of pass 1, a checker, the tuning call, or
`mzw_faster_mul`. `ExecutePass1` and `ExecuteTuned` start a process with any program
the passes may emit (`Emissions`) and any call sequence of `Traces`, not the same each
time: an iteration may take longer at low precision. The calls are `Wrapper`, `Plain`,
`Faster`, `Checker`, and, for a tuning call, `TuneFp32`, eight times `TuneTrial`, and
`TuneReturn`; `ExitOnNaN` is the `exit(1)` of the check after any GEMM.

| variable | code |
|---|---|
| `dev` | what each matrix of the program holds: a symbolic product of what its operands held |
| `rc`, `bin`, `funcIds` | the globals `mzw_rc<id>`, the reference files, `calledFuncID.txt` |
| `trial`, `saved`, `result`, `ref` | the place in `mzw_tuning_GemmEx`, `original_matrixC`, `result_matrix`, `fp32_result_matrix` |
| `record` | the record written last: the matrix compared and the one it is compared with |

`rocblas_gemm_ex` writes D, the wrapper and `mzw_faster_mul` write C, and the checks
read C. `MixedPrecision` has the matrices only: a call replaces D by the product
at the precision of its site. Saving, comparing and trying out do not occur in it, so
implementing it is to leave no trace in the matrices.

### 2.5 `RepairDfs`

`Adjust` is one iteration of `adjust_related_gemm_map`. Then `stack` holds the
loops of the running calls of `repair_dfs`, as sets of GEMMs still to visit, in
any order; `RepairDfs` is the call an innermost loop makes and `Return` the end of
one. The arguments change while the search goes on and decide where it goes, which
is what `RepairsInOneStep` has to show harmless. Call sites the program never reaches
are in the map too (`Unreached`). `WorkShrinks` is that the search ends and walks no relation twice, however
many paths lead to a GEMM.

### 2.6 `DataFlow`

A program is a set of values (parameters and instructions), the operands of each
instruction, and the calls in module order. The first scan (`Collect`) numbers GEMMs;
the second (`Skip`, `Target`) makes six searches for each: `dataflow_dfs` and
`jump_out_of_parent` for each of the three matrices it reads. A search is the
stack of its loops (`Loops`), each a set of calls still to make, in any order, since
the order of LLVM's use lists is not fixed: `Search` for a new value, `Return` for one
marked before, `EndLoop`. `Dig`, `Out` and `DigFrom` say what the searches would reach
without the map of marked values. `WorkLeft` counts what is left of a search: its
loops and their calls, the values not marked, and the calls those may come to make;
`ComesCloserToItsEnd` is that each step leaves less or goes on to the next search or call site.

### 2.7 `RecordFile`

The execution appends records in the order of the trace (`Check`, `Try`, `RunPlain`,
`ExitOnNaN`), any of them with an error that is printed as `inf` or `nan`. Then come the
readers: `ReadOptimizedRecord` for each line, `GetBestArguments`, `ReadErrorRecord` for
each line, `EndErrorFile`, and `KeepArguments` for each GEMM. Means are kept as a
total and a count. The trials of a tuning call come in the order of its loops, fp32 first
(`TriesAssumption`). A read of `data[...][0]` where nothing is stored may have either
outcome (`unlucky`).


## 3. Runs

| run | instance | checks | distinct states |
|---|---|---|---|
| `tune_three` (`MCTuneThree`) | 3 GEMMs, two settings, every graph that adjusting can leave and a complete one, no disturbance | `TypeOK`, `EachTunedOnce`, `ShipsWhatWasChecked`, `OneLevelPerPass`, `RepairGoesBack`, `BansKept`, `ImplementsPlan` without losses | 650,753 |
| `interrupted` (`MCInterrupted`) | 2 GEMMs, the first called again after the second, four graphs, early exits, 2 sessions | `IInv`, `TunedInOrder`, `OneEntryPerGemm`, `RepairReadsOnlyTuned`, `ShipsNothingElse`, `NeverLessPrecise`, `FailedIsUpgraded`, `GatheredFromCode`, `BansLostOnlyInPass`, `ListUnchangedInLoop`, `ImplementsPlan` with losses, `EventuallyDone` under `FairSpec` | 241,156 |
| `record_file` (`MCRecordFile`) | 2 GEMMs, one called twice, two settings, any program a pass emits for them, errors readable or not, exits | `IInv`, `ReadersKnow`, `NeverWithoutFp32`, `GivesAllReadable`, `ReadsInOneStep` | 769,508 |
| `repair_dfs` (`MCRepairDfs`) | 3 GEMMs and an unreached site, 64 maps with cycles, loops and forward relations, arguments of every level, any failing set | `IInv`, `RepairsInOneStep`, `WorkShrinks` | 372,864 |
| `data_flow` (`MCDataFlow`) | 6 functions, one recursive, 5 GEMMs, those of the tool library | `IInv`, `NumbersAgree`, `FindsOnlyRelated`, `FindsAllWithoutConflict`, `ComesCloserToItsEnd`, `AnalysisEnds` | 2,150 |
| `gemm_calls` (`MCGemmCalls`) | 2 sites that overwrite each other's operands, 3 executions of different lengths, two left-over files | `IInv`, `ImplementsMixedPrecision`, `RecordsOfCall`, `ReferenceOfSameCall` | 10,201 |
| `faster_mul` (`MCFasterMul`) | 11 shapes with sides 1, 2 and 6, two GEMMs, A as stored or transposed, all 8 triples | `IInv`, `InsidePool`, `ResultIsSum` | 35,365 |

Why the bounds are enough.

* `tune_three`: three GEMMs are the fewest for which a repair can pass through one
  GEMM to another, and for which one is failing, one related and one untouched.
* `interrupted`: the loop in the trace gives several records per GEMM
  and setting, so that means and maxima matter and an early exit can fall between
  two calls of the same GEMM. Two errors and a threshold between them, and two
  times, give every comparison both outcomes; bans need fp32 faster than (1,1,0).
  Two sessions give every combination of left-over files to a fresh start; since
  the files satisfy `IInv` at every start, a third adds nothing new. Of two GEMMs
  adjusting leaves two graphs, each of which stands for several: the instance has
  each in its adjusted form and in one that adjusting changes.
* `record_file`: the repeated call makes keys that are combined, ties, and an end of the
  file between two records of one key; an unreadable record may be anywhere.
* `repair_dfs`: a cycle, a diamond and a GEMM at fp32 in the middle of a path all need
  three GEMMs and no more.
* `data_flow`: one program, chosen for its shapes: a helper with two callers, a value
  passed on from parameter to parameter, recursion, a call that writes its own operand, and
  functions that must not be scanned. TLC explores all orders of the use lists; the
  theorems are for every program.
* `gemm_calls`: a site called twice, once and not at all in one execution and otherwise
  in the next; operands another site writes, and a site that overwrites its own.
* `faster_mul`: sides 1 and 2 give every order of m, n and k, equal ones
  included, and the shapes 6x1x1 need more memory than 2x2x2 with less volume, so the
  largest pool is not the largest GEMM; two lines of `dimension.txt` are the fewest
  for which one GEMM runs in a pool made for another. The eight triples are all the
  tuning call tries. Nothing is left in the pool from one call to the next that a call
  could read without the result showing it, so a longer sequence of calls adds nothing.

Five runs are expected to find a violation. Each checks one statement that a
comment of the repository makes and the code does not keep:

| run | statement | what happens |
|---|---|---|
| `trans_b` | a transposed B is made column-major (rocblas_tool.hip:643) | line 660 sets `new_ldA` for `new_ldB`: rocBLAS rejects the call or the sum is wrong |
| `overflow` | the pool size is a `size_t` (TUNING.cpp:326) | the sum is computed in int first and wraps; here `hipMalloc` fails, nobody looks, and a call writes behind a null pointer |
| `out_of_place` | the wrapper replaces the fp32 GemmEx (rocblas_tool.hip:231) | it passes C for D, so with different C and D the result is in C and D is as before |
| `conflict` | the map of the two searches makes no conflict (TUNING.cpp:808) | where `dataflow_dfs`, called from `jump_out_of_parent`, has marked a parameter, what other callers pass for it is never followed and a related GEMM is missing |
| `unreadable` | the size of `best_arguments` is the number of GEMMs in the files (TUNING.cpp:1208) | a record with `inf` or `nan` ends the reader's loop; the size is smaller and a GEMM is tuned again while others run unchecked |

Other comments and messages that the models show not to hold as written, without a run of
their own: GEMMs related to a failing one are not upgraded if that one is fp32 already,
since `repair_dfs` returns before the recursion (TUNING.cpp:1112, 1136); the last pass still
repairs, and what it repairs is executed but not judged (TUNING.cpp:1212); a failing first
GEMM becomes (1,1,0) and not fp32, the special case is commented out (TUNING.cpp:262); in a
second session in the same folder no pass tunes anything, since `single_pass_err.txt` of the
first still covers all GEMMs (pass2_witharg.sh:51); after an early exit in the last execution
Gen reads element 0 of an empty vector (Gen.cpp:210); `mzw_ReadFile` may return a null pointer
that no caller looks at (rocblas_tool.hip:316), which `GemmCalls` has as a comparison with
`Junk`.

Fairness and deadlock. The driver is a sequential script without waiting, so `FairSpec` of
`SbSTuning` has weak fairness of its next step (`Script`) and nothing else; it does not assume
that the user restarts, or that an execution succeeds. The user restarts at most
`MaxSessions` times. `Done` is the stuttering of a finished driver, so that
deadlock checking stays meaningful there. `FairSpec` of `DataFlow` says that a sequential
recursion takes its next step; whether it has only finitely many is the question
`AnalysisEnds` asks. `DataFlow`, `RepairDfs`, `RecordFile` and `GemmCalls` stop when the
analysis, the repair, the reading or the last execution is over, so deadlock is not
checked there; `trans_b` likewise looks at calls rocBLAS rejects.

## 4. Proofs

### 4.1 The tuning loop

`SbSTuningProofs` proves, for every number of GEMMs, trace, grid, set of
measurements and graph, with early exits and restarts, that `IInv` is inductive
(`Invariance`), its parts `TypeOK` and `TunedInOrder` (`TypeCorrect`, `TunesInOrder`),
its consequences `OneEntryPerGemm` and `RepairReadsOnlyTuned` (`FilesHaveOneEntry`,
`RepairIsDefined`), and the action property `NeverLessPrecise` (`PrecisionNeverDrops`).

The argument. `TunedInOrder` speaks of one step only, the emitted code; why it
comes true again in the next pass has to be carried through the files and the
reading of them. `IInv` says at each step where the knowledge is: on file
(`FilesInOrder`: the checked GEMMs on file are 1..k and the tuned one is k+1, for
any prefix of an execution), half read (`MemoryInOrder`), or in the code; that
what is on file is what the code ran with (`RecordsOfCode`); and that arguments
gathered in memory are not below those of the code (`LevelsKept`), which gives
`NeverLessPrecise`. Lemma `InitialSegment` (a set of GEMMs closed under "runs before"
is 1..k) and `PrefixInOrder` use `TraceAssumption`, that call
sites are numbered in the order they are first reached. The proof that the repair
stays inside `best_arguments` (`ReachedAreTuned`) uses that the adjusted graph
points only backwards and that the failing GEMMs have arguments.

`SbSTuningStepsProofs` adds what a pass does from one program to the next:

* `BansSurvive` and, for one session, `BansAreKept`, by `BansOnFile`: outside the pass
  all bans are on file.
* `ListStays` (`ListUnchangedInLoop`): after the first pass of a session the file lists every
  GEMM once (`DriverInv`), since a trace without repetition can only be 1..N
  (`TraceWithoutRepetition`).
* `OneLevelAtATime` and `FailureUpgrades`, by `ArgsInPass`: before the repair each
  checked GEMM has the arguments it was checked with, or is banned and fp32; after it,
  those or one level more, and more if it failed.
* `RepairReachesBack`: the search's reach is inside the set of GEMMs before a failing one.
* `ShipsCheckedOnly`, from `RecordsOfCode`.
* `EveryGemmTunedOnce` and `ShipsChecked`, under `~MayAbort /\ MaxSessions = 1`, by
  `UndisturbedInv`: after r executions the files, the memory or the code hold exactly
  the first min(r, N) GEMMs. `SlotsCoverAll` shows that a whole execution measures
  every checked GEMM and the one that is tuned.

`SbSTuningRefinementProofs` proves `Implementation`: every step of `SbSTuning` is a step
of `TuningPlan` or a stutter, for every value of the constants; with losses when executions
may exit early or sessions be started over, without when they may not. Beside
`IInv` it needs `GatheredFromCode` (`GathersFromCode`), that arguments are gathered only
for GEMMs the program before checked or tuned, and `UndisturbedInv` for the second case.

### 4.2 Inside its steps

`RepairDfsProofs`: `SearchRepairs` is the refinement, for every graph, every failing set and
every order of the lists. `SearchInvariance`: of the GEMMs a failing one leads to, each is
repaired, was fp32, or is on the stack (`NothingForgotten`), nothing else is repaired
(`OnlyReached`, over all closed sets as in `ReachedFrom`), and who is repaired moved one
level (`OnceEach`). With an empty stack this is the one step of `SbSTuning`.

The recursion ends (`RepairEnds`, the action property `WorkShrinks`). What is left to do
is counted as the GEMMs to adjust, the loops on the stack, the GEMMs not yet repaired and
the calls the loops have left or may still open; marking a GEMM pays for the loop it opens,
so that the steps are bounded by the number of relations and not by that of paths.

`RecordFileProofs`: `ReadersRefineLoop`, that the readers, record by record, do what
`SbSTuning` has as one step over a set (`ReadsInOneStep`), for every trace, grid, set of
measurements and order of the lines. `ReadersKnowInvariance` is its invariant: what each
map holds at any line is what the lines read so far say (`ReadersKnow`: totals, counts and
largest errors by key, the order of keys, the arguments kept so far). Two facts about data
are needed and both are proved by induction over the natural numbers for a property that is
written out, since an induction over sets with the property as a parameter is out of
reach: a total kept line by line is the sum over the set of lines, and the running
minimum of `get_best_arguments`, which takes the settings in the order they were tried and
the first of equals, is the fastest setting as `SbSTuning` has it. Besides,
`ComparesWithRecord`, that a record of (1,1,0) is never met without one
of fp32, and `ArgumentsForAll`, that every GEMM on file gets arguments if all records are
readable. `ReadersInvariance` carries which GEMMs each file and map holds, and
that the first record of `optimized_data.txt` is fp32's.

`DataFlowProofs`: for every program, `Soundness` (`FindsOnlyRelated`), `Completeness`
(`FindsAllWithoutConflict`) and `Numbering` (`NumbersAgree`). `AnalysisInvariance`: what
is pending or marked is inside what the search may reach (`Inside`), where a marked
value leads is marked or pending (`Covered`), so that with an empty stack the marked
values are closed and contain the least closed set (`SearchesComplete`). `Covered`
says nothing of `jump_out_of_parent` after a conflict, which the run `conflict` shows to be
needed. `AnalysisMovesOn` is that each step comes closer to the end (`ComesCloserToItsEnd`)
for every program, recursive ones included: a value starts its loops at most once in
the searches of a GEMM, and marking it pays for them.

### 4.3 The programs and the pool

`GemmCallsProofs`: for every program that passes one matrix as C and D (`InPlace`), every set
of call sequences and number of executions, `Transparent` (`ImplementsMixedPrecision`), `MeasuresItsCall`
(`RecordsOfCall`) and `ComparesSameCall` (`ReferenceOfSameCall`). `CallsInvariance`: counters
of replaced sites count their calls, the files hold pass 1's results, and a tuning call holds
what it will compare with and return. `out_of_place` shows that `InPlace` cannot be dropped.

`FasterMulProofs` proves, for GEMMs of any size, `CallInvariance`, `PoolSuffices`
(`InsidePool`) and `ComputesTheSum` (`ResultIsSum`) from two assumptions: `SizesFit`
(the sum of pool elements of every GEMM is an int, and the device has the memory)
and `BAsStored` (no GEMM transposes B). The runs `overflow` and `trans_b` show that
neither can be dropped. The argument: under `SizesFit` the byte counts are exact
(`Exact`, `SizesExact`), so the nine matrices a call may use lie one behind the
other (`Layout`) and inside the pool (`Separate`); hence a write to one leaves the
others (`GemmStep`, `ResidualStep`). `InsidePool` and `ResultIsSum` say nothing in
the middle of a call, so `IInv` adds that the pool covers every recorded size
(`PoolCovers`, the loop invariant of `get_biggest_dimension`), what each matrix
holds from the step that makes it to the last that reads it (`MemoryHolds`), and
which products are in the sum so far (`SumSoFar`).

### 4.4 Only model-checked

`EventuallyDone` and `AnalysisEnds`, which are liveness and out of the prover's reach. What
`AnalysisEnds` adds to the proved `ComesCloserToItsEnd` is fairness and that some step is
enabled until the end.

## 5. Not modelled

* A pass or link step that fails (the scripts go on with the old program), and the
  `exit(1)` of a pass that cannot open a file.
* The arithmetic of the kernels and of errors, the GPU, rocBLAS beyond what is said above,
  device calls that fail other than the pool's `hipMalloc`.
* Matrices with a leading dimension larger than their rows: the casts treat them as dense
  (rocblas_tool.hip:721). `FasterMul` and `GemmCalls` have dense ones; padding would need
  memory by element.
* More than one refinement of a kind: the loops over p1, p2 and p3 allow it and the pool has
  no room for it (rocblas_tool.hip:805), but no emitted argument is larger than 1.
* Rounding of printed numbers to six digits (rocblas_tool.hip:122): the models start from
  the numbers as read back.
* An empty `dimension.txt`, for which pass 2 leaves the pool's size uninitialised
  (TUNING.cpp:339): a program without GEMMs has nothing to tune.
* In the data flow: globals and constants, a call through `invoke`, which no scan counts,
  and calls of `modify_matrix_mem_func_name`, a name the pass never sets.
  `DataFlow` takes `mzw_checker_faster_mul` not to be inlined, as the bitcode is built.
* Build and benchmark scripts: command lines without state of their own.
  `bundleparse.cpp`: used by nothing.
* `src/include/clang`, `src/include/llvm` and the like are the headers of the compiler the
  passes are built against, third-party code that makes up nearly all lines of the
  repository. moTuner itself is TUNING.cpp, Gen.cpp, MDFID.cpp, rocblas_tool.hip and the
  scripts; the map refers to all of them.
