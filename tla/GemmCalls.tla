----------------------------- MODULE GemmCalls -----------------------------
(***************************************************************************)
(* The programs moTuner emits, at the level of the matrices they compute.  *)
(* MDFID (pass 1) replaces every rocblas_gemm_ex by mzw_wrapper_GemmEx,    *)
(* which records the call and saves its result in a file of its own;       *)
(* TUNING (pass 2) replaces some by checkers and one by mzw_tuning_GemmEx, *)
(* which compare their results with the saved ones; Gen emits the final    *)
(* program.  The n-th call a site makes in pass 2 is compared with the     *)
(* n-th it made in pass 1: both passes count in globals mzw_rc<id>.        *)
(*                                                                         *)
(* A matrix is a symbolic value, stored without gaps, as mzw_faster_mul    *)
(* assumes: the copies of m*n floats are copies of the whole matrix.       *)
(***************************************************************************)
EXTENDS Integers, Sequences

CONSTANTS
    Sites,         \* the call sites of rocblas_gemm_ex outside the tool library
    Buffers,       \* the matrices of the program
    Prog,          \* the matrices [a, b, c, d] each call site passes
    Traces,        \* the call sequences an execution may go through
    Triples,       \* the argument triples of mzw_faster_mul
    LeftOver,      \* reference files, <<site, n>>, of an earlier use of the folder
    MaxExecutions  \* bound: executions of emitted programs

Fp32 == <<-1, -1, -1>>
Precisions == Triples \cup {Fp32}
Written == [fn : {"gemm", "wrapper", "tuning", "checker_GemmEx"}, args : {Fp32}]
           \cup [fn : {"checker_faster_mul", "faster_mul"}, args : Triples]

ASSUME SitesAssumption == Sites \subseteq Nat \ {0}
ASSUME ProgAssumption == Prog \in [Sites -> [{"a", "b", "c", "d"} -> Buffers]]
ASSUME TracesAssumption == Traces \subseteq Seq(Sites)
ASSUME TriplesAssumption ==
    /\ Fp32 \notin Triples
    /\ {0, 1} \X {0, 1} \X {0, 1} \subseteq Triples
ASSUME BoundsAssumption ==
    /\ MaxExecutions \in Nat
    /\ LeftOver \subseteq (Sites \X Nat)

VARIABLES
    phase,    \* "pass1", "pass2", "final": the program running or to be started
    execs,    \* executions started
    emitted,  \* what stands at each call site of that program
    todo,     \* calls the execution has still to make
    dev,      \* what each matrix holds, in device memory
    rc,       \* mzw_rc1, mzw_rc2, ...
    bin,      \* the reference files, by call site and count
    funcIds,  \* calledFuncID.txt
    trial,    \* 0, or the number of the trial a tuning call is at
    saved,    \* original_matrixC of the tuning call
    result,   \* its result_matrix
    ref,      \* its fp32_result_matrix
    record,   \* the record written last
    nth,      \* history: calls made by each site in this execution
    golden    \* history: the results of the calls of pass 1

files == <<bin, funcIds>>
tuning == <<trial, saved, result, ref>>
vars == <<phase, execs, emitted, todo, dev, rc, files, tuning, record, nth, golden>>

None == [args |-> <<>>]
Junk == <<"uninitialised">>
Stale == <<"left over">>

----------------------------------------------------------------------------
(* The library functions.                                                  *)

Initially == [b \in Buffers |-> <<b>>]
Product(p, s, m) == <<p, m[Prog[s].a], m[Prog[s].b], m[Prog[s].c]>>

\* rocblas_gemm_ex writes D; the wrapper passes C as D.
GemmEx(s, m) == [m EXCEPT ![Prog[s].d] = Product(Fp32, s, m)]
WrappedGemmEx(s, m) == [m EXCEPT ![Prog[s].c] = Product(Fp32, s, m)]

\* mzw_faster_mul writes C, whatever D is.
FasterMul(p, s, m) == [m EXCEPT ![Prog[s].c] = Product(p, s, m)]

\* mzw_ReadFile into a buffer fresh from malloc; its result is not looked at.
ReadFileOfFirst(s, n) == IF <<s, 1>> \in DOMAIN bin THEN bin[<<s, 1>>] ELSE Junk
ReadFile(s, n) == IF <<s, n>> \in DOMAIN bin THEN bin[<<s, n>>] ELSE Junk

WriteFile(s, n, value) ==
    bin' = [k \in DOMAIN bin \cup {<<s, n>>} |-> IF k = <<s, n>> THEN value ELSE bin[k]]

\* mzw_Result_Check_Record_Performance reads matrix C.  It writes a record, or
\* exits at a NaN in one of the two matrices.
Record(s, n, p, m, reference) ==
    record' = [site |-> s, n |-> n, args |-> p, got |-> m[Prog[s].c], ref |-> reference]

----------------------------------------------------------------------------
(* Calls.  The counter is loaded, incremented and stored before the call,  *)
(* and only at the call sites that were replaced.                          *)

Site == Head(todo)
At(fn) == todo # <<>> /\ emitted[Site].fn = fn
CountedForAll == [s \in Sites |-> rc[s] + 1]
Counted == [rc EXCEPT ![Site] = @ + 1]
Done == /\ todo' = Tail(todo)
        /\ nth' = [nth EXCEPT ![Site] = @ + 1]

\* mzw_wrapper_GemmEx.
Wrapper ==
    /\ At("wrapper")
    /\ rc' = Counted
    /\ dev' = WrappedGemmEx(Site, dev)
    /\ WriteFile(Site, rc'[Site], dev'[Prog[Site].c])
    /\ funcIds' = Append(funcIds, Site)
    /\ Done
    /\ golden' = [k \in DOMAIN golden \cup {<<Site, nth'[Site]>>} |->
                     IF k = <<Site, nth'[Site]>> THEN Product(Fp32, Site, dev) ELSE golden[k]]
    /\ UNCHANGED <<phase, execs, emitted, tuning, record>>

\* A call site no pass has replaced.
Plain ==
    /\ At("gemm")
    /\ dev' = GemmEx(Site, dev)
    /\ Done
    /\ UNCHANGED <<phase, execs, emitted, rc, files, tuning, record, golden>>

\* mzw_faster_mul, called by the final program.
Faster ==
    /\ At("faster_mul")
    /\ dev' = FasterMul(emitted[Site].args, Site, dev)
    /\ Done
    /\ UNCHANGED <<phase, execs, emitted, rc, files, tuning, record, golden>>

\* mzw_checker_GemmEx and mzw_checker_faster_mul.
Checker ==
    /\ At("checker_GemmEx") \/ At("checker_faster_mul")
    /\ rc' = Counted
    /\ dev' = IF emitted[Site].fn = "checker_GemmEx" THEN GemmEx(Site, dev)
              ELSE FasterMul(emitted[Site].args, Site, dev)
    /\ Record(Site, rc'[Site], emitted[Site].args, dev', ReadFile(Site, rc'[Site]))
    /\ Done
    /\ UNCHANGED <<phase, execs, emitted, files, tuning, golden>>

\* mzw_tuning_GemmEx up to its first record: C is saved, the fp32 GEMM run, its
\* result saved and compared.
TuneFp32 ==
    /\ At("tuning")
    /\ trial = 0
    /\ rc' = Counted
    /\ saved' = dev[Prog[Site].c]
    /\ dev' = GemmEx(Site, dev)
    /\ result' = dev'[Prog[Site].c]
    /\ ref' = ReadFile(Site, rc'[Site])
    /\ Record(Site, rc'[Site], Fp32, dev', ref')
    /\ trial' = 1
    /\ UNCHANGED <<phase, execs, emitted, todo, files, nth, golden>>

\* The three nested loops over 0..1, one iteration each.
Triple(i) == <<(i - 1) \div 4, ((i - 1) \div 2) % 2, (i - 1) % 2>>
NotRestored == dev
Restored == [dev EXCEPT ![Prog[Site].c] = saved]

TuneTrial ==
    /\ At("tuning")
    /\ trial \in 1..8
    /\ dev' = FasterMul(Triple(trial), Site, Restored)
    /\ Record(Site, rc[Site], Triple(trial), dev', ref)
    /\ trial' = trial + 1
    /\ UNCHANGED <<phase, execs, emitted, todo, rc, files, saved, result, ref, nth, golden>>

\* After the loops the fp32 result is copied back.
LastResult == dev[Prog[Site].c]
ResultOfFp32 == result

TuneReturn ==
    /\ At("tuning")
    /\ trial = 9
    /\ dev' = [dev EXCEPT ![Prog[Site].c] = ResultOfFp32]
    /\ trial' = 0
    /\ Done
    /\ UNCHANGED <<phase, execs, emitted, rc, files, saved, result, ref, record, golden>>

\* exit(1) in the check after a GEMM: the matrices are lost with the process.
ExitOnNaN ==
    /\ At("checker_GemmEx") \/ At("checker_faster_mul") \/ At("tuning")
    /\ trial # 9
    /\ todo' = <<>>
    /\ dev' = Initially
    /\ trial' = 0
    /\ UNCHANGED <<phase, execs, emitted, rc, files, saved, result, ref, record, nth, golden>>

----------------------------------------------------------------------------
(* The emitted programs and their executions.                              *)

Code(fn, p) == [fn |-> fn, args |-> p]
Ran == {funcIds[i] : i \in DOMAIN funcIds}

\* s was first called before t.
Before(s, t) == \E i \in DOMAIN funcIds :
    funcIds[i] = s /\ \A j \in 1..i : funcIds[j] # t

Unchanged == Code("gemm", Fp32)
Checkers == {Code("checker_GemmEx", Fp32)} \cup {Code("checker_faster_mul", p) : p \in Triples}

\* What stands at site s when t is the one to tune, or when all have been tuned.
PassTwo(s, t) ==
    IF s = t THEN {Code("tuning", Fp32)}
    ELSE IF s \in Ran /\ (t \in Ran => Before(s, t)) THEN Checkers
    ELSE {Unchanged}

FinalCode(s) ==
    {Unchanged} \cup (IF s \in Ran THEN {Code("faster_mul", p) : p \in Triples} ELSE {})

\* next_func_id when every GEMM has arguments.
AllTuned == -1
Emissions(next) ==
    CASE next = "pass1" -> [Sites -> {Code("wrapper", Fp32)}]
      [] next = "pass2" -> {e \in [Sites -> Checkers \cup {Unchanged, Code("tuning", Fp32)}] :
                              \E t \in Ran \cup {AllTuned} : \A s \in Sites : e[s] \in PassTwo(s, t)}
      [] next = "final" -> {e \in [Sites -> UNION {FinalCode(s) : s \in Sites}] :
                              \A s \in Sites : e[s] \in FinalCode(s)}

\* One execution of pass 1, executions of pass 2, executions of the final
\* program.  The driver goes on whatever an execution's exit status was.
Follows == {<<"pass1", "pass2">>, <<"pass2", "pass2">>, <<"pass2", "final">>, <<"final", "final">>}

\* A new process: counters at 0, the matrices as the program initialises them.
Execute(next) ==
    /\ todo = <<>>
    /\ execs < MaxExecutions
    /\ execs' = execs + 1
    /\ phase' = next
    /\ emitted' \in Emissions(next)
    /\ todo' \in Traces
    /\ dev' = Initially
    /\ rc' = [s \in Sites |-> 0]
    /\ nth' = [s \in Sites |-> 0]
    /\ trial' = 0
    /\ saved' = Junk /\ result' = Junk /\ ref' = Junk
    /\ record' = None
    /\ UNCHANGED <<files, golden>>

ExecutePass1 == execs = 0 /\ Execute("pass1")
ExecuteTuned ==
    /\ execs > 0
    /\ \E next \in {"pass2", "final"} : <<phase, next>> \in Follows /\ Execute(next)

Init ==
    /\ phase = "pass1"
    /\ execs = 0
    /\ emitted = [s \in Sites |-> Code("wrapper", Fp32)]
    /\ todo = <<>>
    /\ dev = Initially
    /\ rc = [s \in Sites |-> 0]
    /\ bin = [k \in LeftOver |-> Stale]
    /\ funcIds = <<>>
    /\ trial = 0
    /\ saved = Junk /\ result = Junk /\ ref = Junk
    /\ record = None
    /\ nth = [s \in Sites |-> 0]
    /\ golden = [k \in {} |-> Junk]

Next ==
    \/ ExecutePass1
    \/ ExecuteTuned
    \/ Wrapper
    \/ Plain
    \/ Faster
    \/ Checker
    \/ TuneFp32
    \/ TuneTrial
    \/ TuneReturn
    \/ ExitOnNaN

Spec == Init /\ [][Next]_vars

----------------------------------------------------------------------------
(* Properties.                                                             *)

\* Every call of the program passes the same matrix as C and D.
InPlace == \A s \in Sites : Prog[s].c = Prog[s].d

\* The matrices as the program left them at its last call: while a tuning call
\* tries out arguments, the C it will go on with is the one saved.
mem == IF trial = 0 THEN dev ELSE [dev EXCEPT ![Prog[Site].c] = saved]

Plan == INSTANCE MixedPrecision
            WITH level <- [s \in Sites |-> emitted[s].args]

\* The programs of all three passes compute what the original program would at
\* the precision of each call site: neither the nine GEMMs of a tuning call, nor
\* a check, nor its exit shows in an operand of a later call.
ImplementsMixedPrecision == Plan!Spec

NewRecord == record' \notin {record, None}

\* What a check measures is the call it stands for: the matrix compared is the
\* product, at the recorded arguments, of the operands the program passes, for
\* each of the nine records of a tuning call as well.
RecordsOfCall == [][NewRecord =>
    record'.got = Product(record'.args, record'.site, mem)]_vars

\* A result is compared with the result of the same call of the same site in
\* pass 1; beyond the calls pass 1 made, with whatever the file or the buffer
\* happens to hold.
ReferenceOfSameCall == [][NewRecord =>
    LET call == <<record'.site, nth[record'.site] + 1>>
    IN  record'.ref = IF call \in DOMAIN golden THEN golden[call]
                      ELSE IF call \in LeftOver THEN Stale ELSE Junk]_vars

\* The comment on mzw_wrapper_GemmEx: it replaces the GemmEx of the program.
WrapperReplacesGemmEx == [][Wrapper => dev' = GemmEx(Site, dev)]_vars

----------------------------------------------------------------------------
(* The inductive invariant behind them.                                    *)

TypeOK ==
    /\ phase \in {"pass1", "pass2", "final"}
    /\ execs \in 0..MaxExecutions
    /\ emitted \in [Sites -> Written]
    /\ todo \in Seq(Sites)
    /\ dev = [b \in Buffers |-> dev[b]]
    /\ rc \in [Sites -> Nat]
    /\ nth \in [Sites -> Nat]
    /\ funcIds \in Seq(Sites)
    /\ trial \in 0..9

\* A site that was replaced counts its calls, a tuning call when it starts.
CountsCalls ==
    \A s \in Sites : todo # <<>> /\ emitted[s].fn \notin {"gemm", "faster_mul"} =>
        rc[s] = IF trial # 0 /\ s = Site THEN nth[s] + 1 ELSE nth[s]

\* The files hold the results of pass 1, beside those of an earlier use.
KeepsResults ==
    /\ DOMAIN bin = DOMAIN golden \cup LeftOver
    /\ \A k \in DOMAIN golden : bin[k] = golden[k]
    /\ \A k \in LeftOver \ DOMAIN golden : bin[k] = Stale

\* What a tuning call has saved.
Tuning ==
    trial # 0 =>
        /\ At("tuning")
        /\ result = Product(Fp32, Site, mem)
        /\ ref = ReadFile(Site, nth[Site] + 1)

IInv ==
    /\ TypeOK
    /\ CountsCalls
    /\ KeepsResults
    /\ Tuning
=============================================================================
