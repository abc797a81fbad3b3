------------------------------ MODULE DataFlow ------------------------------
(***************************************************************************)
(* run_data_flow_analysis of the pass TUNING: which GEMMs may have written *)
(* what a GEMM reads.  For each matrix a GEMM reads, dataflow_dfs follows  *)
(* the value through the instructions that use it, through the operands of *)
(* the instruction that made it, and into the functions it is passed to;   *)
(* then jump_out_of_parent does the same and also follows a parameter out  *)
(* to the values the callers pass.  Both mark values in dfsed_value_map,   *)
(* which is emptied before each of the two, and jump_out_of_parent calls   *)
(* dataflow_dfs with the map it is using.                                  *)
(*                                                                         *)
(* A program is given by its values that belong to a function: parameters  *)
(* and instructions.  Globals and constants are left out.  A set of a      *)
(* stack is walked in any order: the order of LLVM's use lists.            *)
(***************************************************************************)
EXTENDS Integers, Sequences, FiniteSets

CONSTANTS
    Values,    \* parameters and instructions, calls of GEMMs excepted
    Ints,      \* those of an integer type
    Params,    \* the parameters of each function
    Operands,  \* the operands of each instruction that is no call
    Calls      \* all calls, in the order of the module: [in, callee, args, val]

Gemm == "rocblas_gemm_ex"

\* The functions of rocblas_tool.hip the passes TUNING and Gen do not scan, and
\* those the pass MDFID does not.
ToolFuncMap == {
    "mzw_tuning_GemmEx", "mzw_output_dimension_file", "mzw_output_FuncID_file",
    "mzw_output_Err_Performance_file", "mzw_check_rocblas_error", "mzw_wrapper_GemmEx",
    "mzw_Result_Check_Record_Performance", "mzw_faster_mul", "mzw_ReadFile",
    "mzw_WriteFile", "mzw_fp32_cast_fp16", "mzw_fp16_cast_fp32", "mzw_quan",
    "mzw_dequan", "mzw_checker_faster_mul", "mzw_checker_GemmEx"}
NotMarkedShort == {"mzw_faster_mul", "mzw_wrapper_GemmEx", "mzw_tuning_GemmEx"}
NotMarked == {"mzw_faster_mul", "mzw_wrapper_GemmEx", "mzw_tuning_GemmEx", "mzw_checker_GemmEx"}

IsGemm(c) == c.callee = Gemm
ArgsOf(c) == {c.args[k] : k \in DOMAIN c.args}

\* The arguments of a GEMM the passes look at: operands 7, 10, 14 and 17.
Reads(c) == {c.args[1], c.args[2], c.args[3]}
Writes(c) == c.args[4]

\* The functions of rocblas_tool.hip that call rocblas_gemm_ex.
ToolsWithGemms == {"mzw_wrapper_GemmEx", "mzw_tuning_GemmEx", "mzw_checker_GemmEx", "mzw_faster_mul"}

ASSUME ProgramAssumption ==
    /\ IsFiniteSet(Values)
    /\ Ints \subseteq Values
    /\ DOMAIN Operands \subseteq Values
    /\ \A i \in DOMAIN Operands : Operands[i] \subseteq Values
    /\ \A f \in DOMAIN Params : Params[f] \in Seq(Values)
    /\ Gemm \notin DOMAIN Params
    /\ Calls \in Seq([in : STRING, callee : STRING, args : Seq(Values), val : Values \cup {"none"}])
    /\ "none" \notin Values
    /\ \A i \in DOMAIN Calls : Calls[i].callee \in DOMAIN Params =>
           Len(Calls[i].args) >= Len(Params[Calls[i].callee])
    /\ \A i \in DOMAIN Calls : IsGemm(Calls[i]) =>
           /\ Len(Calls[i].args) = 4
           /\ Calls[i].in \in ToolFuncMap => Calls[i].in \in ToolsWithGemms

VARIABLES
    collected,  \* calls the first scan has seen
    number,     \* gemm_call_inst_int_map
    gemmexId,   \* gemmex_id
    at,         \* calls the second scan has seen
    walk,       \* which of the six searches for the GEMM there
    stack,      \* the loops of the running calls: what each has still to search
    visited,    \* dfsed_value_map
    related,    \* related_gemm_id_map
    dug,        \* history: the values dataflow_dfs marked in this search
    conflicts   \* history: the GEMMs for which jump_out_of_parent met one of those

scan == <<collected, number>>
history == <<dug, conflicts>>
vars == <<scan, gemmexId, at, walk, stack, visited, related, history>>

Sites == DOMAIN Calls
Numbers == 0..Len(Calls)

----------------------------------------------------------------------------
(* The graph of the program.                                               *)

\* Instructions other than calls that use v.
InstUsers(v) == {i \in DOMAIN Operands : v \in Operands[i]}

\* The parameters v is passed for: calls with another number of arguments than
\* the function has parameters are left alone.
Followed == {c \in {Calls[i] : i \in Sites} :
                c.callee \in DOMAIN Params /\ Len(c.args) = Len(Params[c.callee])}
Passes(c, v) == {k \in DOMAIN c.args : c.args[k] = v}
Dug(v) == UNION {{Params[c.callee][k] : k \in Passes(c, v)} : c \in Followed}

\* The loop over the uses of v looks at the instruction that made v, once for
\* each use: an instruction without users, as a store, is not looked at.
HasUses(v) == InstUsers(v) # {} \/ \E i \in Sites : v \in ArgsOf(Calls[i])
OperandsOf(v) ==
    IF v \in DOMAIN Operands /\ HasUses(v) THEN Operands[v] \ (Ints \cup {v}) ELSE {}

\* jump_out_of_parent also looks at the arguments of a call that made v.
ArgumentsOf(v) ==
    IF HasUses(v) THEN UNION {ArgsOf(Calls[i]) \ (Ints \cup {v}) : i \in {j \in Sites : Calls[j].val = v}}
    ELSE {}

\* What callers pass, if v is a parameter of the function it belongs to.  The
\* first scan puts the calls outside tool functions into call_inst_list.
CallsOf(f) == {i \in Sites : Calls[i].callee = f /\ Calls[i].in \notin ToolFuncMap}
PassedFor(v) ==
    UNION {{Calls[i].args[k] : i \in CallsOf(f), k \in {k \in DOMAIN Params[f] : Params[f][k] = v}} :
              f \in DOMAIN Params}

\* What a call of dataflow_dfs and one of jump_out_of_parent search next, loop
\* by loop.
Flow(vs) == {<<"dataflow_dfs", v>> : v \in vs}
Jump(vs) == {<<"jump_out_of_parent", v>> : v \in vs}
LoopsJumpingOut(search) ==
    LET v == search[2]
    IN  IF search[1] = "dataflow_dfs"
        THEN << Flow(PassedFor(v)), Flow(OperandsOf(v)), Flow(InstUsers(v) \cup Dug(v)) >>
        ELSE << Jump(PassedFor(v)), Jump(OperandsOf(v) \cup ArgumentsOf(v)),
                Jump(InstUsers(v)) \cup Flow(Dug(v)) >>
Loops(search) ==
    LET v == search[2]
    IN  IF search[1] = "dataflow_dfs"
        THEN << Flow(OperandsOf(v)), Flow(InstUsers(v) \cup Dug(v)) >>
        ELSE << Jump(PassedFor(v)), Jump(OperandsOf(v) \cup ArgumentsOf(v)),
                Jump(InstUsers(v)) \cup Flow(Dug(v)) >>

----------------------------------------------------------------------------
(* The scans.  Every pass counts the GEMMs it scans, in module order.      *)

\* The number a scan that skips the functions fs gives to a GEMM.
NumberIn(fs, i) == Cardinality({j \in 1..i : IsGemm(Calls[j]) /\ Calls[j].in \notin fs})

\* MDFID's gemm_id, and its and TUNING's count of the run counters they make.
MarkedNumber(i) == NumberIn(NotMarked, i)
MarkedCount == MarkedNumber(Len(Calls))
CountAllGemmEx == NumberIn(ToolFuncMap, Len(Calls))

\* gemm_id_tracer of TUNING and gemm_counter of Gen.
TracedNumber(i) == NumberIn(ToolFuncMap, i)

IsTarget(i) == IsGemm(Calls[i]) /\ Calls[i].in \notin ToolFuncMap

\* The first scan, a call at a time.
Collect ==
    /\ collected < Len(Calls)
    /\ collected' = collected + 1
    /\ IF IsTarget(collected')
       THEN gemmexId' = gemmexId + 1 /\ number' = [number EXCEPT ![collected'] = gemmexId']
       ELSE UNCHANGED <<gemmexId, number>>
    /\ UNCHANGED <<at, walk, stack, visited, related, history>>

\* gemmex_id = 0.
StartAnalysis ==
    /\ collected = Len(Calls)
    /\ at = -1
    /\ at' = 0
    /\ gemmexId' = 0
    /\ UNCHANGED <<scan, walk, stack, visited, related, history>>

\* The six searches: a search of each kind for each matrix.
Searches == 6
Matrix(i, w) == Calls[i].args[(w + 1) \div 2]
IsFlow(w) == w % 2 = 1
FirstSearch(i, w) == IF IsFlow(w) THEN Flow({Matrix(i, w)}) ELSE Jump({Matrix(i, w)})

Idle == stack = <<>> /\ walk \in {0, Searches}

\* The second scan.
Skip ==
    /\ at \in 0..(Len(Calls) - 1)
    /\ Idle
    /\ ~ IsTarget(at + 1)
    /\ at' = at + 1
    /\ walk' = 0
    /\ UNCHANGED <<scan, gemmexId, stack, visited, related, history>>

Target ==
    /\ at \in 0..(Len(Calls) - 1)
    /\ Idle
    /\ IsTarget(at + 1)
    /\ at' = at + 1
    /\ gemmexId' = gemmexId + 1
    /\ walk' = 1
    /\ visited' = {}
    /\ stack' = <<FirstSearch(at', 1)>>
    /\ dug' = {}
    /\ UNCHANGED <<scan, related, conflicts>>

KeptMap == visited
Cleared == {}
NextSearch ==
    /\ stack = <<>>
    /\ walk \in 1..(Searches - 1)
    /\ walk' = walk + 1
    /\ visited' = Cleared
    /\ stack' = <<FirstSearch(at, walk')>>
    /\ dug' = {}
    /\ UNCHANGED <<scan, gemmexId, at, related, conflicts>>

----------------------------------------------------------------------------
(* The searches.                                                           *)

Top == stack[Len(stack)]
Rest == SubSeq(stack, 1, Len(stack) - 1)

\* The GEMMs that write v, by their number.
WrittenBy(v) == {number[i] : i \in {j \in Sites : IsGemm(Calls[j]) /\ Writes(Calls[j]) = v}}

\* The innermost loop goes on to its next value.
NotAdvanced(s) == stack
Advanced(s) == Append(Rest, Top \ {s})

\* The innermost loop calls dataflow_dfs or jump_out_of_parent for a value that
\* was searched before: the call returns at once.
Return ==
    /\ stack # <<>>
    /\ \E s \in Top :
        /\ s[2] \in visited
        /\ stack' = Advanced(s)
        /\ conflicts' = IF s[1] = "jump_out_of_parent" /\ s[2] \in dug THEN conflicts \cup {at} ELSE conflicts
    /\ UNCHANGED <<scan, gemmexId, at, walk, visited, related, dug>>

\* dfsed_value_map[called_arg] = true
MarkedByFlow(s) == IF s[1] = "dataflow_dfs" THEN visited \cup {s[2]} ELSE visited
Marked(s) == visited \cup {s[2]}

\* It calls one of them for a new value.
Search ==
    /\ stack # <<>>
    /\ \E s \in Top :
        /\ s[2] \notin visited
        /\ stack' = Advanced(s) \o Loops(s)
        /\ visited' = Marked(s)
        /\ related' = [related EXCEPT ![gemmexId] = @ \cup WrittenBy(s[2])]
        /\ dug' = IF s[1] = "dataflow_dfs" THEN dug \cup {s[2]} ELSE dug
    /\ UNCHANGED <<scan, gemmexId, at, walk, conflicts>>

\* A loop ends.
EndLoop ==
    /\ stack # <<>>
    /\ Top = {}
    /\ stack' = Rest
    /\ UNCHANGED <<scan, gemmexId, at, walk, visited, related, history>>

Init ==
    /\ collected = 0
    /\ number = [i \in Sites |-> 0]
    /\ gemmexId = 0
    /\ at = -1
    /\ walk = 0
    /\ stack = <<>>
    /\ visited = {}
    /\ related = [n \in Numbers |-> {}]
    /\ dug = {}
    /\ conflicts = {}

Next ==
    \/ Collect
    \/ StartAnalysis
    \/ Skip
    \/ Target
    \/ NextSearch
    \/ Return
    \/ Search
    \/ EndLoop

Spec == Init /\ [][Next]_vars
FairSpec == Spec /\ WF_vars(Next)

----------------------------------------------------------------------------
(* Properties.                                                             *)

\* What each search reaches when nothing stops it: the least set of values that
\* is closed under its loops.
DigEdges == [v \in Values |-> OperandsOf(v) \cup InstUsers(v) \cup Dug(v)]
OutEdges == [v \in Values |-> OperandsOf(v) \cup ArgumentsOf(v) \cup InstUsers(v) \cup PassedFor(v)]
ClosedUnder(edges) == {S \in SUBSET Values : \A v \in S : edges[v] \subseteq S}
DigClosed == ClosedUnder(DigEdges)
OutClosed == ClosedUnder(OutEdges)
Least(family, vs) == {v \in Values : \A S \in family : vs \subseteq S => v \in S}
Dig == [v \in Values |-> Least(DigClosed, {v})]
Out == [v \in Values |-> Least(OutClosed, {v})]
\* What jump_out_of_parent reaches by way of dataflow_dfs.
DigFrom == [v \in Values |-> UNION {Dig[u] : u \in UNION {Dug(w) : w \in Out[v]}}]

\* The GEMMs a GEMM is related to: they write a value one of the searches for a
\* matrix it reads reaches.
Targets == {i \in Sites : IsTarget(i)}
RelatedTo(i) == UNION {WrittenBy(w) : w \in UNION {Dig[v] \cup Out[v] \cup DigFrom[v] : v \in Reads(Calls[i])}}

Analysed(i) == i \in Targets /\ (at > i \/ (at = i /\ Idle))

\* Only related GEMMs are found.
FindsOnlyRelated == \A i \in Targets : at >= i => related[TracedNumber(i)] \subseteq RelatedTo(i)

\* The comment on dfsed_value_map in jump_out_of_parent, that its use by both
\* searches makes no conflict: every related GEMM is found.
FindsAllRelated == \A i \in Sites : Analysed(i) => RelatedTo(i) \subseteq related[TracedNumber(i)]

\* One is missed only if a call of jump_out_of_parent returned early at a value
\* that dataflow_dfs had marked; what dataflow_dfs alone reaches never is.
FindsAllWithoutConflict ==
    \A i \in Sites : Analysed(i) =>
        /\ UNION {WrittenBy(w) : w \in UNION {Dig[v] : v \in Reads(Calls[i])}} \subseteq related[TracedNumber(i)]
        /\ i \notin conflicts => RelatedTo(i) \subseteq related[TracedNumber(i)]

\* The three passes give a GEMM the same number, and each has made its counter.
NumbersAgree ==
    /\ MarkedCount = CountAllGemmEx
    /\ \A i \in Sites : IsTarget(i) =>
        /\ MarkedNumber(i) = TracedNumber(i)
        /\ TracedNumber(i) \in 1..CountAllGemmEx
        /\ i <= collected => number[i] = TracedNumber(i)
        /\ i = at => gemmexId = TracedNumber(i)

\* The recursion ends, on loops of the data flow and recursive functions too.
AnalysisEnds == <>(at = Len(Calls) /\ Idle)

\* The calls the running loops have still to make, and those that searches for
\* values not yet marked would make.
CallsIn(loops) == UNION {{k} \X loops[k] : k \in DOMAIN loops}
CallsFrom == [s \in Flow(Values) \cup Jump(Values) |-> CallsIn(Loops(s))]
Unmarked == Values \ visited
CallsToCome == UNION {{s} \X CallsFrom[s] : s \in Flow(Unmarked) \cup Jump(Unmarked)}
WorkLeft ==
    Cardinality(CallsIn(stack)) + Len(stack) + Cardinality(CallsToCome) + 3 * Cardinality(Unmarked)

\* Why it ends: a search never starts the loops of a value twice, however the
\* data flow circles, so it makes at most one call for each edge of the graph.
\* A step without a call left to make goes on to the next search or GEMM.
ComesCloserToItsEnd ==
    [][\/ collected' > collected
       \/ at' > at
       \/ at' = at /\ walk' > walk
       \/ UNCHANGED <<collected, at, walk>> /\ WorkLeft' < WorkLeft]_vars

----------------------------------------------------------------------------
(* The inductive invariant behind the safety properties.                   *)

TypeOK ==
    /\ collected \in 0..Len(Calls)
    /\ number \in [Sites -> Numbers]
    /\ gemmexId \in Numbers
    /\ at \in -1..Len(Calls)
    /\ walk \in 0..Searches
    /\ stack \in Seq(SUBSET (Flow(Values) \cup Jump(Values)))
    /\ visited \subseteq Values
    /\ related \in [Numbers -> SUBSET Numbers]
    /\ dug \subseteq visited
    /\ conflicts \subseteq Sites

\* Where the two scans are: a search runs for a GEMM of the program only.
ScansInOrder ==
    /\ at >= 0 => collected = Len(Calls)
    /\ at <= 0 => walk = 0
    /\ walk = 0 => stack = <<>> /\ at \notin Targets
    /\ walk # 0 => at \in Targets

\* Both scans count the GEMMs they passed, and the map has entries for the
\* GEMMs the second one passed.
CountedSoFar ==
    /\ gemmexId = TracedNumber(IF at = -1 THEN collected ELSE at)
    /\ \A i \in Sites : number[i] = IF i <= collected /\ IsTarget(i) THEN TracedNumber(i) ELSE 0
    /\ \A n \in Numbers : at = -1 \/ n > gemmexId => related[n] = {}

\* What a search for GEMM i reaches in calls of each of the two functions.
FlowReach(i, w) == IF IsFlow(w) THEN Dig[Matrix(i, w)] ELSE DigFrom[Matrix(i, w)]
JumpReach(i, w) == IF IsFlow(w) THEN {} ELSE Out[Matrix(i, w)]

\* The search has not left these, and what it marked is in the map.
Pending == UNION {stack[k] : k \in DOMAIN stack}
Inside ==
    walk # 0 =>
        /\ Pending \subseteq Flow(FlowReach(at, walk)) \cup Jump(JumpReach(at, walk))
        /\ dug \subseteq FlowReach(at, walk)
        /\ visited \ dug \subseteq JumpReach(at, walk)
        /\ \A v \in visited : WrittenBy(v) \subseteq related[gemmexId]

\* Where it started, and where each marked value leads, is marked or still to
\* be searched; the way out too, unless it was cut off.
Jumped == visited \ dug
Covered ==
    walk # 0 =>
        /\ \A v \in dug : Flow(DigEdges[v] \ visited) \subseteq Pending
        /\ IsFlow(walk) => Flow({Matrix(at, walk)} \ dug) \subseteq Pending
        /\ ~ IsFlow(walk) /\ at \notin conflicts =>
               /\ Jump({Matrix(at, walk)} \ Jumped) \subseteq Pending
               /\ \A v \in Jumped : /\ Jump(OutEdges[v] \ Jumped) \subseteq Pending
                                    /\ Flow(Dug(v) \ visited) \subseteq Pending

\* What a finished search reaches is in the map.
Complete(i, w) ==
    IsFlow(w) \/ i \notin conflicts =>
        \A v \in FlowReach(i, w) \cup JumpReach(i, w) : WrittenBy(v) \subseteq related[TracedNumber(i)]
SearchesComplete ==
    \A i \in Targets : \A w \in 1..Searches :
        at > i \/ (at = i /\ walk > w) => Complete(i, w)

IInv ==
    /\ TypeOK
    /\ ScansInOrder
    /\ CountedSoFar
    /\ FindsOnlyRelated
    /\ Inside
    /\ Covered
    /\ SearchesComplete
=============================================================================
