--------------------------- MODULE MixedPrecision ---------------------------
(* What every program moTuner emits promises to its user: it makes the     *)
(* GEMM calls of the original program, each with the operands the original *)
(* would have at that point, at the precision chosen for its call site.    *)
(* Recording, comparing with reference results and trying out parameters   *)
(* leave no trace in the matrices.                                         *)
EXTENDS Sequences

CONSTANTS
    Sites,       \* the call sites of rocblas_gemm_ex
    Buffers,     \* the matrices of the program
    Prog,        \* the matrices [a, b, c, d] each call site passes
    Traces,      \* the call sequences an execution may go through
    Precisions   \* fp32 and the argument triples of mzw_faster_mul

VARIABLES
    todo,   \* calls the running execution has still to make
    level,  \* the precision of each call site in the running program
    mem     \* what each matrix holds

vars == <<todo, level, mem>>

Initially == [b \in Buffers |-> <<b>>]
Product(p, s, m) == <<p, m[Prog[s].a], m[Prog[s].b], m[Prog[s].c]>>

Init ==
    /\ todo = <<>>
    /\ level \in [Sites -> Precisions]
    /\ mem = Initially

Start ==
    /\ todo = <<>>
    /\ todo' \in Traces
    /\ level' \in [Sites -> Precisions]
    /\ mem' = Initially

\* rocblas_gemm_ex: D is alpha A B + beta C.
Call ==
    /\ todo # <<>>
    /\ mem' = [mem EXCEPT ![Prog[Head(todo)].d] = Product(level[Head(todo)], Head(todo), mem)]
    /\ todo' = Tail(todo)
    /\ UNCHANGED level

\* The program ends early, and its matrices with it.
Exit ==
    /\ todo # <<>>
    /\ todo' = <<>>
    /\ mem' = Initially
    /\ UNCHANGED level

Next == Start \/ Call \/ Exit

Spec == Init /\ [][Next]_vars
=============================================================================
