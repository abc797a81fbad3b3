----------------------------- MODULE FasterMul -----------------------------
(***************************************************************************)
(* The memory pool and mzw_faster_mul.  A pass reads dimension.txt, takes  *)
(* the GEMM that needs the most memory and makes the program allocate one  *)
(* pool of that size; every call of mzw_faster_mul then lays out all its   *)
(* intermediate matrices in that pool, one behind the other.  A call       *)
(* splits A into its half-precision cast and a residual RA, B likewise,    *)
(* and adds to the product of the casts the products (p1) A RB, (p2) RA B  *)
(* and (p3) RA RB.                                                         *)
(*                                                                         *)
(* A matrix in the pool is modelled by what it holds and how it is stored, *)
(* and a write by the bytes it covers: it destroys every other matrix it   *)
(* touches.  The matrices of the program are stored without gaps, as the   *)
(* comment on leading dimensions in mzw_faster_mul assumes.                *)
(***************************************************************************)
EXTENDS Integers, Sequences

CONSTANTS
    Dims,         \* the sizes [m, n, k] a GEMM of the program may have
    MaxLines,     \* bound: lines of dimension.txt
    OpsA,         \* what a program asks for A: "N" as stored, "T" transposed
    OpsB,         \* the same for B
    Params,       \* the triples (p1,p2,p3) of the emitted calls
    IntMax,       \* largest int
    Widens,       \* whether this build computes int products in wider registers
    DeviceMemory  \* what hipMalloc can give

ASSUME DimsAssumption == Dims \subseteq [m : Nat \ {0}, n : Nat \ {0}, k : Nat \ {0}]
ASSUME OpsAssumption == OpsA \subseteq {"N", "T"} /\ OpsB \subseteq {"N", "T"}
ASSUME ParamsAssumption == Params \subseteq ({0, 1} \X {0, 1} \X {0, 1})
ASSUME BuildAssumption ==
    /\ MaxLines \in Nat \ {0}
    /\ IntMax \in Nat
    /\ Widens \in BOOLEAN
    /\ DeviceMemory \in Nat

VARIABLES
    pc,       \* the step the pass, or the call, is at
    file,     \* dimension.txt
    line,     \* lines of it read
    biggest,  \* pool_m, pool_n, pool_k
    maxSize,  \* max_size
    pool,     \* bytes allocated at memory_pool, 0 if it is null
    call,     \* size, operations and parameters of the running call
    mem,      \* what each matrix in the pool holds, HP_appro_MatrixC apart
    acc,      \* the products summed in HP_appro_MatrixC
    c,        \* the program's matrix C
    overrun   \* whether a write has gone past the end of the pool

pass == <<file, line, biggest, maxSize, pool>>
vars == <<pc, pass, call, mem, acc, c, overrun>>

----------------------------------------------------------------------------
(* Sizes are computed in int and converted to size_t.  An int that         *)
(* overflows wraps around, or is exact where the build widens it.          *)

SizeMod == 4 * (IntMax + 1) * (IntMax + 1)
IntOf(x) == IF Widens \/ x <= IntMax THEN x
            ELSE ((x + IntMax + 1) % (2 * (IntMax + 1))) - (IntMax + 1)
SizeT(x) == IF x \in 0..(SizeMod - 1) THEN x ELSE x % SizeMod
Bytes(width, count) == SizeT(width * IntOf(count))

\* The sum that get_biggest_dimension and runOnModule both compute.
PoolBytes(d) ==
    LET count == 2 * (d.m * d.k) + 2 * (d.k * d.n) + 2 * (d.m * d.n)
    IN  SizeT(Bytes(4, count) + Bytes(2, count))

LargerByVolume(d) == d.m * d.n * d.k > biggest.m * biggest.n * biggest.k
Larger(d) == PoolBytes(d) > maxSize

----------------------------------------------------------------------------
(* The layout of a call.                                                   *)

mk == call.d.m * call.d.k
kn == call.d.k * call.d.n
mn == call.d.m * call.d.n
AIter == IF 1 \in {call.p[2], call.p[3]} THEN 1 ELSE 0
BIter == IF 1 \in {call.p[1], call.p[3]} THEN 1 ELSE 0

\* H.. are fp32 and L.. fp16 matrices; ..0 belongs to the cast and ..1 to the
\* residual.  The two TMP matrices and LP_MatrixC are never used.
Buffers == {"HA0", "HA1", "HB0", "HB1", "LA0", "LA1", "LB0", "LB1"}

\* The layout with the first matrix of a group at base: H and L groups follow
\* each other, with room for 2 or no H matrices and 1 or 2 L matrices.
StartFrom(hb, hc) ==
    LET la == hc + Bytes(4, mn) + Bytes(4, mn)
        lb == la + Bytes(2, (1 + AIter) * mk)
    IN  [HA0 |-> 0,  HA1 |-> Bytes(4, mk),
         HB0 |-> hb, HB1 |-> hb + Bytes(4, kn),
         HC  |-> hc,
         LA0 |-> la, LA1 |-> la + Bytes(2, mk),
         LB0 |-> lb, LB1 |-> lb + Bytes(2, kn)]
StartSwapped ==
    LET hb == Bytes(4, 2 * AIter * mk)
    IN  StartFrom(hb, hb + Bytes(4, 2 * AIter * kn))
Start ==
    LET hb == Bytes(4, 2 * AIter * mk)
    IN  StartFrom(hb, hb + Bytes(4, 2 * BIter * kn))

Size == [HA0 |-> 4 * mk, HA1 |-> 4 * mk, HB0 |-> 4 * kn, HB1 |-> 4 * kn,
         HC  |-> 4 * mn,
         LA0 |-> 2 * mk, LA1 |-> 2 * mk, LB0 |-> 2 * kn, LB1 |-> 2 * kn]

\* Leading dimensions: of the stored matrices, and of the residuals, which are
\* stored untransposed.  The code sets new_ldA where it means new_ldB.
LdA == IF call.opA = "N" THEN call.d.m ELSE call.d.k
LdB == IF call.opB = "N" THEN call.d.k ELSE call.d.n
LdC == call.d.m
NewLdA == IF call.opB = "T" THEN call.d.k
          ELSE IF call.opA = "T" THEN call.d.m ELSE LdA
NewLdB == LdB

----------------------------------------------------------------------------
(* Writes to the pool.                                                     *)

\* What a matrix holds, the operation that makes it the matrix meant, and its
\* leading dimension.
Content(val, op, ld) == [val |-> val, op |-> op, ld |-> ld]
Junk == Content("junk", "N", 0)
JunkTerm == <<"junk", "junk">>

Touches(b, len, x) == Start[b] < Start[x] + Size[x] /\ Start[x] < Start[b] + len
PastEnd(b, len) == Start[b] + len > pool

\* The matrices other than b after len bytes were written at b.
Spoil(m, b, len) ==
    [x \in Buffers |-> IF x # b /\ Touches(b, len, x) THEN Junk ELSE m[x]]
Store(m, b, len, content) == [Spoil(m, b, len) EXCEPT ![b] = content]

\* Elements from the first to the last one of a matrix.
Extent(ld, rows, cols) == ld * (cols - 1) + rows
Stored(op, rows, cols) == IF op = "N" THEN rows ELSE cols

\* rocblas_gemm_ex and rocblas_sgeam reject a leading dimension that is smaller
\* than a stored column.
GemmAccepts(opX, ldX, opY, ldY) ==
    /\ ldX >= Stored(opX, call.d.m, call.d.k)
    /\ ldY >= Stored(opY, call.d.k, call.d.n)
    /\ LdC >= call.d.m
SgeamAccepts(op, rows, cols, ldX, ldZ) == ldX >= Stored(op, rows, cols) /\ ldZ >= rows

\* A GEMM of two matrices of the pool multiplies the ones meant only if it is
\* told how they are stored.
Product(x, opX, ldX, y, opY, ldY) ==
    IF /\ mem[x].op = opX /\ mem[x].ld = ldX
       /\ mem[y].op = opY /\ mem[y].ld = ldY
    THEN <<mem[x].val, mem[y].val>> ELSE JunkTerm

----------------------------------------------------------------------------
(* The pass: get_biggest_dimension and the allocation it puts into main.   *)

ReadDimension ==
    /\ pc = "dims"
    /\ line < Len(file)
    /\ line' = line + 1
    /\ LET d == file[line + 1]
       IN  IF Larger(d) THEN biggest' = d /\ maxSize' = PoolBytes(d)
           ELSE UNCHANGED <<biggest, maxSize>>
    /\ UNCHANGED <<pc, file, pool, call, mem, acc, c, overrun>>

\* The result of hipMalloc is not looked at; the pointer stays null.
HipMalloc(size) == IF size <= DeviceMemory THEN size ELSE 0

AllocatePool ==
    /\ pc = "dims"
    /\ line = Len(file)
    /\ pc' = "ready"
    /\ pool' = HipMalloc(PoolBytes(biggest))
    /\ UNCHANGED <<file, line, biggest, maxSize, call, mem, acc, c, overrun>>

----------------------------------------------------------------------------
(* The call, one action per part of mzw_faster_mul.                        *)

\* The program calls GEMMs of the sizes pass 1 recorded.  A new layout gives the
\* bytes of the pool a new meaning, so whatever they hold is junk.
StartCall ==
    /\ pc \in {"ready", "done"}
    /\ pc' = "quan"
    /\ \E i \in DOMAIN file, a \in OpsA, b \in OpsB, p \in Params :
           call' = [d |-> file[i], opA |-> a, opB |-> b, p |-> p]
    /\ mem' = [x \in Buffers |-> Junk]
    /\ acc' = {}
    /\ c' = [terms |-> {}, old |-> "C"]
    /\ UNCHANGED <<pass, overrun>>

Quantize ==
    /\ pc = "quan"
    /\ pc' = "lp"
    /\ mem' = Store(Store(mem, "LA0", 2 * mk, Content("A", call.opA, LdA)),
                    "LB0", 2 * kn, Content("B", call.opB, LdB))
    /\ overrun' = (overrun \/ PastEnd("LA0", 2 * mk) \/ PastEnd("LB0", 2 * kn))
    /\ UNCHANGED <<pass, call, acc, c>>

\* One rocblas_gemm_ex into HP_appro_MatrixC, added to what old says is there.
\* ROC_BLAS_CHECK exits if the call is rejected.
Gemm(x, opX, ldX, y, opY, ldY, old, next) ==
    IF GemmAccepts(opX, ldX, opY, ldY)
    THEN LET len == 4 * Extent(LdC, call.d.m, call.d.n)
         IN  /\ pc' = next
             /\ acc' = old \cup {Product(x, opX, ldX, y, opY, ldY)}
             /\ mem' = Spoil(mem, "HC", len)
             /\ overrun' = (overrun \/ PastEnd("HC", len))
    ELSE pc' = "exited" /\ UNCHANGED <<mem, acc, overrun>>

LowPrecisionGemm ==
    /\ pc = "lp"
    /\ Gemm("LA0", call.opA, LdA, "LB0", call.opB, LdB, {}, "RB")
    /\ UNCHANGED <<pass, call, c>>

\* Dequantize the cast, subtract it from the matrix of the program, untransposed,
\* and quantize the difference.
Residual(name, op, ld, newLd, rows, cols, cast, back, diff, res, resName, next) ==
    LET h == 4 * (rows * cols)
        ext == 4 * Extent(newLd, rows, cols)
        l == 2 * (rows * cols)
        m1 == Store(mem, back, h, mem[cast])
        m2 == Store(m1, diff, ext,
                    IF m1[back] = Content(name, op, ld)
                    THEN Content(resName, "N", newLd) ELSE Junk)
        m3 == Store(m2, res, l, IF newLd = rows THEN m2[diff] ELSE Junk)
    IN  IF SgeamAccepts(op, rows, cols, ld, newLd)
        THEN /\ pc' = next
             /\ mem' = m3
             /\ acc' = IF \/ Touches(back, h, "HC") \/ Touches(diff, ext, "HC")
                          \/ Touches(res, l, "HC")
                       THEN {JunkTerm} ELSE acc
             /\ overrun' = (overrun \/ PastEnd(back, h) \/ PastEnd(diff, ext)
                                    \/ PastEnd(res, l))
        ELSE pc' = "exited" /\ UNCHANGED <<mem, acc, overrun>>

Skip(next) == pc' = next /\ UNCHANGED <<mem, acc, overrun>>

ResidualB ==
    /\ pc = "RB"
    /\ IF BIter = 0 THEN Skip("RA")
       ELSE Residual("B", call.opB, LdB, NewLdB, call.d.k, call.d.n,
                     "LB0", "HB0", "HB1", "LB1", "RB", "RA")
    /\ UNCHANGED <<pass, call, c>>

ResidualA ==
    /\ pc = "RA"
    /\ IF AIter = 0 THEN Skip("p1")
       ELSE Residual("A", call.opA, LdA, NewLdA, call.d.m, call.d.k,
                     "LA0", "HA0", "HA1", "LA1", "RA", "p1")
    /\ UNCHANGED <<pass, call, c>>

RefineWithRB ==
    /\ pc = "p1"
    /\ IF call.p[1] = 0 THEN Skip("p2")
       ELSE Gemm("LA0", call.opA, LdA, "LB1", "N", NewLdB, acc, "p2")
    /\ UNCHANGED <<pass, call, c>>

RefineWithRA ==
    /\ pc = "p2"
    /\ IF call.p[2] = 0 THEN Skip("p3")
       ELSE Gemm("LA1", "N", NewLdA, "LB0", call.opB, LdB, acc, "p3")
    /\ UNCHANGED <<pass, call, c>>

RefineWithRAAndRB ==
    /\ pc = "p3"
    /\ IF call.p[3] = 0 THEN Skip("final")
       ELSE Gemm("LA1", "N", NewLdA, "LB1", "N", NewLdB, acc, "final")
    /\ UNCHANGED <<pass, call, c>>

\* rocblas_sgeam in place, C := alpha HC + beta op(C), with the operation of B
\* for C.  It may refuse to transpose a matrix onto itself.
FinishOutcomes ==
    (IF LdC >= Stored(call.opB, call.d.m, call.d.n) THEN {"done"} ELSE {})
    \cup (IF call.opB = "T" THEN {"exited"} ELSE {})

Finish ==
    /\ pc = "final"
    /\ pc' \in FinishOutcomes
    /\ c' = IF pc' = "exited" THEN c
            ELSE [terms |-> acc, old |-> IF call.opB = "N" THEN "C" ELSE "CT"]
    /\ UNCHANGED <<pass, call, mem, acc, overrun>>

----------------------------------------------------------------------------

Files == UNION {[1..n -> Dims] : n \in 1..MaxLines}

Init ==
    /\ pc = "dims"
    /\ file \in Files
    /\ line = 0
    /\ biggest = [m |-> 0, n |-> 0, k |-> 0]
    /\ maxSize = 0
    /\ pool = 0
    /\ call = <<>>
    /\ mem = [x \in Buffers |-> Junk]
    /\ acc = {}
    /\ c = [terms |-> {}, old |-> "C"]
    /\ overrun = FALSE

Next ==
    \/ ReadDimension
    \/ AllocatePool
    \/ StartCall
    \/ Quantize
    \/ LowPrecisionGemm
    \/ ResidualB
    \/ ResidualA
    \/ RefineWithRB
    \/ RefineWithRA
    \/ RefineWithRAAndRB
    \/ Finish

Spec == Init /\ [][Next]_vars

----------------------------------------------------------------------------
(* Properties.                                                             *)

\* The pool is allocated for one size only, and every call of every recorded
\* size, with whatever parameters, stays inside it: no kernel of mzw_faster_mul
\* writes past its end.
InsidePool == ~ overrun

\* The products the parameters of a call ask for.
Promised(p) ==
    {<<"A", "B">>} \cup (IF p[1] = 1 THEN {<<"A", "RB">>} ELSE {})
                  \cup (IF p[2] = 1 THEN {<<"RA", "B">>} ELSE {})
                  \cup (IF p[3] = 1 THEN {<<"RA", "RB">>} ELSE {})

\* A call succeeds and leaves in C the products its parameters ask for, added to
\* the old C: no intermediate matrix overwrites another one still needed, and
\* each is read the way it was stored, whether A was transposed or not.
ResultIsSum ==
    /\ pc # "exited"
    /\ pc = "done" => c = [terms |-> Promised(call.p), old |-> "C"]

----------------------------------------------------------------------------
(* What the two properties need of the program and the device, and the     *)
(* inductive invariant behind them.                                        *)

\* The sum of pool elements of each GEMM is an int, and the pool can be had.
SizesFit ==
    \A d \in Dims :
        /\ 2 * (d.m * d.k) + 2 * (d.k * d.n) + 2 * (d.m * d.n) <= IntMax
        /\ 12 * (d.m * d.k) + 12 * (d.k * d.n) + 12 * (d.m * d.n) <= DeviceMemory

\* No GEMM transposes B.
BAsStored == OpsB \subseteq {"N"}

Calls == [d : Dims, opA : OpsA, opB : OpsB, p : Params]
Vals == {"A", "B", "RA", "RB", "junk"}
Contents == [val : Vals, op : {"N", "T"}, ld : Nat]
Terms == Vals \X Vals

TypeOK ==
    /\ pc \in {"dims", "ready", "quan", "lp", "RB", "RA", "p1", "p2", "p3", "final",
               "done", "exited"}
    /\ file \in Files
    /\ line \in 0..Len(file)
    /\ biggest \in Dims \cup {[m |-> 0, n |-> 0, k |-> 0]}
    /\ maxSize \in Nat
    /\ pool \in Nat
    /\ call \in Calls \cup {<<>>}
    /\ mem \in [Buffers -> Contents]
    /\ acc \subseteq Terms
    /\ c \in [terms : SUBSET Terms, old : {"C", "CT"}]
    /\ overrun \in BOOLEAN

\* The pool is as large as the sum computed for any recorded size.
PoolCovers ==
    /\ pc = "dims" => /\ maxSize = PoolBytes(biggest)
                      /\ \A i \in 1..line : PoolBytes(file[i]) <= maxSize
    /\ pc # "dims" => \A i \in DOMAIN file : PoolBytes(file[i]) <= pool

CallRecorded ==
    pc \notin {"dims", "ready"} => call \in Calls /\ \E i \in DOMAIN file : call.d = file[i]

\* The casts and the residuals, once computed, stay what they are until the call
\* has used them.
MemoryHolds ==
    /\ pc \in {"lp", "RB", "RA", "p1", "p2", "p3"} =>
           /\ mem["LA0"] = Content("A", call.opA, LdA)
           /\ mem["LB0"] = Content("B", call.opB, LdB)
    /\ pc \in {"RA", "p1", "p2", "p3"} /\ BIter = 1 =>
           mem["LB1"] = Content("RB", "N", NewLdB)
    /\ pc \in {"p1", "p2", "p3"} /\ AIter = 1 =>
           mem["LA1"] = Content("RA", "N", NewLdA)

\* The sum has the products of the refinements done so far.
SumSoFar ==
    /\ pc \in {"RB", "RA", "p1"} => acc = Promised(<<0, 0, 0>>)
    /\ pc = "p2" => acc = Promised(<<call.p[1], 0, 0>>)
    /\ pc = "p3" => acc = Promised(<<call.p[1], call.p[2], 0>>)
    /\ pc = "final" => acc = Promised(call.p)

IInv ==
    /\ TypeOK
    /\ PoolCovers
    /\ CallRecorded
    /\ MemoryHolds
    /\ SumSoFar
    /\ InsidePool
    /\ ResultIsSum
=============================================================================
