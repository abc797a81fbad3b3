-------------------------- MODULE FasterMulProofs --------------------------
(***************************************************************************)
(* Proofs about FasterMul: for GEMMs of any size, if the sums of sizes are *)
(* ints, the pool can be allocated and B is never transposed, no call      *)
(* writes past the pool and every call computes the sum it was asked for.  *)
(***************************************************************************)
EXTENDS FasterMul, TLAPS

----------------------------------------------------------------------------
(* Arithmetic.                                                             *)

LEMMA Products ==
  ASSUME NEW m \in Nat \ {0}, NEW n \in Nat \ {0}
  PROVE  m * n \in Nat \ {0}
<1>1. m * n \in Nat
  OBVIOUS
<1>2. m * n >= 1
  <2>1. m - 1 \in Nat /\ n - 1 \in Nat
    OBVIOUS
  <2>2. (m - 1) * (n - 1) \in Nat
    BY <2>1
  <2>3. m * n = (m - 1) * (n - 1) + m + n - 1
    OBVIOUS
  <2> QED BY <2>2, <2>3
<1> QED BY <1>1, <1>2

\* Where int suffices, the byte count is exact.
LEMMA Exact ==
  ASSUME NEW x \in 0..IntMax
  PROVE  /\ Bytes(2, x) = 2 * x
         /\ Bytes(4, x) = 4 * x
         /\ SizeT(Bytes(4, x) + Bytes(2, x)) = 6 * x
<1>1. IntMax * IntMax \in Nat /\ SizeMod = 4 * (IntMax * IntMax) + 8 * IntMax + 4
  BY BuildAssumption DEF SizeMod
<1>2. IntOf(x) = x
  BY DEF IntOf
<1>3. \A y \in 0..(6 * IntMax) : SizeT(y) = y
  <2>1. 6 * IntMax <= SizeMod - 1
    <3>1. \/ IntMax = 0
          \/ IntMax >= 1
      BY BuildAssumption
    <3> QED BY <1>1, <3>1, BuildAssumption
  <2> QED BY <1>1, <2>1, BuildAssumption DEF SizeT
<1>4. 2 * x \in 0..(6 * IntMax) /\ 4 * x \in 0..(6 * IntMax) /\ 6 * x \in 0..(6 * IntMax)
  BY BuildAssumption
<1>5. Bytes(2, x) = 2 * x /\ Bytes(4, x) = 4 * x
  BY <1>2, <1>3, <1>4 DEF Bytes
<1> QED BY <1>3, <1>4, <1>5

LEMMA SizesExact ==
  ASSUME SizesFit, NEW d \in Dims
  PROVE  /\ d.m * d.k \in Nat \ {0} /\ d.k * d.n \in Nat \ {0} /\ d.m * d.n \in Nat \ {0}
         /\ 2 * (d.m * d.k) + 2 * (d.k * d.n) + 2 * (d.m * d.n) <= IntMax
         /\ PoolBytes(d) = 12 * (d.m * d.k) + 12 * (d.k * d.n) + 12 * (d.m * d.n)
         /\ PoolBytes(d) <= DeviceMemory
<1>1. d.m \in Nat \ {0} /\ d.n \in Nat \ {0} /\ d.k \in Nat \ {0}
  BY DimsAssumption
<1>2. d.m * d.k \in Nat \ {0} /\ d.k * d.n \in Nat \ {0} /\ d.m * d.n \in Nat \ {0}
  BY <1>1, Products
<1> DEFINE count == 2 * (d.m * d.k) + 2 * (d.k * d.n) + 2 * (d.m * d.n)
<1>3. count <= IntMax /\ 12 * (d.m * d.k) + 12 * (d.k * d.n) + 12 * (d.m * d.n) <= DeviceMemory
  BY DEF SizesFit
<1>4. count \in 0..IntMax
  BY <1>2, <1>3, BuildAssumption
<1>5. PoolBytes(d) = 6 * count
  <2>1. PoolBytes(d) = SizeT(Bytes(4, count) + Bytes(2, count))
    BY DEF PoolBytes
  <2> HIDE DEF count
  <2> QED BY <2>1, <1>4, Exact
<1>6. 6 * count = 12 * (d.m * d.k) + 12 * (d.k * d.n) + 12 * (d.m * d.n)
  BY <1>2
<1> QED BY <1>2, <1>3, <1>5, <1>6

----------------------------------------------------------------------------
(* The layout of a call.                                                   *)

\* The matrices a call uses.
Live == {"HC", "LA0", "LB0"}
        \cup (IF AIter = 1 THEN {"HA0", "HA1", "LA1"} ELSE {})
        \cup (IF BIter = 1 THEN {"HB0", "HB1", "LB1"} ELSE {})

LEMMA Iterations ==
  ASSUME call \in Calls
  PROVE  /\ AIter \in {0, 1} /\ BIter \in {0, 1}
         /\ call.p[1] \in {0, 1} /\ call.p[2] \in {0, 1} /\ call.p[3] \in {0, 1}
         /\ call.p[1] = 1 => BIter = 1
         /\ call.p[2] = 1 => AIter = 1
         /\ call.p[3] = 1 => AIter = 1 /\ BIter = 1
BY ParamsAssumption DEF Calls, AIter, BIter

LEMMA Layout ==
  ASSUME SizesFit, call \in Calls, NEW a, NEW b,
         a = IF AIter = 1 THEN mk ELSE 0, b = IF BIter = 1 THEN kn ELSE 0
  PROVE  /\ mk \in Nat \ {0} /\ kn \in Nat \ {0} /\ mn \in Nat \ {0}
         /\ Start = [HA0 |-> 0, HA1 |-> 4 * mk,
                     HB0 |-> 8 * a, HB1 |-> 8 * a + 4 * kn,
                     HC |-> 8 * a + 8 * b,
                     LA0 |-> 8 * a + 8 * b + 8 * mn,
                     LA1 |-> 8 * a + 8 * b + 8 * mn + 2 * mk,
                     LB0 |-> 10 * a + 8 * b + 8 * mn + 2 * mk,
                     LB1 |-> 10 * a + 8 * b + 8 * mn + 2 * mk + 2 * kn]
<1>1. /\ mk \in Nat \ {0} /\ kn \in Nat \ {0} /\ mn \in Nat \ {0}
      /\ 2 * mk + 2 * kn + 2 * mn <= IntMax
  BY SizesExact DEF Calls, mk, kn, mn
<1> HIDE DEF mk, kn, mn
<1>2. AIter \in {0, 1} /\ BIter \in {0, 1}
  BY Iterations
<1>3. Bytes(4, mk) = 4 * mk /\ Bytes(4, kn) = 4 * kn /\ Bytes(4, mn) = 4 * mn
  BY <1>1, Exact, BuildAssumption
<1>4. Bytes(2, mk) = 2 * mk /\ Bytes(2, kn) = 2 * kn
  BY <1>1, Exact, BuildAssumption
<1>5. Bytes(4, 2 * AIter * mk) = 8 * a
  <2>1. 2 * AIter * mk = 2 * a /\ 2 * a \in 0..IntMax
    BY <1>1, <1>2, BuildAssumption
  <2> QED BY <2>1, <1>1, <1>2, Exact
<1>6. Bytes(4, 2 * BIter * kn) = 8 * b
  <2>1. 2 * BIter * kn = 2 * b /\ 2 * b \in 0..IntMax
    BY <1>1, <1>2, BuildAssumption
  <2> QED BY <2>1, <1>1, <1>2, Exact
<1>7. Bytes(2, (1 + AIter) * mk) = 2 * mk + 2 * a
  <2>1. (1 + AIter) * mk = mk + a /\ mk + a \in 0..IntMax
    BY <1>1, <1>2, BuildAssumption
  <2> QED BY <2>1, <1>1, <1>2, Exact
<1>8. a \in Nat /\ b \in Nat
  BY <1>1, <1>2
<1> HIDE DEF AIter, BIter
<1> QED BY <1>1, <1>3, <1>4, <1>5, <1>6, <1>7, <1>8 DEF Start, StartFrom

\* The matrices of a call are apart from each other and inside the pool.
LEMMA Separate ==
  ASSUME SizesFit, call \in Calls, pool \in Nat, PoolBytes(call.d) <= pool
  PROVE  /\ \A x, y \in Live : x # y => ~ Touches(x, Size[x], y)
         /\ \A x \in Live : ~ PastEnd(x, Size[x])
<1> DEFINE a == IF AIter = 1 THEN mk ELSE 0
           b == IF BIter = 1 THEN kn ELSE 0
<1>1. /\ mk \in Nat \ {0} /\ kn \in Nat \ {0} /\ mn \in Nat \ {0}
      /\ Start = [HA0 |-> 0, HA1 |-> 4 * mk,
                  HB0 |-> 8 * a, HB1 |-> 8 * a + 4 * kn,
                  HC |-> 8 * a + 8 * b,
                  LA0 |-> 8 * a + 8 * b + 8 * mn,
                  LA1 |-> 8 * a + 8 * b + 8 * mn + 2 * mk,
                  LB0 |-> 10 * a + 8 * b + 8 * mn + 2 * mk,
                  LB1 |-> 10 * a + 8 * b + 8 * mn + 2 * mk + 2 * kn]
  BY Layout
<1>2. pool >= 12 * mk + 12 * kn + 12 * mn
  BY <1>1, SizesExact DEF Calls, mk, kn, mn
<1>3. AIter \in {0, 1} /\ BIter \in {0, 1}
  BY Iterations
<1> HIDE DEF mk, kn, mn, AIter, BIter
<1>4. CASE AIter = 0 /\ BIter = 0
  BY <1>1, <1>2, <1>4 DEF Live, Touches, PastEnd, Size
<1>5. CASE AIter = 1 /\ BIter = 0
  BY <1>1, <1>2, <1>5 DEF Live, Touches, PastEnd, Size
<1>6. CASE AIter = 0 /\ BIter = 1
  BY <1>1, <1>2, <1>6 DEF Live, Touches, PastEnd, Size
<1>7. CASE AIter = 1 /\ BIter = 1
  BY <1>1, <1>2, <1>7 DEF Live, Touches, PastEnd, Size
<1> QED BY <1>3, <1>4, <1>5, <1>6, <1>7

\* With B as it is stored every matrix has the leading dimension of its rows, and
\* rocBLAS accepts every call.
LEMMA Leading ==
  ASSUME BAsStored, call \in Calls
  PROVE  /\ call.opB = "N" /\ call.opA \in {"N", "T"}
         /\ LdA \in Nat /\ LdB = call.d.k /\ LdC = call.d.m
         /\ NewLdA = call.d.m /\ NewLdB = call.d.k
         /\ call.d.m \in Nat \ {0} /\ call.d.k \in Nat \ {0} /\ call.d.n \in Nat \ {0}
         /\ Extent(LdC, call.d.m, call.d.n) = mn
         /\ Extent(NewLdA, call.d.m, call.d.k) = mk
         /\ Extent(NewLdB, call.d.k, call.d.n) = kn
         /\ GemmAccepts(call.opA, LdA, call.opB, LdB)
         /\ GemmAccepts(call.opA, LdA, "N", NewLdB)
         /\ GemmAccepts("N", NewLdA, call.opB, LdB)
         /\ GemmAccepts("N", NewLdA, "N", NewLdB)
         /\ SgeamAccepts(call.opB, call.d.k, call.d.n, LdB, NewLdB)
         /\ SgeamAccepts(call.opA, call.d.m, call.d.k, LdA, NewLdA)
<1>1. /\ call.d \in Dims /\ call.opA \in {"N", "T"} /\ call.opB = "N"
      /\ call.d.m \in Nat \ {0} /\ call.d.k \in Nat \ {0} /\ call.d.n \in Nat \ {0}
  BY OpsAssumption, DimsAssumption DEF BAsStored, Calls
<1>2. /\ LdA = IF call.opA = "N" THEN call.d.m ELSE call.d.k
      /\ LdB = call.d.k /\ LdC = call.d.m
      /\ NewLdA = call.d.m /\ NewLdB = call.d.k
  BY <1>1 DEF LdA, LdB, LdC, NewLdA, NewLdB
<1>3. \A x, y \in Nat : x * (y - 1) + x = x * y
  OBVIOUS
<1>4. /\ Extent(LdC, call.d.m, call.d.n) = mn
      /\ Extent(NewLdA, call.d.m, call.d.k) = mk
      /\ Extent(NewLdB, call.d.k, call.d.n) = kn
  BY <1>1, <1>2, <1>3 DEF Extent, mk, kn, mn
<1>5. /\ GemmAccepts(call.opA, LdA, call.opB, LdB)
      /\ GemmAccepts(call.opA, LdA, "N", NewLdB)
      /\ GemmAccepts("N", NewLdA, call.opB, LdB)
      /\ GemmAccepts("N", NewLdA, "N", NewLdB)
      /\ SgeamAccepts(call.opB, call.d.k, call.d.n, LdB, NewLdB)
      /\ SgeamAccepts(call.opA, call.d.m, call.d.k, LdA, NewLdA)
  BY <1>1, <1>2 DEF GemmAccepts, SgeamAccepts, Stored
<1> QED BY <1>1, <1>2, <1>4, <1>5

----------------------------------------------------------------------------
(* Writes to the pool.                                                     *)

LEMMA SpoilFacts ==
  ASSUME NEW m \in [Buffers -> Contents], NEW b, NEW len
  PROVE  /\ Spoil(m, b, len) \in [Buffers -> Contents]
         /\ \A x \in Buffers : ~ Touches(b, len, x) => Spoil(m, b, len)[x] = m[x]
<1>1. Junk \in Contents
  BY DEF Junk, Content, Contents, Vals
<1> HIDE DEF Contents, Junk, Buffers, Touches
<1> QED BY <1>1 DEF Spoil

LEMMA StoreFacts ==
  ASSUME NEW m \in [Buffers -> Contents], NEW b \in Buffers, NEW len, NEW v \in Contents
  PROVE  /\ Store(m, b, len, v) \in [Buffers -> Contents]
         /\ Store(m, b, len, v)[b] = v
         /\ \A x \in Buffers \ {b} : ~ Touches(b, len, x) => Store(m, b, len, v)[x] = m[x]
<1> HIDE DEF Contents, Buffers, Touches
<1> QED BY SpoilFacts DEF Store

\* During a call: what the invariant says of its size and of the pool.
LEMMA DuringCall ==
  ASSUME SizesFit, IInv, pc \notin {"dims", "ready"}
  PROVE  /\ call \in Calls /\ pool \in Nat /\ PoolBytes(call.d) <= pool
         /\ \A x, y \in Live : x # y => ~ Touches(x, Size[x], y)
         /\ \A x \in Live : ~ PastEnd(x, Size[x])
<1>1. call \in Calls /\ pool \in Nat /\ PoolBytes(call.d) <= pool
  BY DEF IInv, TypeOK, PoolCovers, CallRecorded
<1> QED BY <1>1, Separate

\* A step inside a call leaves the pass, the call and its layout as they are.
LEMMA Frame ==
  ASSUME IInv, pc \notin {"dims", "ready"}, pc' \notin {"dims", "ready"}, UNCHANGED <<pass, call>>
  PROVE  /\ PoolCovers' /\ CallRecorded'
         /\ AIter' = AIter /\ BIter' = BIter
         /\ LdA' = LdA /\ LdB' = LdB /\ NewLdA' = NewLdA /\ NewLdB' = NewLdB
<1>1. PoolCovers' /\ CallRecorded'
  <2>1. UNCHANGED <<file, pool, call>>
    BY DEF pass
  <2> QED BY <2>1 DEF IInv, PoolCovers, CallRecorded
<1> QED BY <1>1 DEF AIter, BIter, LdA, LdB, NewLdA, NewLdB

\* One GEMM into HP_appro_MatrixC spoils no matrix of the call.
LEMMA GemmStep ==
  ASSUME SizesFit, BAsStored, IInv, pc \notin {"dims", "ready"},
         NEW x, NEW opX, NEW ldX, NEW y, NEW opY, NEW ldY, NEW old, NEW next,
         GemmAccepts(opX, ldX, opY, ldY),
         Gemm(x, opX, ldX, y, opY, ldY, old, next)
  PROVE  /\ pc' = next
         /\ acc' = old \cup {Product(x, opX, ldX, y, opY, ldY)}
         /\ mem' \in [Buffers -> Contents]
         /\ \A z \in Live \cap Buffers : mem'[z] = mem[z]
         /\ overrun' = FALSE
<1> DEFINE len == 4 * Extent(LdC, call.d.m, call.d.n)
<1>1. len = Size["HC"]
  BY DuringCall, Leading DEF Size
<1>2. /\ pc' = next
      /\ acc' = old \cup {Product(x, opX, ldX, y, opY, ldY)}
      /\ mem' = Spoil(mem, "HC", len)
      /\ overrun' = (overrun \/ PastEnd("HC", len))
  BY DEF Gemm
<1>3. ~ overrun /\ mem \in [Buffers -> Contents]
  BY DEF IInv, InsidePool, TypeOK
<1>4. \A z \in Live \cap Buffers : ~ Touches("HC", len, z)
  BY <1>1, DuringCall DEF Live, Buffers
<1>5. ~ PastEnd("HC", len)
  BY <1>1, DuringCall DEF Live
<1> HIDE DEF len
<1>6. mem' \in [Buffers -> Contents] /\ \A z \in Live \cap Buffers : mem'[z] = mem[z]
  BY <1>2, <1>3, <1>4, SpoilFacts
<1>7. overrun' = FALSE
  BY <1>2, <1>3, <1>5
<1> QED BY <1>2, <1>6, <1>7

\* A residual is computed from its cast, in matrices of the call of the right size.
ResidualOf(name, op, ld, rows, cols, cast, back, diff, res, resName, next) ==
  /\ name \in Vals /\ resName \in Vals /\ op \in {"N", "T"} /\ ld \in Nat /\ rows \in Nat
  /\ {cast, back, diff, res} \subseteq Live \cap Buffers
  /\ cast \notin {back, diff, res} /\ back # diff /\ back # res /\ diff # res
  /\ mem[cast] = Content(name, op, ld)
  /\ Size[back] = 4 * (rows * cols)
  /\ Size[diff] = 4 * (rows * cols)
  /\ Size[res] = 2 * (rows * cols)
  /\ Extent(rows, rows, cols) = rows * cols
  /\ SgeamAccepts(op, rows, cols, ld, rows)
  /\ Residual(name, op, ld, rows, rows, cols, cast, back, diff, res, resName, next)

\* It is then stored compactly, and no other matrix of the call is spoilt.
LEMMA ResidualStep ==
  ASSUME SizesFit, IInv, pc \notin {"dims", "ready"},
         NEW name, NEW op, NEW ld, NEW rows, NEW cols,
         NEW cast, NEW back, NEW diff, NEW res, NEW resName, NEW next,
         ResidualOf(name, op, ld, rows, cols, cast, back, diff, res, resName, next)
  PROVE  /\ pc' = next
         /\ mem' \in [Buffers -> Contents]
         /\ mem'[res] = Content(resName, "N", rows)
         /\ \A z \in (Live \cap Buffers) \ {back, diff, res} : mem'[z] = mem[z]
         /\ acc' = acc
         /\ overrun' = FALSE
<1> DEFINE h == 4 * (rows * cols)
           l == 2 * (rows * cols)
           v1 == mem[cast]
           v2 == Content(resName, "N", rows)
           m1 == Store(mem, back, h, v1)
           m2 == Store(m1, diff, h, v2)
           m3 == Store(m2, res, l, v2)
<1>0. /\ name \in Vals /\ resName \in Vals /\ op \in {"N", "T"} /\ ld \in Nat /\ rows \in Nat
      /\ cast \in Live \cap Buffers /\ back \in Live \cap Buffers
      /\ diff \in Live \cap Buffers /\ res \in Live \cap Buffers
      /\ cast \notin {back, diff, res} /\ back # diff /\ back # res /\ diff # res
      /\ mem[cast] = Content(name, op, ld)
      /\ Size[back] = h /\ Size[diff] = h /\ Size[res] = l
      /\ Extent(rows, rows, cols) = rows * cols
      /\ SgeamAccepts(op, rows, cols, ld, rows)
      /\ Residual(name, op, ld, rows, rows, cols, cast, back, diff, res, resName, next)
  BY DEF ResidualOf
<1>1. ~ overrun /\ mem \in [Buffers -> Contents]
  BY DEF IInv, InsidePool, TypeOK
<1>2. /\ \A z \in Live \ {back} : ~ Touches(back, h, z)
      /\ \A z \in Live \ {diff} : ~ Touches(diff, h, z)
      /\ \A z \in Live \ {res} : ~ Touches(res, l, z)
      /\ ~ PastEnd(back, h) /\ ~ PastEnd(diff, h) /\ ~ PastEnd(res, l)
  BY <1>0, DuringCall
<1>3. v1 \in Contents /\ v2 \in Contents
  BY <1>0, <1>1 DEF Content, Contents
<1>4. m1 \in [Buffers -> Contents] /\ m1[back] = Content(name, op, ld)
  BY <1>0, <1>1, <1>3, StoreFacts
<1>5. m2 \in [Buffers -> Contents] /\ m2[diff] = v2
  <2> HIDE DEF m1
  <2> QED BY <1>0, <1>3, <1>4, StoreFacts
<1>6. m3 \in [Buffers -> Contents] /\ m3[res] = v2
  <2> HIDE DEF m2
  <2> QED BY <1>0, <1>3, <1>5, StoreFacts
<1>7. /\ pc' = next
      /\ mem' = m3
      /\ acc' = IF \/ Touches(back, h, "HC") \/ Touches(diff, h, "HC")
                   \/ Touches(res, l, "HC")
                THEN {JunkTerm} ELSE acc
      /\ overrun' = (overrun \/ PastEnd(back, h) \/ PastEnd(diff, h) \/ PastEnd(res, l))
  BY <1>0, <1>4, <1>5 DEF Residual
<1>8. ASSUME NEW z \in (Live \cap Buffers) \ {back, diff, res}
      PROVE  m3[z] = mem[z]
  <2>1. m1[z] = mem[z]
    BY <1>0, <1>1, <1>2, <1>3, StoreFacts
  <2>2. m2[z] = m1[z]
    <3> HIDE DEF m1
    <3> QED BY <1>0, <1>2, <1>3, <1>4, StoreFacts
  <2>3. m3[z] = m2[z]
    <3> HIDE DEF m2
    <3> QED BY <1>0, <1>2, <1>3, <1>5, StoreFacts
  <2> QED BY <1>0, <2>1, <2>2, <2>3
<1>9. "HC" \in Live \ {back, diff, res}
  BY <1>0 DEF Live, Buffers
<1> HIDE DEF m3, h, l
<1> QED BY <1>0, <1>1, <1>2, <1>6, <1>7, <1>8, <1>9

----------------------------------------------------------------------------
(* The steps.                                                              *)

LEMMA InitInv == Init => IInv
<1> SUFFICES ASSUME Init PROVE IInv
  OBVIOUS
<1>1. TypeOK
  <2>1. Len(file) \in Nat
    BY DEF Init, Files
  <2>2. Junk \in Contents
    BY DEF Junk, Content, Contents, Vals
  <2>3. mem \in [Buffers -> Contents]
    BY <2>2 DEF Init
  <2>4. c \in [terms : SUBSET Terms, old : {"C", "CT"}]
    BY DEF Init
  <2>5. /\ pc \in {"dims", "ready", "quan", "lp", "RB", "RA", "p1", "p2", "p3", "final",
                  "done", "exited"}
        /\ file \in Files /\ line \in 0..Len(file)
        /\ maxSize \in Nat /\ pool \in Nat
    BY <2>1 DEF Init
  <2>6. overrun \in BOOLEAN
    BY DEF Init
  <2>7. biggest \in {[m |-> 0, n |-> 0, k |-> 0]} /\ call \in {<<>>} /\ acc \subseteq Terms
    BY DEF Init
  <2> QED BY <2>3, <2>4, <2>5, <2>6, <2>7 DEF TypeOK
<1>2. PoolBytes(biggest) = 0
  <2>1. 0 \in 0..IntMax
    BY BuildAssumption
  <2>2. SizeT(Bytes(4, 0) + Bytes(2, 0)) = 6 * 0
    BY <2>1, Exact
  <2> QED BY <2>2 DEF Init, PoolBytes
<1>3. PoolCovers
  BY <1>2 DEF Init, PoolCovers
<1> QED BY <1>1, <1>3 DEF Init, IInv, CallRecorded, MemoryHolds, SumSoFar, InsidePool, ResultIsSum

LEMMA ReadDimensionStep == SizesFit /\ IInv /\ ReadDimension => IInv'
<1> SUFFICES ASSUME SizesFit, IInv, ReadDimension PROVE IInv'
  OBVIOUS
<1> DEFINE d == file[line + 1]
<1>1. /\ pc = "dims" /\ line < Len(file) /\ line' = line + 1
      /\ IF PoolBytes(d) > maxSize THEN biggest' = d /\ maxSize' = PoolBytes(d)
         ELSE UNCHANGED <<biggest, maxSize>>
      /\ UNCHANGED <<pc, file, pool, call, mem, acc, c, overrun>>
  BY DEF ReadDimension, Larger
<1>2. file \in Files /\ line \in 0..Len(file) /\ Len(file) \in Nat
  BY DEF IInv, TypeOK, Files
<1>3. d \in Dims
  BY <1>1, <1>2 DEF Files
<1>4. PoolBytes(d) \in Nat
  BY <1>3, SizesExact
<1> HIDE DEF d
<1>5. TypeOK'
  BY <1>1, <1>2, <1>3, <1>4 DEF IInv, TypeOK
<1>6. PoolCovers'
  <2>1. maxSize' = PoolBytes(biggest')
    BY <1>1 DEF IInv, PoolCovers
  <2>2. maxSize \in Nat /\ maxSize' \in Nat /\ maxSize <= maxSize' /\ PoolBytes(d) <= maxSize'
    BY <1>1, <1>4 DEF IInv, TypeOK
  <2>3. ASSUME NEW i \in 1..(line + 1)
        PROVE  PoolBytes(file[i]) <= maxSize'
    <3>1. CASE i = line + 1
      BY <2>2, <3>1 DEF d
    <3>2. CASE i # line + 1
      <4>1. i \in 1..line /\ i \in 1..Len(file)
        BY <1>1, <1>2, <3>2
      <4>2. PoolBytes(file[i]) <= maxSize
        BY <1>1, <4>1 DEF IInv, PoolCovers
      <4>3. PoolBytes(file[i]) \in Nat
        <5>1. file[i] \in Dims
          BY <1>2, <4>1 DEF Files
        <5> QED BY <5>1, SizesExact
      <4> QED BY <2>2, <4>2, <4>3
    <3> QED BY <3>1, <3>2
  <2>4. PoolBytes(biggest)' = PoolBytes(biggest')
    BY DEF PoolBytes
  <2>5. (\A i \in 1..line : PoolBytes(file[i]) <= maxSize)'
    BY <1>1, <2>3 DEF PoolBytes
  <2> QED BY <1>1, <2>1, <2>4, <2>5 DEF PoolCovers
<1> QED BY <1>1, <1>5, <1>6 DEF IInv, CallRecorded, MemoryHolds, SumSoFar, InsidePool, ResultIsSum

LEMMA AllocatePoolStep == SizesFit /\ IInv /\ AllocatePool => IInv'
<1> SUFFICES ASSUME SizesFit, IInv, AllocatePool PROVE IInv'
  OBVIOUS
<1>1. /\ pc = "dims" /\ pc' = "ready" /\ line = Len(file)
      /\ UNCHANGED <<file, line, biggest, maxSize, call, mem, acc, c, overrun>>
  BY DEF AllocatePool
<1>2. PoolBytes(biggest) \in Nat /\ PoolBytes(biggest) <= DeviceMemory
  <2>1. CASE biggest \in Dims
    BY <2>1, SizesExact
  <2>2. CASE biggest = [m |-> 0, n |-> 0, k |-> 0]
    <3>1. SizeT(Bytes(4, 0) + Bytes(2, 0)) = 6 * 0
      BY Exact, BuildAssumption
    <3> QED BY <2>2, <3>1, BuildAssumption DEF PoolBytes
  <2> QED BY <2>1, <2>2 DEF IInv, TypeOK
<1>3. pool' = PoolBytes(biggest)
  BY <1>2 DEF AllocatePool, HipMalloc
<1>4. TypeOK'
  BY <1>1, <1>2, <1>3 DEF IInv, TypeOK
<1>5. \A i \in DOMAIN file : PoolBytes(file[i]) <= pool'
  <2>1. DOMAIN file = 1..line
    BY <1>1 DEF IInv, TypeOK, Files
  <2> QED BY <1>1, <1>3, <2>1 DEF IInv, PoolCovers
<1>6. PoolCovers'
  BY <1>1, <1>5 DEF PoolCovers, PoolBytes
<1> QED BY <1>1, <1>4, <1>6 DEF IInv, CallRecorded, MemoryHolds, SumSoFar, InsidePool, ResultIsSum

LEMMA StartCallStep == IInv /\ StartCall => IInv'
<1> SUFFICES ASSUME IInv, StartCall PROVE IInv'
  OBVIOUS
<1>1. /\ pc \in {"ready", "done"} /\ pc' = "quan"
      /\ mem' = [x \in Buffers |-> Junk] /\ acc' = {} /\ c' = [terms |-> {}, old |-> "C"]
      /\ UNCHANGED <<file, line, biggest, maxSize, pool, overrun>>
  BY DEF StartCall, pass
<1>2. PICK i \in DOMAIN file, a \in OpsA, b \in OpsB, p \in Params :
        call' = [d |-> file[i], opA |-> a, opB |-> b, p |-> p]
  BY DEF StartCall
<1>3. file[i] \in Dims
  BY DEF IInv, TypeOK, Files
<1>4. call' \in Calls /\ call'.d = file[i]
  BY <1>2, <1>3 DEF Calls
<1>5. TypeOK'
  <2>1. Junk \in Contents
    BY DEF Junk, Content, Contents, Vals
  <2> QED BY <1>1, <1>4, <2>1 DEF IInv, TypeOK
<1>6. PoolCovers'
  BY <1>1 DEF IInv, PoolCovers, PoolBytes
<1>7. CallRecorded'
  BY <1>1, <1>4 DEF CallRecorded
<1> QED BY <1>1, <1>5, <1>6, <1>7 DEF IInv, MemoryHolds, SumSoFar, InsidePool, ResultIsSum

LEMMA QuantizeStep == SizesFit /\ BAsStored /\ IInv /\ Quantize => IInv'
<1> SUFFICES ASSUME SizesFit, BAsStored, IInv, Quantize PROVE IInv'
  OBVIOUS
<1> DEFINE va == Content("A", call.opA, LdA)
           vb == Content("B", call.opB, LdB)
           m1 == Store(mem, "LA0", 2 * mk, va)
           m2 == Store(m1, "LB0", 2 * kn, vb)
<1>1. pc = "quan" /\ pc' = "lp" /\ mem' = m2 /\ UNCHANGED <<pass, call, acc, c>>
  BY DEF Quantize
<1>2. va \in Contents /\ vb \in Contents
  BY DuringCall, Leading, <1>1 DEF Content, Contents, Vals
<1>3. mem \in [Buffers -> Contents]
  BY DEF IInv, TypeOK
<1>4. m1 \in [Buffers -> Contents] /\ m1["LA0"] = va
  BY <1>2, <1>3, StoreFacts DEF Buffers
<1>5. Size["LA0"] = 2 * mk /\ Size["LB0"] = 2 * kn
  BY DEF Size
<1>6. ~ Touches("LB0", 2 * kn, "LA0") /\ ~ PastEnd("LA0", 2 * mk) /\ ~ PastEnd("LB0", 2 * kn)
  BY <1>1, <1>5, DuringCall DEF Live
<1>7. m2 \in [Buffers -> Contents] /\ m2["LA0"] = va /\ m2["LB0"] = vb
  <2> HIDE DEF m1, va, vb
  <2> QED BY <1>2, <1>4, <1>6, StoreFacts DEF Buffers
<1>8. overrun' = FALSE
  BY <1>6 DEF Quantize, IInv, InsidePool
<1>9. TypeOK'
  BY <1>1, <1>7, <1>8 DEF IInv, TypeOK, pass
<1>10. MemoryHolds'
  <2>1. mem'["LA0"] = va /\ mem'["LB0"] = vb
    BY <1>1, <1>7
  <2> QED BY <1>1, <2>1 DEF MemoryHolds, LdA, LdB
<1>11. PoolCovers' /\ CallRecorded'
  BY <1>1, Frame
<1> QED BY <1>1, <1>8, <1>9, <1>10, <1>11 DEF IInv, SumSoFar, InsidePool, ResultIsSum

\* What is left to show of a step inside a call.
LEMMA InsideCall ==
  ASSUME IInv, pc \in {"lp", "RB", "RA", "p1", "p2", "p3"},
         pc' \in {"RB", "RA", "p1", "p2", "p3", "final"},
         UNCHANGED <<pass, call, c>>,
         mem' \in [Buffers -> Contents], acc' \subseteq Terms, overrun' = FALSE,
         MemoryHolds', SumSoFar'
  PROVE  IInv'
<1>1. PoolCovers' /\ CallRecorded'
  BY Frame
<1>2. TypeOK'
  <2>1. /\ UNCHANGED <<file, line, biggest, maxSize, pool, call, c>>
        /\ pc' \in {"dims", "ready", "quan", "lp", "RB", "RA", "p1", "p2", "p3", "final",
                    "done", "exited"}
    BY DEF pass
  <2>2. overrun' \in BOOLEAN
    OBVIOUS
  <2> QED BY <2>1, <2>2 DEF IInv, TypeOK
<1>3. InsidePool'
  BY DEF InsidePool
<1>4. ResultIsSum'
  BY DEF ResultIsSum
<1> QED BY <1>1, <1>2, <1>3, <1>4 DEF IInv

\* What the invariant says of the variables a step inside a call may leave alone.
LEMMA Holds ==
  ASSUME IInv
  PROVE  /\ mem \in [Buffers -> Contents] /\ acc \subseteq Terms /\ ~ overrun
         /\ MemoryHolds /\ SumSoFar
BY DEF IInv, TypeOK, InsidePool

LEMMA LowPrecisionGemmStep == SizesFit /\ BAsStored /\ IInv /\ LowPrecisionGemm => IInv'
<1> SUFFICES ASSUME SizesFit, BAsStored, IInv, LowPrecisionGemm PROVE IInv'
  OBVIOUS
<1>1. /\ pc = "lp" /\ UNCHANGED <<pass, call, c>>
      /\ Gemm("LA0", call.opA, LdA, "LB0", call.opB, LdB, {}, "RB")
  BY DEF LowPrecisionGemm
<1>2. GemmAccepts(call.opA, LdA, call.opB, LdB)
  BY <1>1, DuringCall, Leading
<1>3. /\ pc' = "RB"
      /\ acc' = {} \cup {Product("LA0", call.opA, LdA, "LB0", call.opB, LdB)}
      /\ mem' \in [Buffers -> Contents]
      /\ \A z \in Live \cap Buffers : mem'[z] = mem[z]
      /\ overrun' = FALSE
  BY <1>1, <1>2, GemmStep
<1>4. /\ mem["LA0"] = Content("A", call.opA, LdA)
      /\ mem["LB0"] = Content("B", call.opB, LdB)
  BY <1>1, Holds DEF MemoryHolds
<1>5. acc' = {<<"A", "B">>}
  BY <1>3, <1>4 DEF Product, Content
<1>6. acc' \subseteq Terms /\ SumSoFar'
  BY <1>3, <1>5 DEF Terms, Vals, SumSoFar, Promised
<1>7. MemoryHolds'
  <2>1. mem'["LA0"] = mem["LA0"] /\ mem'["LB0"] = mem["LB0"]
    BY <1>3 DEF Live, Buffers
  <2> QED BY <1>1, <1>3, <1>4, <2>1 DEF MemoryHolds, LdA, LdB
<1> QED BY <1>1, <1>3, <1>6, <1>7, InsideCall

LEMMA ResidualBStep == SizesFit /\ BAsStored /\ IInv /\ ResidualB => IInv'
<1> SUFFICES ASSUME SizesFit, BAsStored, IInv, ResidualB PROVE IInv'
  OBVIOUS
<1>1. pc = "RB" /\ UNCHANGED <<pass, call, c>>
  BY DEF ResidualB
<1>2. /\ mem["LA0"] = Content("A", call.opA, LdA)
      /\ mem["LB0"] = Content("B", call.opB, LdB)
  BY <1>1, Holds DEF MemoryHolds
<1>3. call \in Calls
  BY <1>1, DuringCall
<1>4. CASE BIter = 0
  <2>1. pc' = "RA" /\ UNCHANGED <<mem, acc, overrun>>
    BY <1>4 DEF ResidualB, Skip
  <2>2. SumSoFar'
    BY <1>1, <2>1, Holds DEF SumSoFar
  <2>3. MemoryHolds'
    BY <1>1, <1>2, <1>4, <2>1 DEF MemoryHolds, LdA, LdB, BIter
  <2>4. overrun' = FALSE
    BY <2>1, Holds
  <2> QED BY <1>1, <2>1, <2>2, <2>3, <2>4, Holds, InsideCall
<1>5. CASE BIter = 1
  <2>1. /\ pc' = "RA"
        /\ mem' \in [Buffers -> Contents]
        /\ mem'["LB1"] = Content("RB", "N", call.d.k)
        /\ \A z \in (Live \cap Buffers) \ {"HB0", "HB1", "LB1"} : mem'[z] = mem[z]
        /\ acc' = acc
        /\ overrun' = FALSE
    <3>1. Residual("B", call.opB, LdB, call.d.k, call.d.k, call.d.n,
                   "LB0", "HB0", "HB1", "LB1", "RB", "RA")
      BY <1>3, <1>5, Leading DEF ResidualB
    <3>2. {"LB0", "HB0", "HB1", "LB1"} \subseteq Live \cap Buffers
      BY <1>5 DEF Live, Buffers
    <3>3. /\ Size["HB0"] = 4 * (call.d.k * call.d.n) /\ Size["HB1"] = 4 * (call.d.k * call.d.n)
          /\ Size["LB1"] = 2 * (call.d.k * call.d.n)
      BY DEF Size, kn
    <3>4. /\ Extent(call.d.k, call.d.k, call.d.n) = call.d.k * call.d.n
          /\ call.opB \in {"N", "T"} /\ LdB \in Nat /\ call.d.k \in Nat
          /\ SgeamAccepts(call.opB, call.d.k, call.d.n, LdB, call.d.k)
      BY <1>3, Leading DEF kn
    <3>5. ResidualOf("B", call.opB, LdB, call.d.k, call.d.n,
                     "LB0", "HB0", "HB1", "LB1", "RB", "RA")
      BY <1>2, <3>1, <3>2, <3>3, <3>4 DEF ResidualOf, Vals
    <3> QED BY <1>1, <3>5, ResidualStep
  <2>2. mem'["LA0"] = mem["LA0"] /\ mem'["LB0"] = mem["LB0"]
    BY <2>1 DEF Live, Buffers
  <2>3. MemoryHolds'
    <3>1. NewLdB' = call.d.k
      BY <1>1, <1>3, Leading DEF NewLdB, LdB
    <3> QED BY <1>1, <1>2, <2>1, <2>2, <3>1 DEF MemoryHolds, LdA, LdB
  <2>4. SumSoFar'
    BY <1>1, <2>1, Holds DEF SumSoFar
  <2> QED BY <1>1, <2>1, <2>3, <2>4, Holds, InsideCall
<1> QED BY <1>3, <1>4, <1>5, Iterations

LEMMA ResidualAStep == SizesFit /\ BAsStored /\ IInv /\ ResidualA => IInv'
<1> SUFFICES ASSUME SizesFit, BAsStored, IInv, ResidualA PROVE IInv'
  OBVIOUS
<1>1. pc = "RA" /\ UNCHANGED <<pass, call, c>>
  BY DEF ResidualA
<1>2. /\ mem["LA0"] = Content("A", call.opA, LdA)
      /\ mem["LB0"] = Content("B", call.opB, LdB)
      /\ BIter = 1 => mem["LB1"] = Content("RB", "N", NewLdB)
  BY <1>1, Holds DEF MemoryHolds
<1>3. call \in Calls
  BY <1>1, DuringCall
<1>4. CASE AIter = 0
  <2>1. pc' = "p1" /\ UNCHANGED <<mem, acc, overrun>>
    BY <1>4 DEF ResidualA, Skip
  <2>2. SumSoFar'
    BY <1>1, <2>1, Holds DEF SumSoFar
  <2>3. MemoryHolds'
    <3>1. AIter' = 0 /\ BIter' = BIter /\ LdA' = LdA /\ LdB' = LdB /\ NewLdB' = NewLdB
      BY <1>1, <1>4 DEF LdA, LdB, NewLdB, AIter, BIter
    <3> QED BY <1>1, <1>2, <2>1, <3>1 DEF MemoryHolds
  <2>4. overrun' = FALSE
    BY <2>1, Holds
  <2> QED BY <1>1, <2>1, <2>2, <2>3, <2>4, Holds, InsideCall
<1>5. CASE AIter = 1
  <2>1. /\ pc' = "p1"
        /\ mem' \in [Buffers -> Contents]
        /\ mem'["LA1"] = Content("RA", "N", call.d.m)
        /\ \A z \in (Live \cap Buffers) \ {"HA0", "HA1", "LA1"} : mem'[z] = mem[z]
        /\ acc' = acc
        /\ overrun' = FALSE
    <3>1. Residual("A", call.opA, LdA, call.d.m, call.d.m, call.d.k,
                   "LA0", "HA0", "HA1", "LA1", "RA", "p1")
      BY <1>3, <1>5, Leading DEF ResidualA
    <3>2. {"LA0", "HA0", "HA1", "LA1"} \subseteq Live \cap Buffers
      BY <1>5 DEF Live, Buffers
    <3>3. /\ Size["HA0"] = 4 * (call.d.m * call.d.k) /\ Size["HA1"] = 4 * (call.d.m * call.d.k)
          /\ Size["LA1"] = 2 * (call.d.m * call.d.k)
      BY DEF Size, mk
    <3>4. /\ Extent(call.d.m, call.d.m, call.d.k) = call.d.m * call.d.k
          /\ call.opA \in {"N", "T"} /\ LdA \in Nat /\ call.d.m \in Nat
          /\ SgeamAccepts(call.opA, call.d.m, call.d.k, LdA, call.d.m)
      BY <1>3, Leading DEF mk
    <3>5. ResidualOf("A", call.opA, LdA, call.d.m, call.d.k,
                     "LA0", "HA0", "HA1", "LA1", "RA", "p1")
      BY <1>2, <3>1, <3>2, <3>3, <3>4 DEF ResidualOf, Vals
    <3> QED BY <1>1, <3>5, ResidualStep
  <2>2. /\ mem'["LA0"] = mem["LA0"] /\ mem'["LB0"] = mem["LB0"]
        /\ BIter = 1 => mem'["LB1"] = mem["LB1"]
    BY <2>1 DEF Live, Buffers
  <2>3. MemoryHolds'
    <3>1. /\ BIter' = BIter /\ LdA' = LdA /\ LdB' = LdB
          /\ NewLdB' = NewLdB /\ NewLdA' = NewLdA /\ NewLdA = call.d.m
      BY <1>1, <1>3, Leading DEF LdA, LdB, NewLdA, NewLdB, BIter
    <3> QED BY <1>1, <1>2, <2>1, <2>2, <3>1 DEF MemoryHolds
  <2>4. SumSoFar'
    BY <1>1, <2>1, Holds DEF SumSoFar
  <2> QED BY <1>1, <2>1, <2>3, <2>4, Holds, InsideCall
<1> QED BY <1>3, <1>4, <1>5, Iterations

\* The three refinements find the matrices they multiply as MemoryHolds says.
LEMMA Operands ==
  ASSUME IInv, pc \in {"p1", "p2", "p3"}
  PROVE  /\ call.p[1] = 1 => Product("LA0", call.opA, LdA, "LB1", "N", NewLdB) = <<"A", "RB">>
         /\ call.p[2] = 1 => Product("LA1", "N", NewLdA, "LB0", call.opB, LdB) = <<"RA", "B">>
         /\ call.p[3] = 1 => Product("LA1", "N", NewLdA, "LB1", "N", NewLdB) = <<"RA", "RB">>
<1>1. call \in Calls
  BY DEF IInv, CallRecorded
<1>2. /\ mem["LA0"] = Content("A", call.opA, LdA)
      /\ mem["LB0"] = Content("B", call.opB, LdB)
      /\ BIter = 1 => mem["LB1"] = Content("RB", "N", NewLdB)
      /\ AIter = 1 => mem["LA1"] = Content("RA", "N", NewLdA)
  BY Holds DEF MemoryHolds
<1>3. /\ call.p[1] = 1 => BIter = 1
      /\ call.p[2] = 1 => AIter = 1
      /\ call.p[3] = 1 => AIter = 1 /\ BIter = 1
  BY <1>1, Iterations
<1> QED BY <1>2, <1>3 DEF Product, Content

\* A refinement, done or skipped, leaves the matrices of the call as they are.
LEMMA MemoryKept ==
  ASSUME IInv, pc \in {"p1", "p2", "p3"}, pc' \in {"p2", "p3", "final"},
         UNCHANGED <<pass, call, c>>, \A z \in Live \cap Buffers : mem'[z] = mem[z]
  PROVE  MemoryHolds'
<1>1. /\ mem["LA0"] = Content("A", call.opA, LdA)
      /\ mem["LB0"] = Content("B", call.opB, LdB)
      /\ BIter = 1 => mem["LB1"] = Content("RB", "N", NewLdB)
      /\ AIter = 1 => mem["LA1"] = Content("RA", "N", NewLdA)
  BY Holds DEF MemoryHolds
<1>2. /\ mem'["LA0"] = mem["LA0"] /\ mem'["LB0"] = mem["LB0"]
      /\ BIter = 1 => mem'["LB1"] = mem["LB1"]
      /\ AIter = 1 => mem'["LA1"] = mem["LA1"]
  BY DEF Live, Buffers
<1>3. /\ AIter' = AIter /\ BIter' = BIter
      /\ LdA' = LdA /\ LdB' = LdB /\ NewLdA' = NewLdA /\ NewLdB' = NewLdB
  BY Frame
<1> QED BY <1>1, <1>2, <1>3 DEF MemoryHolds

LEMMA RefineWithRBStep == SizesFit /\ BAsStored /\ IInv /\ RefineWithRB => IInv'
<1> SUFFICES ASSUME SizesFit, BAsStored, IInv, RefineWithRB PROVE IInv'
  OBVIOUS
<1>1. pc = "p1" /\ UNCHANGED <<pass, call, c>>
  BY DEF RefineWithRB
<1>2. call \in Calls /\ acc = Promised(<<0, 0, 0>>)
  BY <1>1, DuringCall, Holds DEF SumSoFar
<1>3. /\ pc' = "p2" /\ overrun' = FALSE
      /\ mem' \in [Buffers -> Contents]
      /\ \A z \in Live \cap Buffers : mem'[z] = mem[z]
      /\ acc' = acc \cup (IF call.p[1] = 1 THEN {<<"A", "RB">>} ELSE {})
  <2>1. CASE call.p[1] = 0
    <3>1. pc' = "p2" /\ UNCHANGED <<mem, acc, overrun>>
      BY <2>1 DEF RefineWithRB, Skip
    <3>2. overrun' = FALSE
      BY <3>1, Holds
    <3> QED BY <2>1, <3>1, <3>2, Holds
  <2>2. CASE call.p[1] = 1
    <3>1. Gemm("LA0", call.opA, LdA, "LB1", "N", NewLdB, acc, "p2")
      BY <2>2 DEF RefineWithRB
    <3>2. GemmAccepts(call.opA, LdA, "N", NewLdB)
      BY <1>2, Leading
    <3>3. Product("LA0", call.opA, LdA, "LB1", "N", NewLdB) = <<"A", "RB">>
      BY <1>1, <2>2, Operands
    <3>4. /\ pc' = "p2"
          /\ acc' = acc \cup {Product("LA0", call.opA, LdA, "LB1", "N", NewLdB)}
          /\ mem' \in [Buffers -> Contents]
          /\ \A z \in Live \cap Buffers : mem'[z] = mem[z]
          /\ overrun' = FALSE
      BY <1>1, <3>1, <3>2, GemmStep
    <3> QED BY <2>2, <3>3, <3>4
  <2> QED BY <1>2, <2>1, <2>2, Iterations
<1>4. acc' = Promised(<<call.p[1], 0, 0>>)
  BY <1>2, <1>3, Iterations DEF Promised
<1>5. acc' \subseteq Terms
  BY <1>3, Holds DEF Terms, Vals
<1>6. SumSoFar'
  BY <1>1, <1>3, <1>4 DEF SumSoFar, Promised
<1>7. MemoryHolds'
  BY <1>1, <1>3, MemoryKept
<1> QED BY <1>1, <1>3, <1>5, <1>6, <1>7, InsideCall

LEMMA RefineWithRAStep == SizesFit /\ BAsStored /\ IInv /\ RefineWithRA => IInv'
<1> SUFFICES ASSUME SizesFit, BAsStored, IInv, RefineWithRA PROVE IInv'
  OBVIOUS
<1>1. pc = "p2" /\ UNCHANGED <<pass, call, c>>
  BY DEF RefineWithRA
<1>2. call \in Calls /\ acc = Promised(<<call.p[1], 0, 0>>)
  BY <1>1, DuringCall, Holds DEF SumSoFar
<1>3. /\ pc' = "p3" /\ overrun' = FALSE
      /\ mem' \in [Buffers -> Contents]
      /\ \A z \in Live \cap Buffers : mem'[z] = mem[z]
      /\ acc' = acc \cup (IF call.p[2] = 1 THEN {<<"RA", "B">>} ELSE {})
  <2>1. CASE call.p[2] = 0
    <3>1. pc' = "p3" /\ UNCHANGED <<mem, acc, overrun>>
      BY <2>1 DEF RefineWithRA, Skip
    <3>2. overrun' = FALSE
      BY <3>1, Holds
    <3> QED BY <2>1, <3>1, <3>2, Holds
  <2>2. CASE call.p[2] = 1
    <3>1. Gemm("LA1", "N", NewLdA, "LB0", call.opB, LdB, acc, "p3")
      BY <2>2 DEF RefineWithRA
    <3>2. GemmAccepts("N", NewLdA, call.opB, LdB)
      BY <1>2, Leading
    <3>3. Product("LA1", "N", NewLdA, "LB0", call.opB, LdB) = <<"RA", "B">>
      BY <1>1, <2>2, Operands
    <3>4. /\ pc' = "p3"
          /\ acc' = acc \cup {Product("LA1", "N", NewLdA, "LB0", call.opB, LdB)}
          /\ mem' \in [Buffers -> Contents]
          /\ \A z \in Live \cap Buffers : mem'[z] = mem[z]
          /\ overrun' = FALSE
      BY <1>1, <3>1, <3>2, GemmStep
    <3> QED BY <2>2, <3>3, <3>4
  <2> QED BY <1>2, <2>1, <2>2, Iterations
<1>4. acc' = Promised(<<call.p[1], call.p[2], 0>>)
  BY <1>2, <1>3, Iterations DEF Promised
<1>5. acc' \subseteq Terms
  BY <1>3, Holds DEF Terms, Vals
<1>6. SumSoFar'
  BY <1>1, <1>3, <1>4 DEF SumSoFar, Promised
<1>7. MemoryHolds'
  BY <1>1, <1>3, MemoryKept
<1> QED BY <1>1, <1>3, <1>5, <1>6, <1>7, InsideCall

LEMMA RefineWithRAAndRBStep == SizesFit /\ BAsStored /\ IInv /\ RefineWithRAAndRB => IInv'
<1> SUFFICES ASSUME SizesFit, BAsStored, IInv, RefineWithRAAndRB PROVE IInv'
  OBVIOUS
<1>1. pc = "p3" /\ UNCHANGED <<pass, call, c>>
  BY DEF RefineWithRAAndRB
<1>2. call \in Calls /\ acc = Promised(<<call.p[1], call.p[2], 0>>)
  BY <1>1, DuringCall, Holds DEF SumSoFar
<1>3. /\ pc' = "final" /\ overrun' = FALSE
      /\ mem' \in [Buffers -> Contents]
      /\ \A z \in Live \cap Buffers : mem'[z] = mem[z]
      /\ acc' = acc \cup (IF call.p[3] = 1 THEN {<<"RA", "RB">>} ELSE {})
  <2>1. CASE call.p[3] = 0
    <3>1. pc' = "final" /\ UNCHANGED <<mem, acc, overrun>>
      BY <2>1 DEF RefineWithRAAndRB, Skip
    <3>2. overrun' = FALSE
      BY <3>1, Holds
    <3> QED BY <2>1, <3>1, <3>2, Holds
  <2>2. CASE call.p[3] = 1
    <3>1. Gemm("LA1", "N", NewLdA, "LB1", "N", NewLdB, acc, "final")
      BY <2>2 DEF RefineWithRAAndRB
    <3>2. GemmAccepts("N", NewLdA, "N", NewLdB)
      BY <1>2, Leading
    <3>3. Product("LA1", "N", NewLdA, "LB1", "N", NewLdB) = <<"RA", "RB">>
      BY <1>1, <2>2, Operands
    <3>4. /\ pc' = "final"
          /\ acc' = acc \cup {Product("LA1", "N", NewLdA, "LB1", "N", NewLdB)}
          /\ mem' \in [Buffers -> Contents]
          /\ \A z \in Live \cap Buffers : mem'[z] = mem[z]
          /\ overrun' = FALSE
      BY <1>1, <3>1, <3>2, GemmStep
    <3> QED BY <2>2, <3>3, <3>4
  <2> QED BY <1>2, <2>1, <2>2, Iterations
<1>4. acc' = Promised(call.p)
  BY <1>2, <1>3, Iterations DEF Promised
<1>5. acc' \subseteq Terms
  BY <1>3, Holds DEF Terms, Vals
<1>6. SumSoFar'
  BY <1>1, <1>3, <1>4 DEF SumSoFar, Promised
<1>7. MemoryHolds'
  BY <1>1, <1>3, MemoryKept
<1> QED BY <1>1, <1>3, <1>5, <1>6, <1>7, InsideCall

\* The products of a finished call are those of its parameters.
LEMMA FinishStep == SizesFit /\ BAsStored /\ IInv /\ Finish => IInv'
<1> SUFFICES ASSUME SizesFit, BAsStored, IInv, Finish PROVE IInv'
  OBVIOUS
<1>1. pc = "final" /\ UNCHANGED <<pass, call, mem, acc, overrun>>
  BY DEF Finish
<1>2. call \in Calls /\ acc = Promised(call.p) /\ call.opB = "N"
  BY <1>1, DuringCall, Leading, Holds DEF SumSoFar
<1>3. pc' = "done"
  BY <1>2 DEF Finish, FinishOutcomes
<1>4. c' = [terms |-> Promised(call.p), old |-> "C"]
  BY <1>2, <1>3 DEF Finish
<1>5. TypeOK'
  <2>1. acc \subseteq Terms
    BY Holds
  <2>2. c' \in [terms : SUBSET Terms, old : {"C", "CT"}]
    BY <1>2, <1>4, <2>1
  <2> QED BY <1>1, <1>3, <2>2 DEF IInv, TypeOK, pass
<1>6. PoolCovers' /\ CallRecorded'
  BY <1>1, <1>3, Frame
<1>7. InsidePool'
  BY <1>1, Holds DEF InsidePool
<1>8. ResultIsSum'
  BY <1>1, <1>3, <1>4 DEF ResultIsSum, Promised
<1> QED BY <1>3, <1>5, <1>6, <1>7, <1>8 DEF IInv, MemoryHolds, SumSoFar

----------------------------------------------------------------------------
(* The theorems.                                                           *)

LEMMA StepInv == SizesFit /\ BAsStored /\ IInv /\ [Next]_vars => IInv'
<1> SUFFICES ASSUME SizesFit, BAsStored, IInv, [Next]_vars PROVE IInv'
  OBVIOUS
<1>1. CASE ReadDimension
  BY <1>1, ReadDimensionStep
<1>2. CASE AllocatePool
  BY <1>2, AllocatePoolStep
<1>3. CASE StartCall
  BY <1>3, StartCallStep
<1>4. CASE Quantize
  BY <1>4, QuantizeStep
<1>5. CASE LowPrecisionGemm
  BY <1>5, LowPrecisionGemmStep
<1>6. CASE ResidualB
  BY <1>6, ResidualBStep
<1>7. CASE ResidualA
  BY <1>7, ResidualAStep
<1>8. CASE RefineWithRB
  BY <1>8, RefineWithRBStep
<1>9. CASE RefineWithRA
  BY <1>9, RefineWithRAStep
<1>10. CASE RefineWithRAAndRB
  BY <1>10, RefineWithRAAndRBStep
<1>11. CASE Finish
  BY <1>11, FinishStep
<1>12. CASE UNCHANGED vars
  <2>1. UNCHANGED <<pc, file, line, biggest, maxSize, pool, call, mem, acc, c, overrun>>
    BY <1>12 DEF vars, pass
  <2>2. TypeOK'
    BY <2>1 DEF IInv, TypeOK
  <2>3. PoolCovers' /\ CallRecorded'
    BY <2>1 DEF IInv, PoolCovers, PoolBytes, CallRecorded
  <2>4. MemoryHolds'
    <3>1. /\ AIter' = AIter /\ BIter' = BIter
          /\ LdA' = LdA /\ LdB' = LdB /\ NewLdA' = NewLdA /\ NewLdB' = NewLdB
      BY <2>1 DEF AIter, BIter, LdA, LdB, NewLdA, NewLdB
    <3> QED BY <2>1, <3>1, Holds DEF MemoryHolds
  <2>5. SumSoFar' /\ InsidePool' /\ ResultIsSum'
    BY <2>1 DEF IInv, SumSoFar, InsidePool, ResultIsSum, Promised
  <2> QED BY <2>2, <2>3, <2>4, <2>5 DEF IInv
<1> QED BY <1>1, <1>2, <1>3, <1>4, <1>5, <1>6, <1>7, <1>8, <1>9, <1>10, <1>11, <1>12 DEF Next

\* The inductive invariant holds in every state of every run, whatever the sizes
\* of the GEMMs, if their sums are ints, the pool can be had and B is not transposed.
THEOREM CallInvariance == SizesFit /\ BAsStored /\ Spec => []IInv
<1> SUFFICES ASSUME SizesFit, BAsStored PROVE Spec => []IInv
  OBVIOUS
<1>1. Init => IInv
  BY InitInv
<1>2. IInv /\ [Next]_vars => IInv'
  BY StepInv
<1> QED BY <1>1, <1>2, PTL DEF Spec

\* No kernel of mzw_faster_mul ever writes past the end of the pool that
\* get_biggest_dimension sized.
THEOREM PoolSuffices == SizesFit /\ BAsStored /\ Spec => []InsidePool
<1> SUFFICES ASSUME SizesFit, BAsStored PROVE Spec => []InsidePool
  OBVIOUS
<1>1. Spec => []IInv
  BY CallInvariance
<1>2. IInv => InsidePool
  BY DEF IInv
<1> QED BY <1>1, <1>2, PTL

\* Every call of mzw_faster_mul returns, and leaves in C the old C and the
\* products its three parameters ask for, and nothing else.
THEOREM ComputesTheSum == SizesFit /\ BAsStored /\ Spec => []ResultIsSum
<1> SUFFICES ASSUME SizesFit, BAsStored PROVE Spec => []ResultIsSum
  OBVIOUS
<1>1. Spec => []IInv
  BY CallInvariance
<1>2. IInv => ResultIsSum
  BY DEF IInv
<1> QED BY <1>1, <1>2, PTL
=============================================================================
