---------------------------- MODULE MCGemmCalls ----------------------------
(* Small instances of GemmCalls: two call sites, each of which reads what   *)
(* the other writes, and one that overwrites its own operand C.             *)
EXTENDS GemmCalls

MCTriples == {0, 1} \X {0, 1} \X {0, 1}

Gemm(x, y, z, w) == [a |-> x, b |-> y, c |-> z, d |-> w]
MCInPlace == <<Gemm("A", "B", "C", "C"), Gemm("C", "B", "A", "A")>>
MCOutOfPlace == <<Gemm("A", "B", "C", "D"), Gemm("D", "B", "A", "A")>>

\* An iteration that low precision may make longer, and a branch not taken.
MCTraces == {<<1, 2, 1>>, <<1, 2, 1, 2>>, <<1, 1>>}
MCOnce == {<<1, 2>>}

\* Files an earlier program left in the folder.
MCLeftOver == {<<1, 2>>, <<2, 2>>}
=============================================================================
