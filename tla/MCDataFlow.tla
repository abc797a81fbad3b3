----------------------------- MODULE MCDataFlow -----------------------------
(* A small program for DataFlow, as optimised bitcode has it.  Its         *)
(* functions are                                                           *)
(*   main   { x: gemm into x1; update(x1); block(x1) }                     *)
(*   solve  { w: gemm into w1; block(w1) }                                 *)
(*   block(q)  { r = q + i; update(q); block(r) }                          *)
(*   update(p) { g = p + i; gemm of g and p into p }                       *)
(*   last   { y: scale(y1); gemm into y1 }                                 *)
(*   scale(s)  { gemm of s into s }                                        *)
(* where x1 is loaded from the variable x, w1 from w and y1 from y.        *)
EXTENDS DataFlow

Call(f, g, as) == [in |-> f, callee |-> g, args |-> as, val |-> "none"]

MCValues == {"x", "x1", "w", "w1", "q", "r", "p", "g", "y", "y1", "s", "i", "h", "t"}
MCInts == {"i"}
Parameters(f) ==
    CASE f = "block" -> <<"q">>
      [] f = "update" -> <<"p">>
      [] f = "scale" -> <<"s">>
      [] f = "hipMalloc" -> <<"h">>
      [] OTHER -> <<>>
MCParams == [f \in {"main", "solve", "block", "update", "last", "scale", "hipMalloc"} |-> Parameters(f)]
From(v) ==
    CASE v = "x1" -> {"x"}
      [] v = "w1" -> {"w"}
      [] v = "y1" -> {"y"}
      [] v = "r" -> {"q", "i"}
      [] v = "g" -> {"p", "i"}
MCOperands == [v \in {"x1", "w1", "y1", "r", "g"} |-> From(v)]

\* The GEMMs of the tool library, in functions the passes do not scan.
ToolCalls == <<
    Call("mzw_wrapper_GemmEx", Gemm, <<"t", "t", "t", "t">>),
    Call("mzw_checker_GemmEx", Gemm, <<"t", "t", "t", "t">>),
    Call("mzw_checker_faster_mul", "mzw_faster_mul", <<"t", "t", "t">>)>>

MCCalls == <<
    Call("main", "hipMalloc", <<"x">>),
    Call("main", Gemm, <<"x1", "x1", "x1", "x1">>),
    Call("main", "update", <<"x1">>),
    Call("main", "block", <<"x1">>),
    Call("solve", "hipMalloc", <<"w">>),
    Call("solve", Gemm, <<"w1", "w1", "w1", "w1">>),
    Call("solve", "block", <<"w1">>),
    Call("block", "update", <<"q">>),
    Call("block", "block", <<"r">>)>> \o ToolCalls \o <<
    Call("update", Gemm, <<"g", "p", "p", "p">>),
    Call("last", "scale", <<"y1">>),
    Call("last", Gemm, <<"y1", "y1", "y1", "y1">>),
    Call("scale", Gemm, <<"s", "s", "s", "s">>) >>
=============================================================================
