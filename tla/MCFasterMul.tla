---------------------------- MODULE MCFasterMul ----------------------------
(* Small instances of FasterMul.                                           *)
EXTENDS FasterMul

\* Square, flat and long GEMMs.  The longest have less volume than the cube of
\* side 2 and need more memory.
MCDims == [m : 1..2, n : 1..2, k : 1..2] \cup
          {[m |-> 6, n |-> 1, k |-> 1], [m |-> 1, n |-> 6, k |-> 1], [m |-> 1, n |-> 1, k |-> 6]}
MCSquare == {[m |-> s, n |-> s, k |-> s] : s \in {2, 3}}

MCParams == {0, 1} \X {0, 1} \X {0, 1}
=============================================================================
