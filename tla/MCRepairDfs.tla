---------------------------- MODULE MCRepairDfs ----------------------------
(* Small instances of RepairDfs.                                           *)
EXTENDS RepairDfs, TLC

\* A GEMM at each of the three levels.
MCChoices == {<<0, 0, 0>>, <<1, 1, 0>>, <<-1, -1, -1>>}
\* Three GEMMs and a call site that is not reached.  A GEMM may be related to
\* later ones, to itself and to that call site.
MCMaps == {(1 :> x) @@ (2 :> y) @@ (3 :> (z \cup {3})) @@ (4 :> {1}) :
              x \in {{}, {3}}, y \in SUBSET {1, 3}, z \in SUBSET {1, 2, 4}}
=============================================================================
