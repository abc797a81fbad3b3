---------------------------- MODULE MCSbSTuning ----------------------------
(* Small instances of SbSTuning.                                           *)
EXTENDS SbSTuningRefinement

\* A loop: the first GEMM is called again after the second.
MCTrace2 == <<1, 2, 1>>
MCTrace3 == <<1, 2, 3>>

\* Of the eight triples, one of each kind the repair tells apart.
MCGrid == {<<0, 0, 0>>, <<1, 1, 0>>}
MCGridSkipped == {<<1, 1, 0>>}

\* Adjusting leaves of a graph of two GEMMs whether the second is related to the
\* first.  Two graphs of each kind: as adjusted, and with loops and relations to
\* later GEMMs.
MCGraphs2 == {<<{}, {}>>, <<{1, 2}, {2}>>, <<{}, {1}>>, <<{1, 2}, {1, 2}>>}

\* Every graph that adjusting three GEMMs leaves, and one that adjusting changes.
MCGraphs3 == {f \in [Gemms -> SUBSET Gemms] : \A g \in Gemms : f[g] \subseteq 1..(g - 1)}
             \cup {[g \in Gemms |-> Gemms]}
=============================================================================
