----------------------------- MODULE TuningPlan -----------------------------
(***************************************************************************)
(* What the tuning loop promises, with no files, passes or measurements:   *)
(* the GEMMs are put on trial one by one in the order the program reaches  *)
(* them, a GEMM once tuned only ever gets more precise, and the final code *)
(* has the levels of the last program executed.                            *)
(***************************************************************************)
EXTENDS Integers

CONSTANTS
    N,      \* number of GEMMs
    Loses   \* whether programs may end early and sessions be started over

Gemms == 1..N
Untuned == -1
Levels == {0, 1, 2}   \* half precision, two refinements, fp32

VARIABLES
    level,  \* the level of each GEMM in the program last emitted
    trial,  \* the GEMM on trial in it, 0 if none
    final   \* the levels in the final code, <<>> before there is any

vars == <<level, trial, final>>

Tuned == {g \in Gemms : level[g] # Untuned}

Init ==
    /\ level = [g \in Gemms |-> Untuned]
    /\ trial = 0
    /\ final = <<>>

\* The next program: what was on trial is tuned, the next GEMM is on trial.  If
\* results were lost, the last GEMMs go back to be tuned again.
Emit ==
    /\ \E k \in 0..N :
           /\ 1..k \subseteq Tuned \cup {trial}
           /\ ~ Loses => 1..k = (Tuned \cup {trial}) \ {0}
           /\ level' \in [Gemms -> Levels \cup {Untuned}]
           /\ \A g \in Gemms :
                  IF g <= k THEN level'[g] \in Levels /\ level'[g] >= level[g]
                  ELSE level'[g] = Untuned
           /\ trial' = IF k = N THEN 0 ELSE k + 1
    /\ UNCHANGED final

\* The final code, when every GEMM is tuned.  A lost result leaves a GEMM without
\* a level.
Generate ==
    /\ ~ Loses => Tuned = Gemms
    /\ final' \in [Gemms -> Levels \cup {Untuned}]
    /\ \A g \in Gemms : final'[g] = level[g] \/ (Loses /\ final'[g] = Untuned)
    /\ UNCHANGED <<level, trial>>

StartOver ==
    /\ Loses
    /\ final' = <<>>
    /\ UNCHANGED <<level, trial>>

Next == Emit \/ Generate \/ StartOver

Spec == Init /\ [][Next]_vars
=============================================================================
