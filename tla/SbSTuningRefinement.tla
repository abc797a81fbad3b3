------------------------ MODULE SbSTuningRefinement ------------------------
(* SbSTuning implements TuningPlan: the mapping and its statement.          *)
EXTENDS SbSTuning

LevelOf(a) == IF a = <<>> THEN -1 ELSE Level(a)

\* The levels of the emitted code, those of the final code, and whether results
\* may be lost.
CodeLevels == [g \in Gemms |-> IF g \in DOMAIN checked THEN LevelOf(checked[g]) ELSE -1]
FinalLevels == IF shipped = <<>> THEN <<>> ELSE [g \in Gemms |-> LevelOf(shipped[g])]
MayLose == MayAbort \/ MaxSessions > 1

Plan == INSTANCE TuningPlan
            WITH level <- CodeLevels, trial <- tuning, final <- FinalLevels, Loses <- MayLose

\* The files, passes and executions together do what the plan says: whatever they
\* lose, reread or repair, the next program differs from the one before only by
\* tuning the GEMM on trial and raising levels, or by dropping the last GEMMs.
ImplementsPlan == Plan!Spec

\* What is gathered for the next program comes from the program before: the GEMMs
\* it checked and the one it tuned.
GatheredFromCode ==
    /\ pc = "readLast" => DOMAIN best \subseteq {tuning}
    /\ pc \in {"writeBan", "repair", "emit"} => DOMAIN best \subseteq DOMAIN checked \cup {tuning}
=============================================================================
