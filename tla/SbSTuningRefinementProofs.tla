--------------------- MODULE SbSTuningRefinementProofs ---------------------
(***************************************************************************)
(* Proof that SbSTuning implements TuningPlan: with losses when the        *)
(* program may exit early or the session be started over, and without any  *)
(* when neither happens.                                                   *)
(***************************************************************************)
EXTENDS SbSTuningRefinement, SbSTuningStepsProofs

----------------------------------------------------------------------------
(* Where the GEMMs of the next program come from.                          *)

LEMMA InitGathered == Init => GatheredFromCode
BY DEF Init, GatheredFromCode

\* The steps that gather arguments, one by one; no other step can end where
\* GatheredFromCode says something.
LEMMA StepGathered == IInv /\ GatheredFromCode /\ [Next]_vars => GatheredFromCode'
<1> SUFFICES ASSUME IInv, GatheredFromCode, [Next]_vars PROVE GatheredFromCode'
  OBVIOUS
<1>1. CASE ReadBanId
  BY <1>1 DEF ReadBanId, GatheredFromCode
<1>2. CASE ReadRunnedFuncIDFile
  BY <1>2 DEF ReadRunnedFuncIDFile, GatheredFromCode
<1>3. CASE ReadOptimizedDataFile
  <2>1. DOMAIN best' = IdsIn(optData) /\ pc' = "readLast" /\ tuning' = tuning
    BY <1>3 DEF ReadOptimizedDataFile, code
  <2>2. IdsIn(optData) \subseteq {tuning}
    BY DEF IInv, RecordsOfCode, IdsIn
  <2> QED BY <2>1, <2>2 DEF GatheredFromCode
<1>4. CASE ReadLastPassSeperateError
  <2>1. /\ pc = "readLast" /\ pc' = "writeBan" /\ UNCHANGED <<checked, tuning>>
        /\ DOMAIN best' = DOMAIN best \cup IdsIn(singleErr)
    BY <1>4 DEF ReadLastPassSeperateError, code
  <2>2. IdsIn(singleErr) \subseteq DOMAIN checked
    BY DEF IInv, RecordsOfCode, IdsIn
  <2> QED BY <2>1, <2>2 DEF GatheredFromCode
<1>5. CASE WriteBanId
  BY <1>5 DEF WriteBanId, GatheredFromCode, memory, code
<1>6. CASE BestArgumentsRepair
  <2>1. PICK k \in 0..N : DOMAIN best = 1..k
    BY <1>6 DEF IInv, MemoryInOrder, BestArgumentsRepair
  <2>2. ReachedFrom(toRepair) \subseteq DOMAIN best
    BY <1>6, <2>1, ReachedAreTuned DEF IInv, MemoryInOrder, BestArgumentsRepair
  <2>3. DOMAIN best' = DOMAIN best \cup ReachedFrom(toRepair)
    BY <1>6 DEF BestArgumentsRepair
  <2> QED BY <1>6, <2>2, <2>3 DEF BestArgumentsRepair, GatheredFromCode, code
<1>7. CASE ReplaceCalls
  BY <1>7 DEF ReplaceCalls, GatheredFromCode
<1>8. CASE Execute
  BY <1>8 DEF Execute, AfterRun, GatheredFromCode
<1>9. CASE GenerateFinalCode
  BY <1>9 DEF GenerateFinalCode, GatheredFromCode
<1>10. CASE Restart
  BY <1>10 DEF Restart, GatheredFromCode
<1>11. CASE Done \/ UNCHANGED vars
  BY <1>11 DEF Done, vars, memory, code, GatheredFromCode
<1> QED
  BY <1>1, <1>2, <1>3, <1>4, <1>5, <1>6, <1>7, <1>8, <1>9, <1>10, <1>11
  DEF Next, Script, Pass

\* A pass chooses arguments only for GEMMs that the program before it checked or
\* tuned, whatever an earlier session left in the files.
THEOREM GathersFromCode == Spec => []GatheredFromCode
<1> QED BY Invariance, InitGathered, StepGathered, PTL DEF Spec

----------------------------------------------------------------------------
(* The refinement.                                                         *)

LEMMA PlanInit == Init => Plan!Init
<1> SUFFICES ASSUME Init PROVE Plan!Init
  OBVIOUS
<1>1. CodeLevels = [g \in Gemms |-> -1]
  BY DEF Init, CodeLevels
<1>2. tuning = 0 /\ FinalLevels = <<>>
  BY DEF Init, FinalLevels
<1> QED BY <1>1, <1>2 DEF Plan!Init, Plan!Gemms, Plan!Untuned, Gemms

\* Only three steps change the emitted or the final code.
LEMMA PlanStutter ==
  ASSUME UNCHANGED <<checked, tuning, shipped>>
  PROVE  UNCHANGED Plan!vars
BY DEF Plan!vars, CodeLevels, FinalLevels, LevelOf, Level

\* Where nothing is lost: a single session without early exits.
LEMMA NoLosses == ~ MayLose => Undisturbed
BY ModeAssumption DEF MayLose, Undisturbed

LEMMA PlanEmit ==
  ASSUME ~ MayLose => UndisturbedInv, IInv, IInv', GatheredFromCode, ReplaceCalls
  PROVE  Plan!Emit
<1>1. /\ pc = "emit" /\ pc' = "exec" /\ checked' = best /\ shipped' = shipped
  BY DEF ReplaceCalls
<1>2. PICK k \in 0..N : DOMAIN best = 1..k /\ tuning' = IF k = N THEN 0 ELSE k + 1
  BY <1>1 DEF IInv, TunedInOrder
<1>3. \A a \in Args : LevelOf(a) = Level(a) /\ Level(a) \in 0..2
  BY ArgsFacts, LevelFacts DEF LevelOf
<1>4. /\ \A g \in DOMAIN best : best[g] \in Args
      /\ \A g \in DOMAIN checked : checked[g] \in Args
  BY DEF IInv, ArgsDefined
<1>5. \A g \in Gemms : CodeLevels'[g] = IF g <= k THEN Level(best[g]) ELSE -1
  <2>1. CodeLevels' = [g \in Gemms |-> IF g \in 1..k THEN LevelOf(best[g]) ELSE -1]
    BY <1>1, <1>2 DEF CodeLevels, LevelOf, Level
  <2> QED BY <2>1, <1>2, <1>3, <1>4, NAssumption DEF Gemms
<1>6. \A g \in Gemms : CodeLevels[g] = IF g \in DOMAIN checked THEN Level(checked[g]) ELSE -1
  BY <1>3, <1>4 DEF CodeLevels
<1>7. 1..k \subseteq Plan!Tuned \cup {tuning}
  <2>1. ASSUME NEW g \in 1..k, g # tuning
        PROVE  g \in Gemms /\ CodeLevels[g] # -1
    <3>1. g \in DOMAIN checked /\ g \in Gemms
      BY <1>1, <1>2, <2>1, NAssumption DEF GatheredFromCode, Gemms
    <3> QED BY <3>1, <1>3, <1>4, <1>6
  <2> QED BY <2>1 DEF Plan!Tuned, Plan!Gemms, Plan!Untuned, Gemms
<1>11. ~ MayLose => 1..k = (Plan!Tuned \cup {tuning}) \ {0}
  <2> SUFFICES ASSUME ~ MayLose PROVE 1..k = (Plan!Tuned \cup {tuning}) \ {0}
    OBVIOUS
  <2>1. 1..k = (DOMAIN checked \cup {tuning}) \ {0}
    BY <1>1, <1>2 DEF UndisturbedInv
  <2>2. \A g \in Gemms : CodeLevels[g] # -1 <=> g \in DOMAIN checked
    BY <1>3, <1>4, <1>6
  <2>3. DOMAIN checked = Plan!Tuned
    BY <2>2 DEF Plan!Tuned, Plan!Gemms, Plan!Untuned, Gemms, IInv, TypeOK
  <2> QED BY <2>1, <2>3
<1>8. ASSUME NEW g \in Gemms
      PROVE  /\ CodeLevels'[g] \in {-1, 0, 1, 2}
             /\ IF g <= k THEN CodeLevels'[g] \in {0, 1, 2} /\ CodeLevels'[g] >= CodeLevels[g]
                ELSE CodeLevels'[g] = -1
  <2>1. CASE g <= k
    <3>1. g \in DOMAIN best
      BY <1>2, <2>1, NAssumption DEF Gemms
    <3>2. g \in DOMAIN checked => Level(best[g]) >= Level(checked[g])
      BY <1>1, <3>1 DEF IInv, LevelsKept
    <3>3. CodeLevels'[g] = Level(best[g]) /\ Level(best[g]) \in 0..2
      BY <1>3, <1>4, <1>5, <2>1, <3>1
    <3> QED BY <1>6, <2>1, <3>2, <3>3
  <2>2. CASE ~ g <= k
    BY <1>5, <2>2
  <2> QED BY <2>1, <2>2
<1>9. CodeLevels' \in [Gemms -> {0, 1, 2} \cup {-1}]
  <2>1. CodeLevels' = [g \in Gemms |-> CodeLevels'[g]]
    BY DEF CodeLevels
  <2> QED BY <1>8, <2>1
<1>10. FinalLevels' = FinalLevels
  BY <1>1 DEF FinalLevels, LevelOf, Level
<1> QED BY <1>2, <1>7, <1>8, <1>9, <1>10, <1>11
        DEF Plan!Emit, Plan!Gemms, Plan!Levels, Plan!Untuned, Gemms

LEMMA PlanGenerate ==
  ASSUME ~ MayLose => UndisturbedInv, IInv, GenerateFinalCode
  PROVE  Plan!Generate
<1>1. /\ shipped' \in [Gemms -> Args \cup {<<>>}]
      /\ \A g \in Gemms : shipped'[g] \in ArgsIn(singleErr, g) \cup {<<>>}
      /\ UNCHANGED <<checked, tuning>>
  BY DEF GenerateFinalCode, code
<1>2. shipped' # <<>>
  <2>1. 1 \in DOMAIN shipped'
    BY <1>1, NAssumption DEF Gemms
  <2> QED BY <2>1
<1>3. FinalLevels' = [g \in Gemms |-> LevelOf(shipped'[g])]
  BY <1>2 DEF FinalLevels, LevelOf, Level
<1>4. CodeLevels' = CodeLevels
  BY <1>1 DEF CodeLevels, LevelOf, Level
<1>5. ASSUME NEW g \in Gemms
      PROVE  /\ LevelOf(shipped'[g]) \in {0, 1, 2} \cup {-1}
             /\ LevelOf(shipped'[g]) = CodeLevels[g] \/ LevelOf(shipped'[g]) = -1
  <2>1. CASE shipped'[g] = <<>>
    BY <2>1 DEF LevelOf
  <2>2. CASE shipped'[g] \in ArgsIn(singleErr, g)
    <3>1. g \in DOMAIN checked /\ shipped'[g] = checked[g] /\ checked[g] \in Args
      BY <2>2 DEF ArgsIn, IInv, RecordsOfCode, ArgsDefined
    <3>2. LevelOf(checked[g]) \in 0..2
      BY <3>1, ArgsFacts, LevelFacts DEF LevelOf
    <3> QED BY <3>1, <3>2 DEF CodeLevels
  <2> QED BY <1>1, <2>1, <2>2
<1>6. FinalLevels' \in [Gemms -> {0, 1, 2} \cup {-1}]
  BY <1>3, <1>5
<1>7. \A g \in Gemms : FinalLevels'[g] = CodeLevels[g] \/ FinalLevels'[g] = -1
  BY <1>3, <1>5
<1>8. ASSUME ~ MayLose
      PROVE  Plan!Tuned = Gemms /\ \A g \in Gemms : FinalLevels'[g] = CodeLevels[g]
  <2>1. /\ IdsIn(singleErr) = Gemms /\ DOMAIN checked = Gemms
        /\ \A g \in Gemms : shipped'[g] = checked[g]
    BY <1>8, FoundArgs DEF UndisturbedInv, GenerateFinalCode
  <2>2. \A g \in Gemms : CodeLevels[g] = LevelOf(checked[g]) /\ LevelOf(checked[g]) \in 0..2
    BY <2>1, ArgsFacts, LevelFacts DEF CodeLevels, LevelOf, IInv, ArgsDefined
  <2>3. Plan!Tuned = Gemms
    BY <2>2 DEF Plan!Tuned, Plan!Gemms, Plan!Untuned, Gemms
  <2> QED BY <1>3, <2>1, <2>2, <2>3
<1> QED BY <1>1, <1>4, <1>6, <1>7, <1>8
        DEF Plan!Generate, Plan!Gemms, Plan!Levels, Plan!Untuned, Gemms

LEMMA PlanStartOver ==
  ASSUME IInv, Restart
  PROVE  Plan!StartOver
<1>0. MayLose
  <2>1. MaxSessions > 1
    BY ModeAssumption DEF IInv, TypeOK, Restart
  <2> QED BY <2>1 DEF MayLose
<1>1. shipped' = <<>> /\ UNCHANGED <<checked, tuning>>
  BY DEF Restart, code
<1>2. FinalLevels' = <<>> /\ CodeLevels' = CodeLevels
  BY <1>1 DEF FinalLevels, CodeLevels, LevelOf, Level
<1> QED BY <1>0, <1>1, <1>2 DEF Plan!StartOver

LEMMA PlanStep ==
  ASSUME ~ MayLose => UndisturbedInv, IInv, IInv', GatheredFromCode, [Next]_vars
  PROVE  [Plan!Next]_(Plan!vars)
<1>1. CASE ReplaceCalls
  BY <1>1, PlanEmit DEF Plan!Next
<1>2. CASE GenerateFinalCode
  BY <1>2, PlanGenerate DEF Plan!Next
<1>3. CASE Restart
  BY <1>3, PlanStartOver DEF Plan!Next
<1>4. CASE \/ ReadBanId \/ ReadRunnedFuncIDFile \/ ReadOptimizedDataFile
           \/ ReadLastPassSeperateError \/ WriteBanId \/ BestArgumentsRepair
           \/ Execute \/ Done \/ UNCHANGED vars
  <2>1. UNCHANGED <<checked, tuning, shipped>>
    BY <1>4 DEF ReadBanId, ReadRunnedFuncIDFile, ReadOptimizedDataFile,
       ReadLastPassSeperateError, WriteBanId, BestArgumentsRepair, Execute, Done,
       vars, code
  <2> QED BY <2>1, PlanStutter
<1> QED BY <1>1, <1>2, <1>3, <1>4 DEF Next, Script, Pass

\* The tuning loop, with its files, passes and executions, implements the plan:
\* GEMMs are tuned one by one in order, only get more precise, and the final code
\* has no level but those of the last program executed.  What the plan allows to
\* be lost is lost only to early exits and restarts.
THEOREM Implementation == Spec => ImplementsPlan
<1>1. CASE MayLose
  <2>1. IInv /\ IInv' /\ GatheredFromCode /\ [Next]_vars => [Plan!Next]_(Plan!vars)
    BY <1>1, PlanStep
  <2>2. Spec => ImplementsPlan
    BY <2>1, PlanInit, Invariance, GathersFromCode, PTL DEF Spec, Plan!Spec, ImplementsPlan
  <2> QED BY <2>2
<1>2. CASE ~ MayLose
  <2>1. IInv /\ IInv' /\ GatheredFromCode /\ UndisturbedInv /\ [Next]_vars =>
          [Plan!Next]_(Plan!vars)
    BY PlanStep
  <2>2. Spec => []UndisturbedInv
    BY <1>2, NoLosses, UndisturbedAlways
  <2>3. Spec => ImplementsPlan
    BY <2>1, <2>2, PlanInit, Invariance, GathersFromCode, PTL DEF Spec, Plan!Spec, ImplementsPlan
  <2> QED BY <2>3
<1> QED BY <1>1, <1>2
=============================================================================
