------------------------ MODULE SbSTuningStepsProofs ------------------------
(***************************************************************************)
(* Proofs of what a pass may do to the arguments and the bans, with early  *)
(* exits and interruptions, and of what a session without them achieves:   *)
(* every GEMM tuned once and the checked arguments shipped.                *)
(***************************************************************************)
EXTENDS SbSTuningProofs

\* The steps that are the only ones to leave or to reach a place.
LEMMA StepFacts ==
  ASSUME IInv, [Next]_vars
  PROVE  /\ pc = "emit" /\ pc' = "exec" => ReplaceCalls
         /\ pc = "repair" /\ pc' = "emit" => BestArgumentsRepair
         /\ pc = "done" /\ pc' = "done" => UNCHANGED vars
BY DEF Next, Script, Pass, ReadBanId, ReadRunnedFuncIDFile, ReadOptimizedDataFile,
       ReadLastPassSeperateError, WriteBanId, BestArgumentsRepair, ReplaceCalls,
       Execute, AfterRun, GenerateFinalCode, Restart, Done, vars

----------------------------------------------------------------------------
(* The bans.                                                               *)

\* While the pass does not hold the content of ban_id.txt, the file has all
\* bans of the pass.
InPass == {"readIds", "readOpt", "readLast", "writeBan"}
BansOnFile == pc \notin InPass => banned \subseteq banFile

LEMMA BansOnFileStep == BansOnFile /\ [Next]_vars => BansOnFile'
<1> SUFFICES ASSUME BansOnFile, [Next]_vars PROVE BansOnFile'
  OBVIOUS
<1> USE DEF BansOnFile, InPass
<1>1. CASE ReadBanId \/ ReadRunnedFuncIDFile \/ ReadOptimizedDataFile \/ ReadLastPassSeperateError
  BY <1>1 DEF ReadBanId, ReadRunnedFuncIDFile, ReadOptimizedDataFile, ReadLastPassSeperateError
<1>2. CASE WriteBanId
  BY <1>2 DEF WriteBanId, memory
<1>3. CASE BestArgumentsRepair \/ ReplaceCalls \/ GenerateFinalCode
  BY <1>3 DEF BestArgumentsRepair, ReplaceCalls, GenerateFinalCode, files, memory
<1>4. CASE Execute
  BY <1>4 DEF Execute, memory
<1>5. CASE Restart
  BY <1>5 DEF Restart
<1>6. CASE Done \/ UNCHANGED vars
  BY <1>6 DEF Done, vars, files, memory
<1> QED BY <1>1, <1>2, <1>3, <1>4, <1>5, <1>6 DEF Next, Script, Pass

\* What a step does to the bans: only one of Restart can lose some.
LEMMA BansStep ==
  ASSUME BansOnFile, [Next]_vars
  PROVE  \/ banFile \cup banned \subseteq banFile' \cup banned'
         \/ Restart /\ pc \in InPass
<1>1. CASE ReadBanId
  BY <1>1 DEF ReadBanId, BansRead, BansOnFile, InPass
<1>2. CASE ReadRunnedFuncIDFile \/ ReadOptimizedDataFile \/ ReadLastPassSeperateError \/ WriteBanId
  BY <1>2 DEF ReadRunnedFuncIDFile, ReadOptimizedDataFile, ReadLastPassSeperateError, WriteBanId, memory
<1>3. CASE BestArgumentsRepair \/ ReplaceCalls \/ GenerateFinalCode
  BY <1>3 DEF BestArgumentsRepair, ReplaceCalls, GenerateFinalCode, files, memory
<1>4. CASE Execute
  BY <1>4 DEF Execute, memory
<1>5. CASE Restart
  BY <1>5 DEF Restart, BansOnFile
<1>6. CASE Done \/ UNCHANGED vars
  BY <1>6 DEF Done, vars, files, memory
<1> QED BY <1>1, <1>2, <1>3, <1>4, <1>5, <1>6 DEF Next, Script, Pass

LEMMA BansAlwaysOnFile == Spec => []BansOnFile
<1>1. Init => BansOnFile
  BY DEF Init, BansOnFile
<1> QED BY <1>1, BansOnFileStep, PTL DEF Spec

\* A ban is lost only to an interruption while read_ban_id has emptied
\* ban_id.txt and write_ban_id has not yet written it.
THEOREM BansSurvive == Spec => BansLostOnlyInPass
<1>1. IInv /\ BansOnFile /\ [Next]_vars =>
        [ \/ banFile \cup banned \subseteq banFile' \cup banned'
          \/ /\ sessions' # sessions
             /\ pc \in {"readIds", "readOpt", "readLast", "writeBan"}]_vars
  <2> SUFFICES ASSUME IInv, BansOnFile, [Next]_vars, Restart, pc \in InPass
               PROVE  sessions' # sessions
    BY BansStep DEF InPass
  <2> QED BY DEF Restart, IInv, TypeOK
<1> QED BY <1>1, BansAlwaysOnFile, Invariance, PTL DEF Spec, BansLostOnlyInPass

\* In one session no ban is ever lost.
THEOREM BansAreKept == MaxSessions = 1 /\ Spec => BansKept
<1>1. MaxSessions = 1 /\ IInv => ~ Restart
  BY DEF IInv, TypeOK, Restart
<1>2. MaxSessions = 1 /\ IInv /\ BansOnFile /\ [Next]_vars =>
        [banFile \cup banned \subseteq banFile' \cup banned']_vars
  BY <1>1, BansStep
<1>3. CASE MaxSessions = 1
  <2>1. IInv /\ BansOnFile /\ [Next]_vars => [banFile \cup banned \subseteq banFile' \cup banned']_vars
    BY <1>2, <1>3
  <2>2. Spec => BansKept
    BY <2>1, BansAlwaysOnFile, Invariance, PTL DEF Spec, BansKept
  <2> QED BY <2>2
<1>4. CASE MaxSessions # 1
  BY <1>4
<1> QED BY <1>3, <1>4

----------------------------------------------------------------------------
(* The list of GEMMs.                                                      *)

\* Only the first pass of a session can find a GEMM twice in calledFuncID.txt:
\* the file stays as it is while the driver's loop reads it.
THEOREM ListStays == Spec => ListUnchangedInLoop
<1>1. IInv /\ [Next]_vars => [runs > 0 /\ sessions' = sessions => idFile' = idFile]_vars
  <2> SUFFICES ASSUME IInv, [Next]_vars, runs > 0, sessions' = sessions
               PROVE  idFile' = idFile
    OBVIOUS
  <2>1. CASE ReadRunnedFuncIDFile
    BY <2>1 DEF ReadRunnedFuncIDFile, MakeRunnedFuncIDSet, IInv, DriverInv
  <2>2. CASE \/ ReadBanId \/ ReadOptimizedDataFile \/ ReadLastPassSeperateError \/ WriteBanId
             \/ BestArgumentsRepair \/ ReplaceCalls \/ GenerateFinalCode
    BY <2>2 DEF ReadBanId, ReadOptimizedDataFile, ReadLastPassSeperateError, WriteBanId,
                BestArgumentsRepair, ReplaceCalls, GenerateFinalCode, files
  <2>3. CASE Execute
    BY <2>3 DEF Execute
  <2>4. CASE Restart
    BY <2>4 DEF Restart, IInv, TypeOK
  <2>5. CASE Done \/ UNCHANGED vars
    BY <2>5 DEF Done, vars, files
  <2> QED BY <2>1, <2>2, <2>3, <2>4, <2>5 DEF Next, Script, Pass
<1> QED BY <1>1, Invariance, PTL DEF Spec, ListUnchangedInLoop

----------------------------------------------------------------------------
(* The arguments.                                                          *)

\* Adding one to a level, by way of Upgrade.
LEMMA UpgradeOneLevel ==
  ASSUME NEW a \in Args, a # Fp32
  PROVE  Level(Upgrade(a)) = Level(a) + 1
BY ArgsFacts DEF Level, Upgrade, Skipped, Fp32

\* What a pass has done, at each of its steps, to the arguments a GEMM was
\* checked with.
Kept(g) == best[g] = checked[g] \/ (g \in banned /\ best[g] = Fp32)
Upgraded(g) ==
  /\ Kept(g) \/ Level(best[g]) = Level(checked[g]) + 1
  /\ g \in toRepair => Level(best[g]) > Level(checked[g]) \/ checked[g] = Fp32
ArgsInPass ==
  /\ pc \in {"writeBan", "repair"} => \A g \in DOMAIN best \cap DOMAIN checked : Kept(g)
  /\ pc = "emit" => /\ toRepair \subseteq DOMAIN best
                    /\ \A g \in DOMAIN best \cap DOMAIN checked : Upgraded(g)

LEMMA ReadKeeps == IInv /\ ReadLastPassSeperateError => ArgsInPass'
<1> SUFFICES ASSUME IInv, ReadLastPassSeperateError,
                    NEW g \in DOMAIN best', g \in DOMAIN checked'
             PROVE  Kept(g)'
  BY DEF ArgsInPass, ReadLastPassSeperateError
<1>1. PICK last \in [IdsIn(singleErr) -> Args] :
        /\ \A h \in IdsIn(singleErr) : last[h] \in ArgsIn(singleErr, h)
        /\ best' = [h \in DOMAIN best \cup IdsIn(singleErr) |->
                        IF h \in IdsIn(singleErr) THEN KeptArgs(h, last[h]) ELSE best[h]]
  BY DEF ReadLastPassSeperateError
<1>2. UNCHANGED <<banned, checked>>
  BY DEF ReadLastPassSeperateError, code
<1>3. g \in IdsIn(singleErr)
  BY <1>1, <1>2 DEF IInv, LevelsKept, ReadLastPassSeperateError
<1>4. last[g] = checked[g]
  BY <1>1, <1>3 DEF IInv, RecordsOfCode, ArgsIn
<1>5. best'[g] = KeptArgs(g, checked[g])
  BY <1>1, <1>3, <1>4
<1> QED BY <1>2, <1>5 DEF Kept, KeptArgs

LEMMA RepairUpgrades == IInv /\ ArgsInPass /\ BestArgumentsRepair => ArgsInPass'
<1> DEFINE reached == ReachedFrom(toRepair)
<1> SUFFICES ASSUME IInv, ArgsInPass, BestArgumentsRepair
             PROVE  /\ toRepair' \subseteq DOMAIN best'
                    /\ \A g \in DOMAIN best' \cap DOMAIN checked' : Upgraded(g)'
  BY DEF ArgsInPass, BestArgumentsRepair
<1>1. UNCHANGED <<banned, toRepair, checked>> /\ pc = "repair"
  BY DEF BestArgumentsRepair, code
<1>2. PICK k \in 0..N : DOMAIN best = 1..k
  BY <1>1 DEF IInv, MemoryInOrder
<1>3. toRepair \subseteq DOMAIN best /\ reached \subseteq DOMAIN best
  BY <1>1, <1>2, ReachedAreTuned DEF IInv, MemoryInOrder
<1>4. toRepair \subseteq reached
  BY <1>3 DEF ReachedFrom, IInv, TypeOK
<1>12. toRepair' \subseteq DOMAIN best'
  BY <1>1, <1>3 DEF BestArgumentsRepair
<1> SUFFICES ASSUME NEW g \in DOMAIN best', g \in DOMAIN checked'
             PROVE  Upgraded(g)'
  BY <1>12
<1>5. /\ DOMAIN best' = DOMAIN best
      /\ best'[g] = IF g \notin reached THEN best[g]
                    ELSE IF Level(best[g]) = 2 THEN Fp32 ELSE Upgrade(best[g])
  BY <1>3 DEF BestArgumentsRepair, ArgsOf
<1> HIDE DEF reached
<1>6. g \in DOMAIN best /\ g \in DOMAIN checked /\ best[g] \in Args /\ checked[g] \in Args
  BY <1>1, <1>5 DEF IInv, ArgsDefined
<1>7. Kept(g)
  BY <1>1, <1>6 DEF ArgsInPass
<1>8. /\ Level(best[g]) = 2 <=> best[g] = Fp32
      /\ Level(Fp32) = 2
      /\ Level(best[g]) \in 0..2 /\ Level(checked[g]) \in 0..2
      /\ best[g] # Fp32 => Level(Upgrade(best[g])) = Level(best[g]) + 1
      /\ Level(checked[g]) = 2 <=> checked[g] = Fp32
  BY <1>6, LevelFacts, UpgradeOneLevel
<1>9. CASE g \notin reached
  <2>1. best'[g] = best[g] /\ g \notin toRepair
    BY <1>4, <1>5, <1>9
  <2> QED BY <1>1, <1>7, <2>1 DEF Upgraded, Kept
<1>10. CASE g \in reached /\ best[g] = Fp32
  <2>1. best'[g] = Fp32
    BY <1>5, <1>8, <1>10
  <2> QED BY <1>1, <1>7, <1>8, <1>10, <2>1 DEF Upgraded, Kept
<1>11. CASE g \in reached /\ best[g] # Fp32
  <2>1. Level(best'[g]) = Level(best[g]) + 1 /\ best[g] = checked[g]
    BY <1>5, <1>7, <1>8, <1>11 DEF Kept
  <2>2. Level(best'[g]) = Level(checked[g]) + 1 /\ Level(best'[g]) > Level(checked[g])
    BY <1>8, <2>1
  <2> QED BY <1>1, <2>2 DEF Upgraded
<1> QED BY <1>9, <1>10, <1>11

LEMMA ArgsInPassStep == IInv /\ ArgsInPass /\ [Next]_vars => ArgsInPass'
<1> SUFFICES ASSUME IInv, ArgsInPass, [Next]_vars PROVE ArgsInPass'
  OBVIOUS
<1>1. CASE WriteBanId
  <2>1. /\ pc = "writeBan" /\ pc' = "repair"
        /\ UNCHANGED <<best, banned, checked>>
    BY <1>1 DEF WriteBanId, memory, code
  <2> QED BY <2>1 DEF ArgsInPass, Kept
<1>2. CASE \/ ReadBanId \/ ReadRunnedFuncIDFile \/ ReadOptimizedDataFile \/ ReplaceCalls
           \/ Execute \/ GenerateFinalCode \/ Restart
  <2>1. pc' \notin {"writeBan", "repair", "emit"}
    BY <1>2 DEF ReadBanId, ReadRunnedFuncIDFile, ReadOptimizedDataFile, ReplaceCalls,
                Execute, AfterRun, GenerateFinalCode, Restart
  <2> QED BY <2>1 DEF ArgsInPass
<1>3. CASE Done \/ UNCHANGED vars
  <2>1. UNCHANGED <<pc, best, banned, toRepair, checked>>
    BY <1>3 DEF Done, vars, memory, code
  <2> QED BY <2>1 DEF ArgsInPass, Upgraded, Kept
<1> QED BY <1>1, <1>2, <1>3, ReadKeeps, RepairUpgrades DEF Next, Script, Pass

LEMMA ArgsAlwaysInPass == Spec => []ArgsInPass
<1>1. Init => ArgsInPass
  BY DEF Init, ArgsInPass
<1> QED BY <1>1, ArgsInPassStep, Invariance, PTL DEF Spec

\* From one instrumented program to the next a GEMM goes up one level at most,
\* unless it is banned and goes to fp32.
THEOREM OneLevelAtATime == Spec => OneLevelPerPass
<1>1. IInv /\ ArgsInPass /\ [Next]_vars =>
        [pc = "emit" /\ pc' = "exec" =>
          \A g \in DOMAIN checked \cap DOMAIN checked' :
            \/ checked'[g] = checked[g]
            \/ Level(checked'[g]) = Level(checked[g]) + 1
            \/ g \in banned /\ checked'[g] = Fp32]_vars
  <2> SUFFICES ASSUME IInv, ArgsInPass, [Next]_vars, pc = "emit", pc' = "exec",
                      NEW g \in DOMAIN checked, g \in DOMAIN checked'
               PROVE  \/ checked'[g] = checked[g]
                      \/ Level(checked'[g]) = Level(checked[g]) + 1
                      \/ g \in banned /\ checked'[g] = Fp32
    OBVIOUS
  <2>1. checked' = best
    BY StepFacts DEF ReplaceCalls
  <2> QED BY <2>1 DEF ArgsInPass, Upgraded, Kept
<1> QED BY <1>1, ArgsAlwaysInPass, Invariance, PTL DEF Spec, OneLevelPerPass

\* A GEMM that failed is checked at a higher level next, or is fp32 already.
THEOREM FailureUpgrades == Spec => FailedIsUpgraded
<1>1. IInv /\ ArgsInPass /\ [Next]_vars =>
        [pc = "emit" /\ pc' = "exec" =>
          \A g \in toRepair \cap DOMAIN checked :
            Level(checked'[g]) > Level(checked[g]) \/ checked[g] = Fp32]_vars
  <2> SUFFICES ASSUME IInv, ArgsInPass, [Next]_vars, pc = "emit", pc' = "exec",
                      NEW g \in toRepair, g \in DOMAIN checked
               PROVE  Level(checked'[g]) > Level(checked[g]) \/ checked[g] = Fp32
    OBVIOUS
  <2>1. checked' = best
    BY StepFacts DEF ReplaceCalls
  <2>2. Upgraded(g)
    BY DEF ArgsInPass
  <2> QED BY <2>1, <2>2 DEF Upgraded
<1> QED BY <1>1, ArgsAlwaysInPass, Invariance, PTL DEF Spec, FailedIsUpgraded

\* The search from the failing GEMMs goes to GEMMs that run before them only.
LEMMA ReachedRunBefore ==
  ASSUME TypeOK, NEW g \in ReachedFrom(toRepair)
  PROVE  \E h \in toRepair : g <= h
<1> DEFINE S == {f \in Gemms : \E h \in toRepair : f <= h}
<1>1. toRepair \subseteq Gemms /\ Gemms \subseteq Nat
  BY NAssumption DEF TypeOK, Gemms
<1>2. toRepair \subseteq S
  BY <1>1
<1>3. \A f \in S : Adjusted(f) \subseteq S
  <2> SUFFICES ASSUME NEW f \in Gemms, NEW h \in toRepair, f <= h, NEW e \in Adjusted(f)
               PROVE  e \in Gemms /\ e <= h
    OBVIOUS
  <2>1. e \in Gemms /\ e < f
    BY GraphsAssumption DEF TypeOK, Adjusted
  <2> QED BY <1>1, <2>1
<1>4. S \in SUBSET Gemms
  OBVIOUS
<1>5. g \in S
  BY <1>2, <1>3, <1>4 DEF ReachedFrom
<1> QED BY <1>5

\* A GEMM that runs after every failing one keeps its arguments.
THEOREM RepairReachesBack == Spec => RepairGoesBack
<1>1. IInv /\ [Next]_vars =>
        [pc = "repair" /\ pc' = "emit" =>
          \A g \in DOMAIN best :
            best'[g] # best[g] => \E h \in toRepair : g <= h]_vars
  <2> SUFFICES ASSUME IInv, [Next]_vars, pc = "repair", pc' = "emit",
                      NEW g \in DOMAIN best, best'[g] # best[g]
               PROVE  \E h \in toRepair : g <= h
    OBVIOUS
  <2>1. g \in ReachedFrom(toRepair)
    BY StepFacts DEF BestArgumentsRepair
  <2> QED BY <2>1, ReachedRunBefore DEF IInv
<1> QED BY <1>1, Invariance, PTL DEF Spec, RepairGoesBack

----------------------------------------------------------------------------
(* The final code.                                                         *)

\* What Gen finds on file for a GEMM are the arguments it was checked with.
LEMMA FoundArgs ==
  ASSUME IInv, NEW g \in IdsIn(singleErr)
  PROVE  g \in DOMAIN checked /\ ArgsIn(singleErr, g) = {checked[g]}
<1>1. \A r \in singleErr : r.gemm \in DOMAIN checked /\ r.args = checked[r.gemm]
  BY DEF IInv, RecordsOfCode
<1>2. PICK r \in singleErr : r.gemm = g
  BY DEF IdsIn
<1> QED BY <1>1, <1>2 DEF ArgsIn

LEMMA ShipsStep == IInv /\ ShipsNothingElse /\ [Next]_vars => ShipsNothingElse'
<1> SUFFICES ASSUME IInv, ShipsNothingElse, [Next]_vars, pc' = "done"
             PROVE  \A g \in Gemms : shipped'[g] # <<>> =>
                        g \in DOMAIN checked' /\ shipped'[g] = checked'[g]
  BY DEF ShipsNothingElse
<1>1. GenerateFinalCode \/ UNCHANGED vars
  BY DEF Next, Script, Pass, ReadBanId, ReadRunnedFuncIDFile, ReadOptimizedDataFile,
     ReadLastPassSeperateError, WriteBanId, BestArgumentsRepair, ReplaceCalls,
     Execute, AfterRun, Restart, Done
<1>2. CASE GenerateFinalCode
  <2> SUFFICES ASSUME NEW g \in Gemms, shipped'[g] # <<>>
               PROVE  g \in DOMAIN checked /\ shipped'[g] = checked[g]
    BY <1>2 DEF GenerateFinalCode, code
  <2>1. g \in IdsIn(singleErr) /\ shipped'[g] \in ArgsIn(singleErr, g)
    BY <1>2 DEF GenerateFinalCode
  <2> QED BY <2>1, FoundArgs
<1>3. CASE UNCHANGED vars
  BY <1>3 DEF ShipsNothingElse, vars, code
<1> QED BY <1>1, <1>2, <1>3

\* Whatever executions and sessions left behind, Gen puts no arguments in the
\* final code but those of the last instrumented program.
THEOREM ShipsCheckedOnly == Spec => []ShipsNothingElse
<1>1. Init => ShipsNothingElse
  BY DEF Init, ShipsNothingElse
<1> QED BY <1>1, ShipsStep, Invariance, PTL DEF Spec

----------------------------------------------------------------------------
(* One session in which no execution exits early.                          *)

\* The GEMMs that have arguments in the pass after so many executions.
Count == IF runs < N THEN runs ELSE N

\* No GEMM is skipped or tuned again: at each step the files, the memory or
\* the emitted code hold the first Count GEMMs, and during a pass the code it
\* follows has checked or tuned just these.
UndisturbedInv ==
  /\ pc \notin {"exec", "gen", "done"} =>
         (DOMAIN checked \cup {tuning}) \ {0} = 1..Count
  /\ pc \in {"readBan", "readIds", "readOpt"} =>
         IdsIn(singleErr) \cup IdsIn(optData) = 1..Count
  /\ pc = "readLast" => DOMAIN best \cup IdsIn(singleErr) = 1..Count
  /\ pc \in {"writeBan", "repair", "emit"} =>
         DOMAIN best = 1..Count /\ best = [g \in DOMAIN best |-> best[g]]
  /\ pc = "exec" => DOMAIN checked = 1..Count
  /\ pc = "gen" => IdsIn(singleErr) = Gemms /\ DOMAIN checked = Gemms
  /\ pc \in {"exec", "gen"} => checked = [g \in DOMAIN checked |-> checked[g]]
  /\ pc = "done" => shipped = checked

Undisturbed == ~ MayAbort /\ MaxSessions = 1

LEMMA CountRange == TypeOK => Count \in 0..N
BY NAssumption DEF TypeOK, Count

LEMMA SameIntervals ==
  ASSUME NEW a \in Nat, NEW b \in Nat, 1..a = 1..b
  PROVE  a = b
<1>1. a > 0 => a \in 1..b
  OBVIOUS
<1>2. b > 0 => b \in 1..a
  OBVIOUS
<1> QED BY <1>1, <1>2

\* An execution that runs to its end measures every GEMM that is checked and
\* the one that is tuned.
LEMMA SlotsCoverAll ==
  ASSUME IInv, NEW k \in 0..N, DOMAIN checked = 1..k, tuning = IF k = N THEN 0 ELSE k + 1
  PROVE  {Trace[s[1]] : s \in Slots} = IF k = N THEN 1..N ELSE 1..(k + 1)
<1> DEFINE ids == {Trace[s[1]] : s \in Slots}
<1>1. ids \subseteq 1..k \cup {k + 1}
  <2>1. Slots \in Prefixes
    BY DEF Prefixes
  <2> QED BY <2>1, PrefixInOrder DEF IInv
<1>2. ASSUME NEW g \in Gemms, Measures(g) \cap Args # {} PROVE g \in ids
  <2>1. PICK p \in DOMAIN Trace : Trace[p] = g
    BY TraceAssumption
  <2>2. PICK a \in Args : a \in Measures(g)
    BY <1>2
  <2>3. <<p, a>> \in Slots
    BY <2>1, <2>2 DEF Slots
  <2> QED BY <2>1, <2>3
<1>3. 1..k \subseteq ids
  <2> SUFFICES ASSUME NEW g \in 1..k PROVE g \in ids
    OBVIOUS
  <2>1. g \in Gemms /\ checked[g] \in Args /\ checked[g] \in Measures(g)
    BY NAssumption DEF IInv, ArgsDefined, Measures, Gemms
  <2> QED BY <1>2, <2>1
<1>4. CASE k = N
  <2>1. N + 1 \notin ids
    BY TraceAssumption, NAssumption DEF Slots, Gemms
  <2> QED BY <1>1, <1>3, <1>4, <2>1
<1>5. CASE k # N
  <2>1. k + 1 \in Gemms /\ k + 1 \notin DOMAIN checked /\ tuning = k + 1
    BY <1>5, NAssumption DEF Gemms
  <2>2. Fp32 \in Measures(k + 1)
    BY <2>1 DEF Measures, Keys
  <2>3. k + 1 \in ids
    BY <1>2, <2>1, <2>2, ArgsFacts
  <2>4. 1..(k + 1) = 1..k \cup {k + 1}
    BY NAssumption
  <2> QED BY <1>1, <1>3, <1>5, <2>3, <2>4
<1> QED BY <1>4, <1>5

\* The GEMMs on file after an execution that runs to its end.
LEMMA WholeExecution ==
  ASSUME IInv, Execute, ~ MayAbort
  PROVE  LET ids == {Trace[s[1]] : s \in Slots}
         IN  /\ IdsIn(singleErr') = ids \cap DOMAIN checked
             /\ IdsIn(optData') = ids \ DOMAIN checked
             /\ pc' = AfterRun(Slots)
<1> DEFINE tuneSlots == {s \in Slots : Trace[s[1]] \notin DOMAIN checked}
           ids == {Trace[s[1]] : s \in Slots}
<1>1. optData = {} /\ singleErr = {}
  BY DEF IInv, MemoryInOrder, Execute
<1>2. PICK time \in [tuneSlots -> Times], err \in [Slots -> Errs] :
        /\ optData' = optData \cup
               {TuneRecordOf(s, time[s], err[s]) : s \in tuneSlots}
        /\ singleErr' = singleErr \cup
               {CheckRecordOf(s, err[s]) : s \in Slots \ tuneSlots}
        /\ pc' = AfterRun(Slots)
  <2>1. PICK done \in (IF MayAbort THEN Prefixes ELSE {Slots}) :
          LET tuned == {s \in done : Trace[s[1]] \notin DOMAIN checked}
          IN  \E time \in [tuned -> Times], err \in [done -> Errs] :
                /\ optData' = optData \cup {TuneRecordOf(s, time[s], err[s]) : s \in tuned}
                /\ singleErr' = singleErr \cup
                       {CheckRecordOf(s, err[s]) : s \in done \ tuned}
                /\ pc' = AfterRun(done)
    BY DEF Execute
  <2>2. done = Slots
    OBVIOUS
  <2> QED BY <2>1, <2>2, Zenon
<1>3. /\ optData' = {TuneRecordOf(s, time[s], err[s]) : s \in tuneSlots}
      /\ singleErr' = {CheckRecordOf(s, err[s]) : s \in Slots \ tuneSlots}
  BY <1>1, <1>2, Zenon
<1>4. \A s \in Slots : /\ TuneRecordOf(s, time[s], err[s]).gemm = Trace[s[1]]
                       /\ CheckRecordOf(s, err[s]).gemm = Trace[s[1]]
  BY DEF TuneRecordOf, CheckRecordOf
<1>5. IdsIn(singleErr') = {Trace[s[1]] : s \in Slots \ tuneSlots}
  <2>1. ASSUME NEW r \in singleErr' PROVE \E s \in Slots \ tuneSlots : r.gemm = Trace[s[1]]
    BY <1>3, <1>4
  <2>2. ASSUME NEW s \in Slots \ tuneSlots PROVE \E r \in singleErr' : r.gemm = Trace[s[1]]
    BY <1>3, <1>4
  <2> QED BY <2>1, <2>2 DEF IdsIn
<1>6. IdsIn(optData') = {Trace[s[1]] : s \in tuneSlots}
  <2>1. ASSUME NEW r \in optData' PROVE \E s \in tuneSlots : r.gemm = Trace[s[1]]
    BY <1>3, <1>4
  <2>2. ASSUME NEW s \in tuneSlots PROVE \E r \in optData' : r.gemm = Trace[s[1]]
    BY <1>3, <1>4
  <2> QED BY <2>1, <2>2 DEF IdsIn
<1> QED BY <1>2, <1>5, <1>6

LEMMA ExecuteUndisturbed ==
  ASSUME IInv, UndisturbedInv, Undisturbed, Execute
  PROVE  UndisturbedInv'
<1> DEFINE ids == {Trace[s[1]] : s \in Slots}
<1>1. PICK k \in 0..N : DOMAIN checked = 1..k /\ tuning = IF k = N THEN 0 ELSE k + 1
  BY DEF IInv, TunedInOrder, Execute
<1>2. Count = k
  <2>1. 1..Count = 1..k /\ Count \in Nat /\ k \in Nat
    BY <1>1, CountRange, NAssumption DEF UndisturbedInv, Execute, IInv
  <2> QED BY <2>1, SameIntervals
<1>3. ids = IF k = N THEN 1..N ELSE 1..(k + 1)
  BY <1>1, SlotsCoverAll
<1>4. /\ IdsIn(singleErr') = ids \cap DOMAIN checked
      /\ IdsIn(optData') = ids \ DOMAIN checked
      /\ pc' = AfterRun(Slots)
  BY WholeExecution DEF Undisturbed
<1>5. /\ pc = "exec" /\ runs \in Nat /\ runs' = runs + 1
      /\ UNCHANGED <<checked, tuning, shipped>> /\ Len(idFile) = N
  BY NAssumption DEF Execute, IInv, TypeOK, DriverInv, code, Gemms
<1>6. pc' = IF runs + 1 = N + 2 THEN "gen" ELSE "readBan"
  BY <1>4, <1>5 DEF AfterRun
<1>7. Count' = IF k = N THEN N ELSE k + 1
  BY <1>2, <1>5, NAssumption DEF Count
<1>8. IdsIn(singleErr)' \cup IdsIn(optData)' = 1..Count'
  BY <1>3, <1>4, <1>7 DEF IdsIn
<1>9. CASE pc' = "readBan"
  <2>1. (DOMAIN checked' \cup {tuning'}) \ {0} = 1..Count'
    BY <1>1, <1>5, <1>7, NAssumption
  <2> QED BY <1>8, <1>9, <2>1 DEF UndisturbedInv
<1>10. CASE pc' = "gen"
  <2>1. k = N
    BY <1>2, <1>6, <1>10, <1>5, NAssumption DEF Count
  <2>2. IdsIn(singleErr)' = Gemms /\ DOMAIN checked' = Gemms
    BY <1>1, <1>3, <1>4, <1>5, <2>1 DEF Gemms, IdsIn
  <2> QED BY <1>5, <1>10, <2>2 DEF UndisturbedInv
<1> QED BY <1>6, <1>9, <1>10

LEMMA RepairUndisturbed ==
  ASSUME IInv, UndisturbedInv, BestArgumentsRepair
  PROVE  UndisturbedInv'
<1>1. PICK k \in 0..N : DOMAIN best = 1..k
  BY DEF IInv, MemoryInOrder, BestArgumentsRepair
<1>2. ReachedFrom(toRepair) \subseteq DOMAIN best
  BY <1>1, ReachedAreTuned DEF IInv, MemoryInOrder, BestArgumentsRepair
<1>3. DOMAIN best' = DOMAIN best /\ best' = [g \in DOMAIN best' |-> best'[g]]
  BY <1>2 DEF BestArgumentsRepair
<1>4. Count' = Count /\ pc = "repair" /\ pc' = "emit" /\ UNCHANGED <<checked, tuning>>
  BY DEF Count, BestArgumentsRepair, driver, code
<1> QED BY <1>3, <1>4 DEF UndisturbedInv

LEMMA GenerateUndisturbed ==
  ASSUME IInv, UndisturbedInv, GenerateFinalCode
  PROVE  UndisturbedInv'
<1>1. /\ IdsIn(singleErr) = Gemms /\ DOMAIN checked = Gemms
      /\ checked = [g \in DOMAIN checked |-> checked[g]]
  BY DEF UndisturbedInv, GenerateFinalCode
<1>2. shipped' \in [Gemms -> Args \cup {<<>>}] /\ checked' = checked /\ pc' = "done"
  BY DEF GenerateFinalCode, code
<1>3. \A g \in Gemms : shipped'[g] = checked[g]
  BY <1>1, FoundArgs DEF GenerateFinalCode
<1>4. shipped' = checked'
  BY <1>1, <1>2, <1>3
<1> QED BY <1>2, <1>4 DEF UndisturbedInv

LEMMA UndisturbedStep ==
  ASSUME IInv, UndisturbedInv, Undisturbed, [Next]_vars
  PROVE  UndisturbedInv'
<1>1. CASE ReadBanId \/ ReadRunnedFuncIDFile
  <2>1. /\ UNCHANGED <<optData, singleErr, runs, checked, tuning>>
        /\ pc \in {"readBan", "readIds"} /\ pc' \in {"readIds", "readOpt"}
    BY <1>1 DEF ReadBanId, ReadRunnedFuncIDFile, driver, code
  <2>2. Count' = Count /\ IdsIn(singleErr)' = IdsIn(singleErr) /\ IdsIn(optData)' = IdsIn(optData)
    BY <2>1 DEF Count, IdsIn
  <2> QED BY <2>1, <2>2 DEF UndisturbedInv
<1>2. CASE ReadOptimizedDataFile
  <2>1. /\ UNCHANGED <<singleErr, runs, checked, tuning>> /\ pc = "readOpt" /\ pc' = "readLast"
        /\ DOMAIN best' = IdsIn(optData)
    BY <1>2 DEF ReadOptimizedDataFile, driver, code
  <2>2. Count' = Count /\ IdsIn(singleErr)' = IdsIn(singleErr)
    BY <2>1 DEF Count, IdsIn
  <2> QED BY <2>1, <2>2 DEF UndisturbedInv
<1>3. CASE ReadLastPassSeperateError
  <2>1. /\ UNCHANGED <<runs, checked, tuning>> /\ pc = "readLast" /\ pc' = "writeBan"
        /\ DOMAIN best' = DOMAIN best \cup IdsIn(singleErr)
        /\ best' = [g \in DOMAIN best' |-> best'[g]]
    BY <1>3 DEF ReadLastPassSeperateError, driver, code
  <2>2. Count' = Count
    BY <2>1 DEF Count
  <2> QED BY <2>1, <2>2 DEF UndisturbedInv
<1>4. CASE WriteBanId
  <2>1. UNCHANGED <<best, runs, checked, tuning>> /\ pc = "writeBan" /\ pc' = "repair"
    BY <1>4 DEF WriteBanId, memory, driver, code
  <2>2. Count' = Count
    BY <2>1 DEF Count
  <2> QED BY <2>1, <2>2 DEF UndisturbedInv
<1>5. CASE BestArgumentsRepair
  BY <1>5, RepairUndisturbed
<1>6. CASE ReplaceCalls
  <2>1. checked' = best /\ UNCHANGED runs /\ pc = "emit" /\ pc' = "exec"
    BY <1>6 DEF ReplaceCalls, driver
  <2>2. Count' = Count
    BY <2>1 DEF Count
  <2> QED BY <2>1, <2>2 DEF UndisturbedInv
<1>7. CASE Execute
  BY <1>7, ExecuteUndisturbed
<1>8. CASE GenerateFinalCode
  BY <1>8, GenerateUndisturbed
<1>9. CASE Restart
  BY <1>9 DEF Restart, Undisturbed, IInv, TypeOK
<1>10. CASE Done \/ UNCHANGED vars
  <2>1. UNCHANGED <<pc, runs, optData, singleErr, best, checked, tuning, shipped>>
    BY <1>10 DEF Done, vars, driver, files, memory, code
  <2>2. Count' = Count /\ IdsIn(singleErr)' = IdsIn(singleErr) /\ IdsIn(optData)' = IdsIn(optData)
    BY <2>1 DEF Count, IdsIn
  <2> QED BY <2>1, <2>2 DEF UndisturbedInv
<1> QED BY <1>1, <1>2, <1>3, <1>4, <1>5, <1>6, <1>7, <1>8, <1>9, <1>10
        DEF Next, Script, Pass

LEMMA UndisturbedInit == Init => UndisturbedInv
<1> SUFFICES ASSUME Init PROVE UndisturbedInv
  OBVIOUS
<1>1. Count = 0
  BY NAssumption DEF Init, Count
<1>2. IdsIn(singleErr) = {} /\ IdsIn(optData) = {} /\ 1..0 = {}
  BY DEF Init, IdsIn
<1> QED BY <1>1, <1>2 DEF Init, UndisturbedInv

\* In one session without early exits every GEMM is tuned in one pass and in no
\* other, and Gen ships the arguments that the last execution checked.
LEMMA UndisturbedAlways ==
  ASSUME Undisturbed
  PROVE  Spec => []UndisturbedInv
<1>1. IInv /\ UndisturbedInv /\ [Next]_vars => UndisturbedInv'
  BY UndisturbedStep
<1> QED BY <1>1, UndisturbedInit, Invariance, PTL DEF Spec

LEMMA UndisturbedSession ==
  ~ MayAbort /\ MaxSessions = 1 /\ Spec => [](EachTunedOnce /\ ShipsWhatWasChecked)
<1>1. CASE Undisturbed
  <2>1. Spec => []UndisturbedInv
    BY <1>1, UndisturbedAlways
  <2>2. IInv /\ UndisturbedInv => EachTunedOnce
    <3> SUFFICES ASSUME IInv, UndisturbedInv, pc = "exec"
                 PROVE  tuning = IF runs < N THEN runs + 1 ELSE 0
      BY DEF EachTunedOnce
    <3>1. PICK k \in 0..N : DOMAIN checked = 1..k /\ tuning = IF k = N THEN 0 ELSE k + 1
      BY DEF IInv, TunedInOrder
    <3>2. 1..Count = 1..k /\ Count \in Nat /\ k \in Nat
      BY <3>1, CountRange, NAssumption DEF UndisturbedInv, IInv
    <3>3. Count = k
      BY <3>2, SameIntervals
    <3> QED BY <3>1, <3>3, NAssumption DEF Count, IInv, TypeOK
  <2>3. UndisturbedInv => ShipsWhatWasChecked
    BY DEF UndisturbedInv, ShipsWhatWasChecked
  <2>4. Spec => [](EachTunedOnce /\ ShipsWhatWasChecked)
    BY <2>1, <2>2, <2>3, Invariance, PTL
  <2> QED BY <2>4
<1>2. CASE ~ Undisturbed
  BY <1>2 DEF Undisturbed
<1> QED BY <1>1, <1>2

\* In one session without early exits every GEMM is tuned in one pass and in no
\* other.
THEOREM EveryGemmTunedOnce == ~ MayAbort /\ MaxSessions = 1 /\ Spec => []EachTunedOnce
<1>1. CASE Undisturbed
  <2>1. Spec => [](EachTunedOnce /\ ShipsWhatWasChecked)
    BY <1>1, UndisturbedSession DEF Undisturbed
  <2>2. Spec => []EachTunedOnce
    BY <2>1, PTL
  <2> QED BY <2>2
<1>2. CASE ~ Undisturbed
  BY <1>2 DEF Undisturbed
<1> QED BY <1>1, <1>2

\* In one session without early exits Gen ships, for every GEMM, the arguments
\* that the last execution checked.
THEOREM ShipsChecked == ~ MayAbort /\ MaxSessions = 1 /\ Spec => []ShipsWhatWasChecked
<1>1. CASE Undisturbed
  <2>1. Spec => [](EachTunedOnce /\ ShipsWhatWasChecked)
    BY <1>1, UndisturbedSession DEF Undisturbed
  <2>2. Spec => []ShipsWhatWasChecked
    BY <2>1, PTL
  <2> QED BY <2>2
<1>2. CASE ~ Undisturbed
  BY <1>2 DEF Undisturbed
<1> QED BY <1>1, <1>2
=============================================================================
