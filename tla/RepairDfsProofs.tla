-------------------------- MODULE RepairDfsProofs --------------------------
(***************************************************************************)
(* Proof that the recursive repair does in many calls what SbSTuning does  *)
(* in one step, for every graph, every set of failing GEMMs and every      *)
(* order of the search, and that it ends.                                  *)
(***************************************************************************)
EXTENDS RepairDfs, SequenceTheorems, FiniteSetTheorems, TLAPS

USE SizesAssumption, MapsAssumption, ChoicesAssumption

----------------------------------------------------------------------------
(* Facts about the stack and the arguments.                                *)

LEMMA BestDomain == TypeOK => DOMAIN before \subseteq Gemms
BY DEF TypeOK, Gemms

LEMMA SitesFacts == Gemms \subseteq Sites /\ \A g \in Gemms : raw \in Maps => raw[g] \subseteq Sites
BY DEF Gemms, Sites

LEMMA UpgradeFacts ==
  ASSUME NEW a \in Choices
  PROVE  /\ Upgrade(a) \in Choices
         /\ a # Fp32 => Upgrade(a) = Loop!Upgrade(a) /\ Loop!Level(a) # 2 /\ a # <<>>
         /\ Loop!Level(Fp32) = 2
  BY DEF Upgrade, Loop!Upgrade, Loop!Level, Fp32, Skipped, Loop!Fp32, Loop!Skipped

\* What is on a stack, and how pushing and popping change it.
Frames == SUBSET DOMAIN before
On(s) == UNION {s[i] : i \in DOMAIN s}

LEMMA Push ==
  ASSUME NEW s \in Seq(Frames), NEW x \in Frames
  PROVE  Append(s, x) \in Seq(Frames) /\ On(Append(s, x)) = On(s) \cup x
<1>1. /\ Append(s, x) \in Seq(Frames)
      /\ Len(Append(s, x)) = Len(s) + 1
      /\ \A i \in 1..Len(s) : Append(s, x)[i] = s[i]
      /\ Append(s, x)[Len(s) + 1] = x
  OBVIOUS
<1>2. DOMAIN Append(s, x) = 1..(Len(s) + 1) /\ DOMAIN s = 1..Len(s) /\ Len(s) \in Nat
  BY <1>1
<1> DEFINE t == Append(s, x)
<1> HIDE DEF t
<1>3. \A i \in DOMAIN t : t[i] \subseteq On(s) \cup x
  BY <1>1, <1>2 DEF On, t
<1>4. On(s) \subseteq On(t) /\ x \subseteq On(t)
  <2>1. ASSUME NEW i \in DOMAIN s PROVE s[i] \subseteq On(t)
    BY <1>1, <1>2 DEF On, t
  <2>2. x \subseteq On(t)
    <3>1. Len(s) + 1 \in DOMAIN t /\ t[Len(s) + 1] = x
      BY <1>1, <1>2 DEF t
    <3> QED BY <3>1 DEF On
  <2> QED BY <2>1, <2>2 DEF On
<1> QED BY <1>1, <1>3, <1>4 DEF On, t

LEMMA Pop ==
  ASSUME stack \in Seq(Frames), stack # <<>>
  PROVE  /\ Top \in Frames /\ Rest \in Seq(Frames) /\ Pending = On(Rest) \cup Top
         /\ Len(stack) = Len(Rest) + 1 /\ Len(Rest) \in Nat
         /\ stack = Append(Rest, Top)
<1>1. Len(stack) \in Nat \ {0} /\ DOMAIN stack = 1..Len(stack)
  BY EmptySeq
<1>2. /\ Rest \in Seq(Frames)
      /\ Len(Rest) = Len(stack) - 1
      /\ \A i \in 1..(Len(stack) - 1) : Rest[i] = stack[i]
  BY <1>1, SubSeqProperties, ElementOfSeq DEF Rest
<1>3. DOMAIN Rest = 1..(Len(stack) - 1)
  BY <1>1, <1>2
<1>4. Top \in Frames
  BY <1>1, ElementOfSeq DEF Top
<1>5. \A i \in DOMAIN stack : stack[i] \subseteq On(Rest) \cup Top
  BY <1>1, <1>2, <1>3 DEF On, Top
<1>6. On(Rest) \subseteq Pending
  BY <1>1, <1>2, <1>3 DEF On, Pending
<1>7. Top \subseteq Pending
  BY <1>1 DEF Top, Pending
<1>8. Pending \subseteq On(Rest) \cup Top
  BY <1>5 DEF Pending
<1>9. Len(stack) = Len(Rest) + 1 /\ Len(Rest) \in Nat
  BY <1>1, <1>2
<1>10. stack = Append(Rest, Top)
  <2> DEFINE t == Append(Rest, Top)
  <2>1. /\ t \in Seq(Frames) /\ Len(t) = Len(stack)
        /\ \A i \in 1..Len(Rest) : t[i] = Rest[i]
        /\ t[Len(Rest) + 1] = Top
    BY <1>2, <1>4, <1>9
  <2> HIDE DEF t
  <2>2. \A i \in 1..Len(stack) : t[i] = stack[i]
    BY <1>2, <1>9, <2>1 DEF Top
  <2>3. stack = t
    BY <2>1, <2>2, SeqEqual
  <2> QED BY <2>3 DEF t
<1> QED BY <1>2, <1>4, <1>6, <1>7, <1>8, <1>9, <1>10

----------------------------------------------------------------------------
(* The invariant, action by action.                                        *)

LEMMA InitInv == Init => IInv
<1> SUFFICES ASSUME Init PROVE IInv
  OBVIOUS
<1>1. PICK k \in 0..N : before \in [1..k -> Choices]
  BY DEF Init
<1>2. DOMAIN before = 1..k
  BY <1>1
<1>3. Pending = failing
  <2>1. DOMAIN stack = {1} /\ stack[1] = failing
    BY DEF Init
  <2> QED BY <2>1 DEF Pending
<1>4. TypeOK
  <2>1. stack \in Seq(SUBSET DOMAIN before)
    BY DEF Init
  <2> QED BY <1>1, <1>2, <2>1 DEF Init, TypeOK
<1>5. AdjustedSoFar
  BY DEF Init, AdjustedSoFar, Gemms, Sites
<1>6. SearchIsLast /\ OnceEach
  BY <1>4 DEF Init, SearchIsLast, OnceEach
<1>7. NothingForgotten /\ OnlyReached
  BY <1>3 DEF Init, NothingForgotten, OnlyReached, Seen
<1> QED BY <1>4, <1>5, <1>6, <1>7 DEF IInv

LEMMA AdjustStep == IInv /\ Adjust => IInv'
<1> SUFFICES ASSUME IInv, Adjust PROVE IInv'
  OBVIOUS
<1>1. PICK t \in toAdjust :
        /\ toAdjust' = toAdjust \ {t}
        /\ related' = IF Index(t) = -1 THEN related
                      ELSE [related EXCEPT ![t] = {s \in @ : RunsBefore(s, t)}]
  BY DEF Adjust
<1>2. UNCHANGED <<stack, repaired, best, raw, before, failing>>
  BY DEF Adjust, given
<1>3. related \in [Sites -> SUBSET Sites] /\ t \in Sites
  BY DEF IInv, TypeOK
<1>4. related' \in [Sites -> SUBSET Sites]
  BY <1>1, <1>3
<1>5. TypeOK'
  BY <1>1, <1>2, <1>4 DEF IInv, TypeOK
<1>6. AdjustedSoFar'
  <2> SUFFICES ASSUME NEW g \in Gemms
               PROVE  related'[g] = IF g \in toAdjust' THEN raw[g] ELSE Earlier(g)
    BY <1>2 DEF AdjustedSoFar, Earlier
  <2>1. g \in Sites /\ raw[g] \subseteq Sites
    BY SitesFacts DEF IInv, TypeOK
  <2>2. CASE g # t
    BY <1>1, <1>3, <2>1, <2>2 DEF IInv, AdjustedSoFar
  <2>3. CASE g = t
    <3>1. related[g] = raw[g] /\ Index(t) = g /\ Index(t) # -1
      BY <1>1, <2>3 DEF IInv, AdjustedSoFar, Index, Gemms
    <3>2. related'[g] = {s \in raw[g] : RunsBefore(s, t)}
      BY <1>1, <1>3, <2>1, <2>3, <3>1
    <3>3. \A s \in raw[g] : RunsBefore(s, t) <=> s < g
      BY <2>1, <2>3, <3>1 DEF RunsBefore, Index, Gemms, Sites
    <3> QED BY <1>1, <2>3, <3>2, <3>3 DEF Earlier
  <2> QED BY <2>2, <2>3
<1>7. SearchIsLast' /\ OnceEach' /\ NothingForgotten' /\ OnlyReached'
  <2>1. Pending' = Pending
    BY <1>2 DEF Pending
  <2>2. SearchIsLast'
    BY <1>1, <1>2 DEF IInv, SearchIsLast
  <2> QED BY <1>2, <2>1, <2>2 DEF IInv, OnceEach, NothingForgotten, Seen, OnlyReached,
          WasFp32, Earlier
<1> QED BY <1>5, <1>6, <1>7 DEF IInv

\* One call of repair_dfs: what it finds, and what is pending after it.
LEMMA CallFacts ==
  ASSUME IInv, RepairDfs
  PROVE  \E g \in Pending :
            /\ g \in DOMAIN before /\ g \in Gemms
            /\ related[g] = Earlier(g) /\ Earlier(g) \subseteq DOMAIN before
            /\ stack' \in Seq(Frames)
            /\ IF g \in repaired \/ WasFp32(g)
               THEN /\ UNCHANGED <<repaired, best>>
                    /\ Pending \subseteq Pending' \cup {g} /\ Pending' \subseteq Pending
               ELSE /\ repaired' = repaired \cup {g}
                    /\ best' = [best EXCEPT ![g] = Upgrade(before[g])]
                    /\ Pending \cup Earlier(g) \subseteq Pending' \cup {g}
                    /\ Pending' \subseteq Pending \cup Earlier(g)
<1>1. /\ toAdjust = {} /\ stack # <<>> /\ stack \in Seq(Frames)
      /\ DOMAIN before \subseteq Gemms
  BY BestDomain DEF RepairDfs, IInv, TypeOK, Frames
<1>2. Top \in Frames /\ Rest \in Seq(Frames) /\ Pending = On(Rest) \cup Top
  BY <1>1, Pop
<1>3. PICK g \in Top :
        IF g \in repaired \/ IsFp32(best[g])
        THEN /\ stack' = Append(Rest, Top \ {g})
             /\ UNCHANGED <<repaired, best>>
        ELSE /\ stack' = Append(Append(Rest, Top \ {g}), related[g])
             /\ repaired' = Mark(g)
             /\ best' = [best EXCEPT ![g] = Upgrade(@)]
  BY DEF RepairDfs
<1>4. g \in Pending /\ g \in DOMAIN before /\ g \in Gemms
  BY <1>1, <1>2 DEF Frames
<1>5. g \notin repaired => best[g] = before[g]
  BY <1>4 DEF IInv, OnceEach
<1>6. related[g] = Earlier(g) /\ Earlier(g) \subseteq DOMAIN before
  <2>1. related[g] = Earlier(g)
    BY <1>1, <1>4 DEF IInv, AdjustedSoFar
  <2>2. PICK k \in 0..N : DOMAIN before = 1..k
    BY DEF IInv, TypeOK
  <2>3. raw[g] \subseteq Sites
    BY <1>4, SitesFacts DEF IInv, TypeOK
  <2> QED BY <1>4, <2>1, <2>2, <2>3 DEF Earlier, Sites
<1> DEFINE under == Append(Rest, Top \ {g})
<1>7. under \in Seq(Frames) /\ On(under) = On(Rest) \cup (Top \ {g})
  <2>1. Top \ {g} \in Frames
    BY <1>2 DEF Frames
  <2> QED BY <1>2, <2>1, Push
<1>8. CASE g \in repaired \/ WasFp32(g)
  <2>1. g \in repaired \/ IsFp32(best[g])
    BY <1>5, <1>8 DEF IsFp32, WasFp32
  <2>2. stack' = under /\ UNCHANGED <<repaired, best>>
    BY <1>3, <2>1
  <2>3. Pending' = On(under)
    BY <2>2 DEF Pending, On
  <2> QED BY <1>2, <1>4, <1>6, <1>7, <1>8, <2>2, <2>3
<1>9. CASE ~ (g \in repaired \/ WasFp32(g))
  <2>1. ~ (g \in repaired \/ IsFp32(best[g])) /\ best[g] = before[g]
    BY <1>5, <1>9 DEF IsFp32, WasFp32
  <2>2. /\ stack' = Append(under, Earlier(g)) /\ repaired' = repaired \cup {g}
        /\ best' = [best EXCEPT ![g] = Upgrade(before[g])]
    BY <1>3, <1>6, <2>1 DEF Mark
  <2>3. Earlier(g) \in Frames
    BY <1>6 DEF Frames
  <2>4. stack' \in Seq(Frames) /\ On(stack') = On(under) \cup Earlier(g)
    <3> HIDE DEF under
    <3> QED BY <1>7, <2>2, <2>3, Push
  <2>5. Pending' = On(stack')
    BY DEF Pending, On
  <2> QED BY <1>2, <1>4, <1>6, <1>7, <1>9, <2>2, <2>4, <2>5
<1> QED BY <1>8, <1>9

LEMMA RepairDfsStep == IInv /\ RepairDfs => IInv'
<1> SUFFICES ASSUME IInv, RepairDfs PROVE IInv'
  OBVIOUS
<1>1. toAdjust = {} /\ UNCHANGED <<toAdjust, related, raw, before, failing>>
  BY DEF RepairDfs, given
<1>2. PICK g \in Pending :
        /\ g \in DOMAIN before /\ g \in Gemms
        /\ related[g] = Earlier(g) /\ Earlier(g) \subseteq DOMAIN before
        /\ stack' \in Seq(Frames)
        /\ IF g \in repaired \/ WasFp32(g)
           THEN /\ UNCHANGED <<repaired, best>>
                /\ Pending \subseteq Pending' \cup {g} /\ Pending' \subseteq Pending
           ELSE /\ repaired' = repaired \cup {g}
                /\ best' = [best EXCEPT ![g] = Upgrade(before[g])]
                /\ Pending \cup Earlier(g) \subseteq Pending' \cup {g}
                /\ Pending' \subseteq Pending \cup Earlier(g)
  BY CallFacts
<1>3. TypeOK'
  <2>1. repaired' \subseteq DOMAIN before
    BY <1>2 DEF IInv, TypeOK
  <2>2. before[g] \in Choices
    BY <1>2 DEF IInv, TypeOK
  <2>3. Upgrade(before[g]) \in Choices
    BY <2>2, UpgradeFacts
  <2>4. best' \in [DOMAIN before -> Choices]
    BY <1>2, <2>3 DEF IInv, TypeOK
  <2> QED BY <1>1, <1>2, <2>1, <2>4 DEF IInv, TypeOK, Frames
<1>4. AdjustedSoFar' /\ SearchIsLast'
  BY <1>1 DEF IInv, AdjustedSoFar, SearchIsLast, Earlier
<1>5. OnceEach'
  <2>1. best \in [DOMAIN before -> Choices]
    BY DEF IInv, TypeOK
  <2> QED BY <1>1, <1>2, <2>1 DEF IInv, OnceEach
<1>6. NothingForgotten'
  <2>1. \A h : Seen(h) => Seen(h)'
    BY <1>1, <1>2 DEF Seen, WasFp32
  <2>2. CASE g \in repaired \/ WasFp32(g)
    BY <1>1, <1>2, <2>1, <2>2 DEF IInv, NothingForgotten, WasFp32, Earlier
  <2>3. CASE ~ (g \in repaired \/ WasFp32(g))
    <3>1. \A h \in Earlier(g) : Seen(h)'
      BY <1>2, <2>3 DEF Seen
    <3> QED BY <1>1, <1>2, <2>1, <2>3, <3>1 DEF IInv, NothingForgotten, WasFp32, Earlier
  <2> QED BY <2>2, <2>3
<1>7. OnlyReached'
  <2> SUFFICES ASSUME NEW S \in SUBSET Gemms, failing \subseteq S,
                      \A h \in S \cap DOMAIN before : WasFp32(h) \/ Earlier(h) \subseteq S
               PROVE  repaired' \cup Pending' \subseteq S
    BY <1>1 DEF OnlyReached, WasFp32, Earlier
  <2>1. repaired \cup Pending \subseteq S
    BY DEF IInv, OnlyReached
  <2>2. WasFp32(g) \/ Earlier(g) \subseteq S
    BY <1>2, <2>1
  <2> QED BY <1>2, <2>1, <2>2
<1> QED BY <1>3, <1>4, <1>5, <1>6, <1>7 DEF IInv

LEMMA ReturnStep == IInv /\ Return => IInv'
<1> SUFFICES ASSUME IInv, Return PROVE IInv'
  OBVIOUS
<1>1. /\ toAdjust = {} /\ Top = {} /\ stack' = Rest
      /\ UNCHANGED <<toAdjust, related, repaired, best, raw, before, failing>>
      /\ stack # <<>> /\ stack \in Seq(Frames)
  BY DEF Return, given, IInv, TypeOK, Frames
<1>2. Rest \in Seq(Frames) /\ Pending' = Pending
  BY <1>1, Pop DEF Pending, On
<1> QED BY <1>1, <1>2 DEF IInv, TypeOK, Frames, AdjustedSoFar, SearchIsLast, OnceEach,
        NothingForgotten, Seen, OnlyReached, WasFp32, Earlier

LEMMA StepInv == IInv /\ [Next]_vars => IInv'
<1>1. ASSUME IInv, UNCHANGED vars PROVE IInv'
  <2>1. UNCHANGED <<toAdjust, related, stack, repaired, best, raw, before, failing>>
    BY <1>1 DEF vars, given
  <2>2. Pending' = Pending
    BY <2>1 DEF Pending
  <2>3. TypeOK' /\ AdjustedSoFar' /\ SearchIsLast' /\ OnceEach'
    BY <1>1, <2>1 DEF IInv, TypeOK, AdjustedSoFar, SearchIsLast, OnceEach, Earlier
  <2>4. NothingForgotten' /\ OnlyReached'
    BY <1>1, <2>1, <2>2 DEF IInv, NothingForgotten, Seen, OnlyReached, WasFp32, Earlier
  <2> QED BY <2>3, <2>4 DEF IInv
<1> QED BY <1>1, AdjustStep, RepairDfsStep, ReturnStep DEF Next

\* At any point of the search, every GEMM repaired so far moved one level, all
\* that the failing ones lead to is repaired or pending, and nothing else is.
THEOREM SearchInvariance == Spec => []IInv
<1> QED BY InitInv, StepInv, PTL DEF Spec

----------------------------------------------------------------------------
(* The refinement.                                                         *)

LEMMA LevelIsFp32 ==
  ASSUME TypeOK, NEW g \in DOMAIN before
  PROVE  Loop!Level(before[g]) = 2 <=> WasFp32(g)
<1>1. before[g] \in Choices
  BY DEF TypeOK
<1> QED BY <1>1, UpgradeFacts DEF WasFp32

\* The set SbSTuning repairs, when the search has nothing pending.
LEMMA ReachedFacts ==
  ASSUME IInv, ~ Finished, Pending = {}
  PROVE  /\ repaired \subseteq Loop!ReachedFrom(failing)
         /\ \A g \in Loop!ReachedFrom(failing) :
                g \in DOMAIN before /\ (g \in repaired \/ WasFp32(g))
<1> DEFINE LoopBest == IF Finished THEN best ELSE before
           Closed(S) == \A h \in S :
               Loop!Level(Loop!ArgsOf(LoopBest, h)) = 2 \/ Loop!Adjusted(h) \subseteq S
<1>1. Loop!ReachedFrom(failing) =
        {g \in Gemms : \A S \in SUBSET Gemms : (failing \subseteq S /\ Closed(S)) => g \in S}
  BY DEF Loop!ReachedFrom, Loop!Gemms, Gemms
<1>2. /\ \A h \in DOMAIN before : Loop!ArgsOf(LoopBest, h) = before[h]
      /\ \A h \in Gemms : Loop!Adjusted(h) = Earlier(h)
      /\ DOMAIN before \subseteq Gemms
  BY BestDomain DEF Loop!ArgsOf, Loop!Adjusted, Earlier, IInv
<1>3. ASSUME NEW S \in SUBSET Gemms, failing \subseteq S, Closed(S)
      PROVE  repaired \subseteq S
  <2>1. \A h \in S \cap DOMAIN before : WasFp32(h) \/ Earlier(h) \subseteq S
    BY <1>2, <1>3, LevelIsFp32 DEF IInv
  <2> QED BY <1>3, <2>1 DEF IInv, OnlyReached
<1> DEFINE Final == repaired \cup {g \in DOMAIN before : WasFp32(g)}
<1>4. Final \subseteq DOMAIN before /\ Final \in SUBSET Gemms /\ failing \subseteq Final
  BY <1>2 DEF IInv, TypeOK, NothingForgotten, Seen
<1>5. Closed(Final)
  <2> SUFFICES ASSUME NEW h \in Final
               PROVE  Loop!Level(Loop!ArgsOf(LoopBest, h)) = 2 \/ Loop!Adjusted(h) \subseteq Final
    OBVIOUS
  <2>1. h \in DOMAIN before /\ h \in Gemms
    BY <1>2, <1>4
  <2>2. CASE WasFp32(h)
    BY <1>2, <2>1, <2>2, LevelIsFp32 DEF IInv
  <2>3. CASE h \in repaired
    <3>1. \A x \in Earlier(h) : x \in repaired \/ WasFp32(x)
      BY <2>3 DEF IInv, NothingForgotten, Seen
    <3>2. Earlier(h) \subseteq DOMAIN before
      <4>1. PICK k \in 0..N : DOMAIN before = 1..k
        BY DEF IInv, TypeOK
      <4>2. raw[h] \subseteq Sites
        BY <2>1, SitesFacts DEF IInv, TypeOK
      <4> QED BY <2>1, <4>1, <4>2 DEF Earlier, Sites
    <3> QED BY <1>2, <2>1, <3>1, <3>2
  <2> QED BY <2>2, <2>3
<1>6. repaired \subseteq Gemms
  BY <1>4
<1> HIDE DEF Closed, Final
<1>7. Loop!ReachedFrom(failing) \subseteq Final /\ repaired \subseteq Loop!ReachedFrom(failing)
  BY <1>1, <1>3, <1>4, <1>5, <1>6
<1> QED BY <1>4, <1>7 DEF Final

LEMMA LastReturn ==
  ASSUME IInv, Return, Rest = <<>>
  PROVE  Loop!BestArgumentsRepair
<1>1. /\ ~ Finished /\ Finished' /\ Top = {}
      /\ UNCHANGED <<best, repaired, raw, before, failing>>
      /\ stack # <<>> /\ stack \in Seq(Frames)
  BY DEF Return, given, Finished, IInv, TypeOK, Frames
<1>2. Pending = {}
  BY <1>1, Pop DEF On
<1> DEFINE reached == Loop!ReachedFrom(failing)
<1>3. /\ repaired \subseteq reached
      /\ \A g \in reached : g \in DOMAIN before /\ (g \in repaired \/ WasFp32(g))
  BY <1>1, <1>2, ReachedFacts
<1>4. best = [g \in DOMAIN before |-> best[g]]
  BY DEF IInv, TypeOK
<1>5. ASSUME NEW g \in DOMAIN before
      PROVE  best[g] = IF g \notin reached THEN before[g]
                       ELSE IF Loop!Level(Loop!ArgsOf(before, g)) = 2 THEN Loop!Fp32
                       ELSE Loop!Upgrade(Loop!ArgsOf(before, g))
  <2>1. before[g] \in Choices /\ Loop!ArgsOf(before, g) = before[g] /\ Loop!Fp32 = Fp32
    BY DEF IInv, TypeOK, Loop!ArgsOf, Loop!Fp32, Fp32
  <2>2. best[g] = IF g \in repaired THEN Upgrade(before[g]) ELSE before[g]
    BY DEF IInv, OnceEach
  <2>3. g \in repaired => ~ WasFp32(g)
    BY DEF IInv, NothingForgotten
  <2>4. ~ WasFp32(g) => Upgrade(before[g]) = Loop!Upgrade(before[g])
    BY <2>1, UpgradeFacts DEF WasFp32
  <2>5. Loop!Level(before[g]) = 2 <=> WasFp32(g)
    BY LevelIsFp32 DEF IInv
  <2> QED BY <1>3, <2>1, <2>2, <2>3, <2>4, <2>5 DEF WasFp32
<1>6. DOMAIN before \cup reached = DOMAIN before
  BY <1>3
<1> HIDE DEF reached
<1>7. best = [g \in DOMAIN before \cup reached |->
                 IF g \notin reached THEN before[g]
                 ELSE IF Loop!Level(Loop!ArgsOf(before, g)) = 2 THEN Loop!Fp32
                 ELSE Loop!Upgrade(Loop!ArgsOf(before, g))]
  BY <1>4, <1>5, <1>6
<1> QED BY <1>1, <1>7 DEF Loop!BestArgumentsRepair, Loop!driver, Loop!files, reached

LEMMA LoopStep == IInv /\ [Next]_vars => [Loop!BestArgumentsRepair]_(Loop!vars)
<1> SUFFICES ASSUME IInv, [Next]_vars PROVE [Loop!BestArgumentsRepair]_(Loop!vars)
  OBVIOUS
<1>1. UNCHANGED <<raw, before, failing>>
  BY DEF Next, Adjust, RepairDfs, Return, vars, given
<1>2. ASSUME ~ Finished, ~ Finished' PROVE UNCHANGED Loop!vars
  BY <1>1, <1>2 DEF Loop!vars, Loop!driver, Loop!files, Loop!memory, Loop!code
<1>3. CASE Adjust \/ UNCHANGED vars
  <2>1. stack' = stack /\ best' = best
    BY <1>3 DEF Adjust, vars
  <2> QED BY <1>1, <2>1 DEF Finished, Loop!vars, Loop!driver, Loop!files, Loop!memory,
          Loop!code
<1>4. CASE RepairDfs
  <2>1. stack # <<>> /\ stack \in Seq(Frames)
    BY <1>4 DEF RepairDfs, IInv, TypeOK, Frames
  <2>2. ~ Finished /\ ~ Finished'
    <3>1. \E s, x : s \in Seq(Frames) /\ x \in Frames /\ stack' = Append(s, x)
      <4>1. Top \in Frames /\ Rest \in Seq(Frames)
        BY <2>1, Pop
      <4>2. \A g : Top \ {g} \in Frames
        BY <4>1 DEF Frames
      <4>3. PICK g \in Top :
              \/ stack' = Append(Rest, Top \ {g})
              \/ stack' = Append(Append(Rest, Top \ {g}), related[g])
        BY <1>4 DEF RepairDfs
      <4>4. Append(Rest, Top \ {g}) \in Seq(Frames)
        BY <4>1, <4>2, Push
      <4>5. related[g] \in Frames
        <5>1. g \in DOMAIN before /\ g \in Gemms /\ toAdjust = {}
          BY <1>4, <4>1, BestDomain DEF Frames, IInv, RepairDfs
        <5>2. PICK k \in 0..N : DOMAIN before = 1..k
          BY DEF IInv, TypeOK
        <5>3. related[g] = Earlier(g) /\ raw[g] \subseteq Sites
          BY <5>1, SitesFacts DEF IInv, AdjustedSoFar, TypeOK
        <5> QED BY <5>1, <5>2, <5>3 DEF Earlier, Frames, Sites
      <4> QED BY <4>1, <4>2, <4>3, <4>4, <4>5
    <3> QED BY <2>1, <3>1 DEF Finished
  <2> QED BY <1>2, <2>2
<1>5. CASE Return
  <2>1. CASE Rest = <<>>
    BY <1>5, <2>1, LastReturn
  <2>2. CASE Rest # <<>>
    BY <1>2, <1>5, <2>2 DEF Return, Finished
  <2> QED BY <2>1, <2>2
<1> QED BY <1>3, <1>4, <1>5 DEF Next

\* The recursive search, whatever its order, changes the arguments exactly as the
\* one step of SbSTuning does: each GEMM the failing ones lead to moves one level
\* once, a GEMM that is fp32 stops the search, and no other GEMM changes.
THEOREM SearchRepairs == Spec => RepairsInOneStep
<1> QED BY SearchInvariance, LoopStep, PTL DEF Spec, RepairsInOneStep

----------------------------------------------------------------------------
(* The end of the recursion.                                               *)

\* The calls a stack has still to make.
Entries(s) == {c \in (1..Len(s)) \X Sites : c[2] \in s[c[1]]}

\* There are finitely many sites, so sets of them can be counted.
LEMMA SitesFinite == IsFiniteSet(Sites) /\ \A S \in SUBSET Sites : IsFiniteSet(S) /\ Cardinality(S) \in Nat
<1>1. IsFiniteSet(Sites)
  BY FS_Interval DEF Sites
<1>2. ASSUME NEW S \in SUBSET Sites PROVE IsFiniteSet(S) /\ Cardinality(S) \in Nat
  BY <1>1, FS_Subset, FS_CardinalityType
<1> QED BY <1>1, <1>2

\* A loop more has as many calls to make as its set has GEMMs.
LEMMA EntriesOfMore ==
  ASSUME NEW s \in Seq(SUBSET Sites), NEW x \in SUBSET Sites
  PROVE  /\ Len(Append(s, x)) = Len(s) + 1
         /\ Cardinality(Entries(s)) \in Nat
         /\ Cardinality(Entries(Append(s, x))) = Cardinality(Entries(s)) + Cardinality(x)
<1> DEFINE t == Append(s, x)
           new == {Len(s) + 1} \X x
<1>1. /\ Len(t) = Len(s) + 1 /\ Len(s) \in Nat
      /\ \A i \in 1..Len(s) : t[i] = s[i]
      /\ t[Len(s) + 1] = x
  OBVIOUS
<1> HIDE DEF t
<1>2. Entries(t) = Entries(s) \cup new
  <2>1. 1..Len(t) = 1..Len(s) \cup {Len(s) + 1}
    BY <1>1
  <2> QED BY <1>1, <2>1 DEF Entries
<1>3. Entries(s) \cap new = {}
  BY <1>1 DEF Entries
<1>4. IsFiniteSet(Entries(s)) /\ Cardinality(Entries(s)) \in Nat
  <2>1. IsFiniteSet(1..Len(s))
    BY <1>1, FS_Interval
  <2>2. IsFiniteSet((1..Len(s)) \X Sites)
    BY <2>1, SitesFinite, FS_Product
  <2>3. Entries(s) \in SUBSET ((1..Len(s)) \X Sites)
    BY DEF Entries
  <2> QED BY <2>2, <2>3, FS_Subset, FS_CardinalityType
<1>5. IsFiniteSet(new) /\ Cardinality(new) = Cardinality(x)
  <2>1. IsFiniteSet({Len(s) + 1}) /\ Cardinality({Len(s) + 1}) = 1
    BY FS_Singleton
  <2>2. IsFiniteSet(x) /\ Cardinality(x) \in Nat
    BY SitesFinite
  <2>3. IsFiniteSet(new) /\ Cardinality(new) = 1 * Cardinality(x)
    BY <2>1, <2>2, FS_Product
  <2> QED BY <2>2, <2>3
<1>6. Cardinality(Entries(t)) = Cardinality(Entries(s)) + Cardinality(x)
  <2>1. Cardinality(Entries(s) \cup new) = Cardinality(Entries(s)) + Cardinality(new) - Cardinality(Entries(s) \cap new)
    BY <1>4, <1>5, FS_Union
  <2>2. Cardinality(Entries(s) \cap new) = 0
    BY <1>3, FS_EmptySet
  <2>3. Cardinality(x) \in Nat
    BY SitesFinite
  <2> QED BY <1>2, <1>4, <1>5, <2>1, <2>2, <2>3
<1> QED BY <1>1, <1>4, <1>6 DEF t

\* The stack and the calls left, without and with the innermost loop.
LEMMA InnermostLoop ==
  ASSUME TypeOK, stack # <<>>
  PROVE  /\ Rest \in Seq(SUBSET Sites) /\ Top \in SUBSET Sites
         /\ Len(stack) = Len(Rest) + 1 /\ Len(Rest) \in Nat
         /\ Cardinality(CallsLeft) = Cardinality(Entries(Rest)) + Cardinality(Top)
         /\ Cardinality(Entries(Rest)) \in Nat
<1>1. DOMAIN before \subseteq Sites
  BY BestDomain, SitesFacts
<1>2. stack \in Seq(Frames) /\ Frames \subseteq SUBSET Sites
  BY <1>1 DEF TypeOK, Frames
<1>3. /\ Top \in Frames /\ Rest \in Seq(Frames) /\ stack = Append(Rest, Top)
      /\ Len(stack) = Len(Rest) + 1 /\ Len(Rest) \in Nat
  BY <1>2, Pop
<1>4. Rest \in Seq(SUBSET Sites) /\ Top \in SUBSET Sites
  BY <1>2, <1>3, SeqMonotonic
<1>5. CallsLeft = Entries(stack)
  BY DEF CallsLeft, Entries
<1>6. /\ Cardinality(Entries(Rest)) \in Nat
      /\ Cardinality(Entries(Append(Rest, Top))) = Cardinality(Entries(Rest)) + Cardinality(Top)
  BY <1>4, EntriesOfMore
<1> QED BY <1>3, <1>4, <1>5, <1>6

\* All that WorkLeft adds up is finite.
LEMMA CountsAreNaturals ==
  ASSUME TypeOK
  PROVE  /\ Cardinality(toAdjust) \in Nat /\ Cardinality(Sites \ repaired) \in Nat
         /\ IsFiniteSet(CallsToCome) /\ Cardinality(CallsToCome) \in Nat
         /\ Cardinality(CallsLeft) \in Nat /\ Len(stack) \in Nat
<1>1. IsFiniteSet(CallsToCome) /\ Cardinality(CallsToCome) \in Nat
  <2>1. IsFiniteSet(Sites \X Sites)
    BY SitesFinite, FS_Product
  <2>2. CallsToCome \in SUBSET (Sites \X Sites)
    BY DEF CallsToCome
  <2> QED BY <2>1, <2>2, FS_Subset, FS_CardinalityType
<1>2. Len(stack) \in Nat
  BY LenProperties DEF TypeOK
<1>3. Cardinality(CallsLeft) \in Nat
  <2>1. IsFiniteSet(1..Len(stack))
    BY <1>2, FS_Interval
  <2>2. IsFiniteSet((1..Len(stack)) \X Sites)
    BY <2>1, SitesFinite, FS_Product
  <2>3. CallsLeft \in SUBSET ((1..Len(stack)) \X Sites)
    BY DEF CallsLeft
  <2> QED BY <2>2, <2>3, FS_Subset, FS_CardinalityType
<1>4. toAdjust \in SUBSET Sites /\ Sites \ repaired \in SUBSET Sites
  BY DEF TypeOK
<1> QED BY <1>1, <1>2, <1>3, <1>4, SitesFinite

\* The calls of the GEMMs not yet repaired, without one of them.
LEMMA ToComeWithout ==
  ASSUME TypeOK, NEW g \in Sites \ repaired
  PROVE  /\ Cardinality(CallsToCome) \in Nat
         /\ Cardinality(CallsToCome \ ({g} \X related[g])) = Cardinality(CallsToCome) - Cardinality(related[g])
<1> DEFINE own == {g} \X related[g]
<1>1. related[g] \in SUBSET Sites
  BY DEF TypeOK
<1>2. IsFiniteSet(CallsToCome) /\ Cardinality(CallsToCome) \in Nat
  BY CountsAreNaturals
<1>3. CallsToCome \cap own = own
  BY <1>1 DEF CallsToCome
<1>4. Cardinality(own) = Cardinality(related[g])
  <2>1. IsFiniteSet({g}) /\ Cardinality({g}) = 1
    BY FS_Singleton
  <2>2. IsFiniteSet(related[g]) /\ Cardinality(related[g]) \in Nat
    BY <1>1, SitesFinite
  <2>3. Cardinality(own) = 1 * Cardinality(related[g])
    BY <2>1, <2>2, FS_Product
  <2> QED BY <2>2, <2>3
<1> HIDE DEF own
<1>5. Cardinality(CallsToCome \ own) = Cardinality(CallsToCome) - Cardinality(own)
  BY <1>2, <1>3, FS_Difference
<1> QED BY <1>2, <1>4, <1>5 DEF own

\* The end of a loop: nothing was left of it.
LEMMA ReturnShrinks == IInv /\ Return => WorkLeft' < WorkLeft
<1> SUFFICES ASSUME IInv, Return PROVE WorkLeft' < WorkLeft
  OBVIOUS
<1>1. /\ Top = {} /\ stack # <<>> /\ stack' = Rest /\ TypeOK
      /\ UNCHANGED <<toAdjust, related, repaired>>
  BY DEF Return, IInv
<1>2. /\ Len(stack) = Len(Rest) + 1 /\ Len(Rest) \in Nat
      /\ Cardinality(CallsLeft) = Cardinality(Entries(Rest)) + Cardinality(Top)
      /\ Cardinality(Entries(Rest)) \in Nat
  BY <1>1, InnermostLoop
<1>3. CallsLeft' = Entries(Rest)
  BY <1>1 DEF CallsLeft, Entries
<1>4. Cardinality(Top) = 0
  BY <1>1, FS_EmptySet
<1>5. CallsToCome' = CallsToCome
  BY <1>1 DEF CallsToCome
<1>6. /\ Cardinality(toAdjust) \in Nat /\ Cardinality(Sites \ repaired) \in Nat
      /\ Cardinality(CallsToCome) \in Nat
  BY <1>1, CountsAreNaturals
<1> QED BY <1>1, <1>2, <1>3, <1>4, <1>5, <1>6 DEF WorkLeft

\* Adjusting takes relations away and adds none.
LEMMA AdjustShrinks == IInv /\ Adjust => WorkLeft' < WorkLeft
<1> SUFFICES ASSUME IInv, Adjust PROVE WorkLeft' < WorkLeft
  OBVIOUS
<1>1. PICK t \in toAdjust :
        /\ toAdjust' = toAdjust \ {t}
        /\ related' = IF Index(t) = -1 THEN related
                      ELSE [related EXCEPT ![t] = {s \in @ : RunsBefore(s, t)}]
  BY DEF Adjust
<1>2. TypeOK /\ UNCHANGED <<stack, repaired>>
  BY DEF Adjust, IInv
<1>3. Cardinality(toAdjust') = Cardinality(toAdjust) - 1 /\ Cardinality(toAdjust') \in Nat
  <2>1. IsFiniteSet(toAdjust) /\ toAdjust \ {t} \in SUBSET Sites
    BY <1>2, SitesFinite DEF TypeOK
  <2>2. Cardinality(toAdjust \ {t}) = Cardinality(toAdjust) - 1
    BY <2>1, FS_RemoveElement
  <2> QED BY <1>1, <2>1, <2>2, SitesFinite
<1>4. Cardinality(CallsToCome') <= Cardinality(CallsToCome) /\ Cardinality(CallsToCome') \in Nat
  <2>1. \A g \in Sites : related'[g] \subseteq related[g]
    BY <1>1, <1>2 DEF TypeOK
  <2>2. CallsToCome' \subseteq CallsToCome
    BY <1>2, <2>1 DEF CallsToCome
  <2>3. IsFiniteSet(CallsToCome)
    BY <1>2, CountsAreNaturals
  <2> QED BY <2>2, <2>3, FS_Subset, FS_CardinalityType
<1>5. CallsLeft' = CallsLeft
  BY <1>2 DEF CallsLeft
<1>6. /\ Cardinality(toAdjust) \in Nat /\ Cardinality(Sites \ repaired) \in Nat
      /\ Cardinality(CallsLeft) \in Nat /\ Len(stack) \in Nat
      /\ Cardinality(CallsToCome) \in Nat
  BY <1>2, CountsAreNaturals
<1> QED BY <1>2, <1>3, <1>4, <1>5, <1>6 DEF WorkLeft

\* A call is made; if it repairs its GEMM, what was still to come of that GEMM
\* is now on the stack.
LEMMA RepairDfsShrinks == IInv /\ RepairDfs => WorkLeft' < WorkLeft
<1> SUFFICES ASSUME IInv, RepairDfs PROVE WorkLeft' < WorkLeft
  OBVIOUS
<1>1. stack # <<>> /\ TypeOK /\ UNCHANGED <<toAdjust, related>>
  BY DEF RepairDfs, IInv
<1>2. /\ Rest \in Seq(SUBSET Sites) /\ Top \in SUBSET Sites
      /\ Len(stack) = Len(Rest) + 1 /\ Len(Rest) \in Nat
      /\ Cardinality(CallsLeft) = Cardinality(Entries(Rest)) + Cardinality(Top)
      /\ Cardinality(Entries(Rest)) \in Nat
  BY <1>1, InnermostLoop
<1>3. PICK g \in Top :
        IF g \in repaired \/ IsFp32(best[g])
        THEN /\ stack' = Append(Rest, Top \ {g})
             /\ UNCHANGED <<repaired, best>>
        ELSE /\ stack' = Append(Append(Rest, Top \ {g}), related[g])
             /\ repaired' = Mark(g)
             /\ best' = [best EXCEPT ![g] = Upgrade(@)]
  BY DEF RepairDfs
<1> DEFINE under == Append(Rest, Top \ {g})
<1>4. /\ under \in Seq(SUBSET Sites) /\ Len(under) = Len(stack)
      /\ Cardinality(Entries(under)) = Cardinality(CallsLeft) - 1
      /\ Cardinality(Entries(under)) \in Nat
  <2>1. Top \ {g} \in SUBSET Sites
    BY <1>2
  <2>2. Cardinality(Top \ {g}) = Cardinality(Top) - 1 /\ Cardinality(Top \ {g}) \in Nat
    <3>1. IsFiniteSet(Top)
      BY <1>2, SitesFinite
    <3> QED BY <2>1, <3>1, SitesFinite, FS_RemoveElement
  <2>3. under \in Seq(SUBSET Sites)
    BY <1>2, <2>1, AppendProperties
  <2>4. Len(under) = Len(Rest) + 1 /\ Cardinality(Entries(under)) = Cardinality(Entries(Rest)) + Cardinality(Top \ {g})
    BY <1>2, <2>1, EntriesOfMore
  <2>5. Cardinality(Top) \in Nat
    BY <1>2, SitesFinite
  <2> HIDE DEF under
  <2> QED BY <1>2, <2>2, <2>3, <2>4, <2>5
<1> HIDE DEF under
<1>5. CallsLeft' = Entries(stack')
  BY DEF CallsLeft, Entries
<1>6. /\ Cardinality(toAdjust) \in Nat /\ Cardinality(Sites \ repaired) \in Nat
      /\ Cardinality(CallsLeft) \in Nat /\ Len(stack) \in Nat
      /\ Cardinality(CallsToCome) \in Nat
  BY <1>1, CountsAreNaturals
<1>7. CASE g \in repaired \/ IsFp32(best[g])
  <2>1. stack' = under /\ repaired' = repaired
    BY <1>3, <1>7 DEF under
  <2>2. CallsToCome' = CallsToCome
    BY <1>1, <2>1 DEF CallsToCome
  <2> QED BY <1>1, <1>4, <1>5, <1>6, <2>1, <2>2 DEF WorkLeft
<1>8. CASE ~ (g \in repaired \/ IsFp32(best[g]))
  <2>1. stack' = Append(under, related[g]) /\ repaired' = repaired \cup {g} /\ g \in Sites \ repaired
    BY <1>2, <1>3, <1>8 DEF under, Mark
  <2>2. related[g] \in SUBSET Sites /\ Cardinality(related[g]) \in Nat
    BY <1>1, <2>1, SitesFinite DEF TypeOK
  <2>3. /\ Len(stack') = Len(stack) + 1
        /\ Cardinality(CallsLeft') = Cardinality(CallsLeft) - 1 + Cardinality(related[g])
    <3>1. /\ Len(Append(under, related[g])) = Len(under) + 1
          /\ Cardinality(Entries(Append(under, related[g]))) = Cardinality(Entries(under)) + Cardinality(related[g])
      BY <1>4, <2>2, EntriesOfMore
    <3> QED BY <1>4, <1>5, <2>1, <3>1
  <2>4. Cardinality(CallsToCome') = Cardinality(CallsToCome) - Cardinality(related[g])
    <3>1. CallsToCome' = CallsToCome \ ({g} \X related[g])
      BY <1>1, <2>1 DEF CallsToCome
    <3>2. Cardinality(CallsToCome \ ({g} \X related[g])) = Cardinality(CallsToCome) - Cardinality(related[g])
      BY <1>1, <2>1, ToComeWithout
    <3> QED BY <3>1, <3>2
  <2>5. Cardinality((Sites \ repaired)') = Cardinality(Sites \ repaired) - 1
    <3>1. (Sites \ repaired)' = (Sites \ repaired) \ {g}
      BY <2>1
    <3>2. IsFiniteSet(Sites \ repaired)
      BY SitesFinite
    <3>3. Cardinality((Sites \ repaired) \ {g}) = Cardinality(Sites \ repaired) - 1
      BY <2>1, <3>2, FS_RemoveElement
    <3> QED BY <3>1, <3>3
  <2> QED BY <1>1, <1>6, <2>2, <2>3, <2>4, <2>5 DEF WorkLeft
<1> QED BY <1>7, <1>8

\* The recursion ends: each step leaves less to do, for every number of GEMMs,
\* map, however cyclic, arguments and failing set.
THEOREM RepairEnds == Spec => WorkShrinks
<1>1. IInv /\ [Next]_vars => [WorkLeft' < WorkLeft]_vars
  BY AdjustShrinks, RepairDfsShrinks, ReturnShrinks DEF Next
<1> QED BY <1>1, SearchInvariance, PTL DEF Spec, WorkShrinks
=============================================================================
