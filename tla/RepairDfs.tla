----------------------------- MODULE RepairDfs -----------------------------
(***************************************************************************)
(* best_arguments_repair of the pass TUNING, call by call.  SbSTuning does *)
(* it in one step; here the related-GEMM map is adjusted entry by entry    *)
(* and repair_dfs is the recursive search it is, over arguments that it    *)
(* changes while it goes.                                                  *)
(*                                                                         *)
(* GEMMs are numbered as in SbSTuning, by their place in                   *)
(* runned_funcID_list; call sites the program never reached, which the     *)
(* data-flow analysis finds as well, come behind.  The vectors of the map  *)
(* are sets: they are walked in any order.                                 *)
(***************************************************************************)
EXTENDS Integers, Sequences, FiniteSets

CONSTANTS
    N,          \* GEMMs in runned_funcID_list
    Unreached,  \* call sites of rocblas_gemm_ex that were not reached
    Maps,       \* what the data-flow analysis may find related to what
    Choices     \* argument triples best_arguments may hold

Gemms == 1..N
Sites == 1..(N + Unreached)
Fp32 == <<-1, -1, -1>>
Skipped == <<1, 1, 0>>

ASSUME SizesAssumption == N \in Nat \ {0} /\ Unreached \in Nat
ASSUME MapsAssumption == Maps \subseteq [Sites -> SUBSET Sites]
ASSUME ChoicesAssumption ==
    {Fp32, Skipped} \subseteq Choices /\ Choices \subseteq ({0, 1} \X {0, 1} \X {0, 1}) \cup {Fp32}

VARIABLES
    toAdjust,  \* entries of the map still to adjust
    related,   \* related_gemm_id_map
    stack,     \* the loops of the running calls: the GEMMs each has still to visit
    repaired,  \* repaired_gemm_id_m
    best,      \* best_arguments
    raw,       \* history: related_gemm_id_map as the analysis left it
    before,    \* history: best_arguments before the repair
    failing    \* to_repair_funcID_list

given == <<raw, before, failing>>
vars == <<toAdjust, related, stack, repaired, best, given>>

----------------------------------------------------------------------------

\* The place of a call site in runned_funcID_list.
Index(s) == IF s \in Gemms THEN s ELSE -1

RunsBeforeOrIs(s, t) == Index(s) # -1 /\ Index(s) <= Index(t)
RunsBefore(s, t) == Index(s) # -1 /\ Index(s) < Index(t)

\* One iteration of adjust_related_gemm_map; an entry of a call site that was
\* not reached is skipped.
Adjust ==
    /\ toAdjust # {}
    /\ \E t \in toAdjust :
        /\ toAdjust' = toAdjust \ {t}
        /\ related' = IF Index(t) = -1 THEN related
                      ELSE [related EXCEPT ![t] = {s \in @ : RunsBefore(s, t)}]
    /\ UNCHANGED <<stack, repaired, best, given>>

IsFp32(a) == a = Fp32
Upgrade(a) == IF a[1] = 1 /\ a[2] = 1 THEN Fp32 ELSE Skipped

Top == stack[Len(stack)]
Rest == SubSeq(stack, 1, Len(stack) - 1)

MarkNothing(g) == repaired
Mark(g) == repaired \cup {g}

\* A call of repair_dfs by the innermost loop: it returns at once for a GEMM
\* already repaired and for one that is fp32, and otherwise upgrades the GEMM
\* and starts a loop over the GEMMs related to it.
RepairDfs ==
    /\ toAdjust = {}
    /\ stack # <<>>
    /\ \E g \in Top :
        IF g \in repaired \/ IsFp32(best[g])
        THEN /\ stack' = Append(Rest, Top \ {g})
             /\ UNCHANGED <<repaired, best>>
        ELSE /\ stack' = Append(Append(Rest, Top \ {g}), related[g])
             /\ repaired' = Mark(g)
             /\ best' = [best EXCEPT ![g] = Upgrade(@)]
    /\ UNCHANGED <<toAdjust, related, given>>

\* The innermost loop ends, and with it the call of repair_dfs it belongs to.
Return ==
    /\ toAdjust = {}
    /\ stack # <<>>
    /\ Top = {}
    /\ stack' = Rest
    /\ UNCHANGED <<toAdjust, related, repaired, best, given>>

\* GEMMs have been given arguments in order, the failing ones among them.
Init ==
    /\ raw \in Maps
    /\ \E k \in 0..N : before \in [1..k -> Choices]
    /\ failing \in SUBSET DOMAIN before
    /\ toAdjust = Sites
    /\ related = raw
    /\ stack = <<failing>>
    /\ repaired = {}
    /\ best = before

Next == Adjust \/ RepairDfs \/ Return

Spec == Init /\ [][Next]_vars

----------------------------------------------------------------------------
(* Properties.                                                             *)

Finished == stack = <<>>

\* The repair as the tuning loop sees it: one step from the arguments before to
\* the arguments after.
Loop == INSTANCE SbSTuning
            WITH Trace <- [g \in Gemms |-> g],
                 Grid <- Choices \ {Fp32},
                 Times <- {}, Errs <- {}, Threshold <- 0, Graphs <- Maps,
                 MayAbort <- FALSE, MaxSessions <- 1,
                 pc <- IF Finished THEN "emit" ELSE "repair",
                 best <- IF Finished THEN best ELSE before,
                 toRepair <- failing,
                 related <- raw,
                 sessions <- 1, runs <- 0, idFile <- <<>>, banFile <- {},
                 optData <- {}, singleErr <- {}, banned <- {}, checked <- <<>>,
                 tuning <- 0, shipped <- <<>>

\* The recursive search does what SbSTuning takes it to do: every GEMM that is
\* reached from a failing one over GEMMs not yet fp32 moves one level, once, in
\* whatever order the vectors are walked, and no other GEMM changes.
RepairsInOneStep == [][Loop!BestArgumentsRepair]_(Loop!vars)

\* The calls the running loops have still to make, and those that GEMMs not yet
\* repaired would make.
CallsLeft == {c \in (1..Len(stack)) \X Sites : c[2] \in stack[c[1]]}
CallsToCome == {c \in (Sites \ repaired) \X Sites : c[2] \in related[c[1]]}
WorkLeft ==
    Cardinality(toAdjust) + Len(stack) + Cardinality(Sites \ repaired)
        + Cardinality(CallsLeft) + Cardinality(CallsToCome)

\* repair_dfs ends without walking a relation twice, although the map it is given
\* may have many paths to a GEMM and a GEMM at fp32 returns unmarked: a repaired
\* GEMM never starts a second loop, so the steps are at most as many as the
\* relations, the failing GEMMs, twice the sites, and one more.
WorkShrinks == [][WorkLeft' < WorkLeft]_vars

----------------------------------------------------------------------------
(* The inductive invariant behind it.                                      *)

Pending == UNION {stack[i] : i \in DOMAIN stack}
Earlier(g) == {h \in raw[g] : h < g}
WasFp32(g) == before[g] = Fp32

TypeOK ==
    /\ toAdjust \subseteq Sites
    /\ raw \in Maps
    /\ related \in [Sites -> SUBSET Sites]
    /\ \E k \in 0..N : DOMAIN before = 1..k /\ before \in [1..k -> Choices]
    /\ failing \subseteq DOMAIN before
    /\ stack \in Seq(SUBSET DOMAIN before)
    /\ repaired \subseteq DOMAIN before
    /\ best \in [DOMAIN before -> Choices]

\* The entries adjusted so far.
AdjustedSoFar ==
    \A g \in Gemms : related[g] = IF g \in toAdjust THEN raw[g] ELSE Earlier(g)

\* The search starts when the map is adjusted.
SearchIsLast == toAdjust # {} => stack = <<failing>> /\ repaired = {}

\* Who is repaired moved one level, the others are as they were.
OnceEach ==
    \A g \in DOMAIN before :
        best[g] = IF g \in repaired THEN Upgrade(before[g]) ELSE before[g]

\* What has still to be seen is on the stack.
Seen(g) == g \in repaired \/ WasFp32(g) \/ g \in Pending
NothingForgotten ==
    /\ \A g \in failing : Seen(g)
    /\ \A g \in repaired : ~ WasFp32(g) /\ \A h \in Earlier(g) : Seen(h)

\* Nothing is seen that a failing GEMM does not lead to.
OnlyReached ==
    \A S \in SUBSET Gemms :
        (failing \subseteq S /\ \A g \in S \cap DOMAIN before : WasFp32(g) \/ Earlier(g) \subseteq S)
            => repaired \cup Pending \subseteq S

IInv ==
    /\ TypeOK
    /\ AdjustedSoFar
    /\ SearchIsLast
    /\ OnceEach
    /\ NothingForgotten
    /\ OnlyReached
=============================================================================
