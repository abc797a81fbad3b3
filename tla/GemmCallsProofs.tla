-------------------------- MODULE GemmCallsProofs --------------------------
(***************************************************************************)
(* Proofs about GemmCalls: the emitted programs compute what the original  *)
(* would at their precisions, and each result is compared with that of the *)
(* same call, for every program that passes one matrix as C and D, and     *)
(* every sequence of calls.                                                *)
(***************************************************************************)
EXTENDS GemmCalls, TLAPS

USE SitesAssumption, ProgAssumption, TracesAssumption, BoundsAssumption

LEMMA SiteIsSite == TypeOK /\ todo # <<>> => Site \in Sites /\ Tail(todo) \in Seq(Sites)
BY DEF TypeOK, Site

LEMMA BuffersOfSite ==
  ASSUME NEW s \in Sites
  PROVE  /\ Prog[s].a \in Buffers /\ Prog[s].b \in Buffers
         /\ Prog[s].c \in Buffers /\ Prog[s].d \in Buffers
OBVIOUS

\* The steps at a call site, by the function that stands there.
LEMMA EmissionsAreWritten ==
  ASSUME NEW next \in {"pass1", "pass2", "final"}
  PROVE  Emissions(next) \subseteq [Sites -> Written]
<1>1. /\ Code("wrapper", Fp32) \in Written /\ Code("tuning", Fp32) \in Written
      /\ Unchanged \in Written
      /\ Checkers \subseteq Written
      /\ \A p \in Triples : Code("faster_mul", p) \in Written
  BY DEF Code, Written, Checkers, Unchanged
<1>2. CASE next = "pass1"
  BY <1>1, <1>2 DEF Emissions
<1>3. CASE next = "pass2"
  BY <1>1, <1>3 DEF Emissions
<1>4. CASE next = "final"
  <2>1. \A s \in Sites : FinalCode(s) \subseteq Written
    BY <1>1 DEF FinalCode
  <2>2. UNION {FinalCode(s) : s \in Sites} \subseteq Written
    BY <2>1
  <2> QED BY <1>4, <2>2 DEF Emissions
<1> QED BY <1>2, <1>3, <1>4

----------------------------------------------------------------------------
(* Types.                                                                  *)

LEMMA InitType == Init => TypeOK
BY DEF Init, TypeOK, Initially, Code, Written

LEMMA StepType == TypeOK /\ [Next]_vars => TypeOK'
<1> SUFFICES ASSUME TypeOK, [Next]_vars PROVE TypeOK'
  OBVIOUS
<1>1. Done /\ todo # <<>> => todo' \in Seq(Sites) /\ nth' \in [Sites -> Nat]
  BY SiteIsSite DEF TypeOK, Done
<1>2. todo # <<>> /\ rc' = Counted => rc' \in [Sites -> Nat]
  BY SiteIsSite DEF TypeOK, Counted
<1>3. \A p, v : dev' = [dev EXCEPT ![p] = v] => dev' = [b \in Buffers |-> dev'[b]]
  BY DEF TypeOK
<1>4. CASE \E next \in {"pass1", "pass2", "final"} : Execute(next)
  <2>1. PICK next \in {"pass1", "pass2", "final"} : Execute(next)
    BY <1>4
  <2>2. emitted' \in [Sites -> Written]
    BY <2>1, EmissionsAreWritten DEF Execute
  <2>3. todo' \in Seq(Sites)
    BY <2>1 DEF Execute
  <2>4. dev' = [b \in Buffers |-> dev'[b]]
    BY <2>1 DEF Execute, Initially
  <2> QED BY <2>1, <2>2, <2>3, <2>4 DEF Execute, TypeOK, files
<1>5. CASE Wrapper
  <2>1. dev' = [b \in Buffers |-> dev'[b]]
    BY <1>3, <1>5 DEF Wrapper, WrappedGemmEx
  <2>2. funcIds' \in Seq(Sites)
    BY <1>5, SiteIsSite DEF Wrapper, At, TypeOK
  <2> QED BY <1>1, <1>2, <1>5, <2>1, <2>2 DEF Wrapper, At, TypeOK, tuning
<1>6. CASE Plain \/ Faster
  <2>1. dev' = [b \in Buffers |-> dev'[b]]
    BY <1>3, <1>6 DEF Plain, Faster, GemmEx, FasterMul
  <2> QED BY <1>1, <1>6, <2>1 DEF Plain, Faster, At, TypeOK, tuning, files
<1>7. CASE Checker
  <2>1. dev' = [b \in Buffers |-> dev'[b]]
    <3>1. CASE emitted[Site].fn = "checker_GemmEx"
      BY <1>3, <1>7, <3>1 DEF Checker, GemmEx
    <3>2. CASE emitted[Site].fn # "checker_GemmEx"
      BY <1>3, <1>7, <3>2 DEF Checker, FasterMul
    <3> QED BY <3>1, <3>2
  <2> QED BY <1>1, <1>2, <1>7, <2>1 DEF Checker, At, TypeOK, tuning, files
<1>8. CASE TuneFp32
  <2>1. dev' = [b \in Buffers |-> dev'[b]]
    BY <1>3, <1>8 DEF TuneFp32, GemmEx
  <2> QED BY <1>2, <1>8, <2>1 DEF TuneFp32, At, TypeOK, files
<1>9. CASE TuneTrial
  <2>1. dev' = [b \in Buffers |-> dev'[b]]
    BY <1>9 DEF TuneTrial, FasterMul, Restored, TypeOK
  <2>2. trial' \in 0..9
    BY <1>9 DEF TuneTrial
  <2> QED BY <1>9, <2>1, <2>2 DEF TuneTrial, TypeOK, files
<1>10. CASE TuneReturn
  <2>1. dev' = [b \in Buffers |-> dev'[b]]
    BY <1>3, <1>10 DEF TuneReturn
  <2> QED BY <1>1, <1>10, <2>1 DEF TuneReturn, At, TypeOK, files
<1>11. CASE ExitOnNaN
  <2>1. dev' = [b \in Buffers |-> dev'[b]]
    BY <1>11 DEF ExitOnNaN, Initially
  <2> QED BY <1>11, <2>1 DEF ExitOnNaN, TypeOK, files
<1>12. CASE UNCHANGED vars
  BY <1>12 DEF vars, tuning, files, TypeOK
<1> QED BY <1>4, <1>5, <1>6, <1>7, <1>8, <1>9, <1>10, <1>11, <1>12
        DEF Next, ExecutePass1, ExecuteTuned

----------------------------------------------------------------------------
(* The counters and the files.                                             *)

\* The functions that count, as opposed to "gemm" and "faster_mul".
Counting(s) == emitted[s].fn \notin {"gemm", "faster_mul"}

LEMMA StepCounts == TypeOK /\ CountsCalls /\ Tuning /\ [Next]_vars => CountsCalls'
<1> SUFFICES ASSUME TypeOK, CountsCalls, Tuning, [Next]_vars,
                    NEW s \in Sites, todo' # <<>>, Counting(s)'
             PROVE  (rc[s] = IF trial # 0 /\ s = Site THEN nth[s] + 1 ELSE nth[s])'
  BY DEF CountsCalls, Counting
<1>1. CASE \E next \in {"pass1", "pass2", "final"} : Execute(next)
  BY <1>1 DEF Execute
<1>2. ASSUME emitted' = emitted, todo # <<>>
      PROVE  rc[s] = IF trial # 0 /\ s = Site THEN nth[s] + 1 ELSE nth[s]
  BY <1>2 DEF CountsCalls, Counting
<1>3. ASSUME todo # <<>>, trial = 0, trial' = 0, emitted' = emitted, rc' = Counted, Done
      PROVE  rc'[s] = nth'[s]
  BY <1>2, <1>3 DEF Counted, Done, TypeOK
<1>4. CASE Wrapper
  <2>1. trial = 0
    BY <1>4 DEF Wrapper, At, Tuning
  <2> QED BY <1>3, <1>4, <2>1 DEF Wrapper, At, tuning
<1>5. CASE Plain \/ Faster
  <2>1. /\ todo # <<>> /\ emitted' = emitted /\ rc' = rc /\ trial' = trial /\ Done
        /\ ~ Counting(Site)
    BY <1>5 DEF Plain, Faster, At, tuning, Counting
  <2>2. trial = 0
    BY <1>5 DEF Plain, Faster, At, Tuning
  <2>3. s # Site
    BY <2>1 DEF Counting
  <2> QED BY <1>2, <2>1, <2>2, <2>3, SiteIsSite DEF Done, TypeOK
<1>6. CASE Checker
  <2>1. trial = 0
    BY <1>6 DEF Checker, At, Tuning
  <2> QED BY <1>3, <1>6, <2>1 DEF Checker, At, tuning
<1>7. CASE TuneFp32
  <2>1. todo # <<>> /\ trial = 0 /\ trial' = 1 /\ todo' = todo /\ nth' = nth
        /\ rc' = Counted /\ emitted' = emitted
    BY <1>7 DEF TuneFp32, At
  <2> QED BY <1>2, <2>1, SiteIsSite DEF Counted, TypeOK, Site
<1>8. CASE TuneTrial
  <2>1. /\ todo # <<>> /\ trial # 0 /\ trial' # 0
        /\ UNCHANGED <<emitted, todo, rc, nth>>
    BY <1>8 DEF TuneTrial, At
  <2> QED BY <1>2, <2>1 DEF Site
<1>9. CASE TuneReturn
  <2>1. /\ todo # <<>> /\ emitted' = emitted /\ rc' = rc /\ trial = 9 /\ trial' = 0
        /\ nth' = [nth EXCEPT ![Site] = @ + 1]
    BY <1>9 DEF TuneReturn, At, Done
  <2>2. rc[s] = IF s = Site THEN nth[s] + 1 ELSE nth[s]
    BY <1>2, <2>1
  <2>3. nth \in [Sites -> Nat] /\ Site \in Sites
    BY <2>1, SiteIsSite DEF TypeOK
  <2> QED BY <2>1, <2>2, <2>3
<1>10. CASE ExitOnNaN
  BY <1>10 DEF ExitOnNaN
<1>11. CASE UNCHANGED vars
  BY <1>2, <1>11 DEF vars, tuning, Site
<1> QED BY <1>1, <1>4, <1>5, <1>6, <1>7, <1>8, <1>9, <1>10, <1>11
        DEF Next, ExecutePass1, ExecuteTuned

LEMMA StepKeeps ==
  TypeOK /\ CountsCalls /\ Tuning /\ KeepsResults /\ [Next]_vars => KeepsResults'
<1> SUFFICES ASSUME TypeOK, CountsCalls, Tuning, KeepsResults, [Next]_vars
             PROVE  KeepsResults'
  OBVIOUS
<1>1. CASE Wrapper
  <2>1. Site \in Sites /\ todo # <<>> /\ trial = 0 /\ emitted[Site].fn = "wrapper"
    BY <1>1, SiteIsSite DEF Wrapper, At, Tuning
  <2>2. rc'[Site] = nth'[Site]
    BY <1>1, <2>1 DEF Wrapper, Counted, Done, CountsCalls, TypeOK
  <2>3. dev'[Prog[Site].c] = Product(Fp32, Site, dev)
    BY <1>1, <2>1, BuffersOfSite DEF Wrapper, WrappedGemmEx, TypeOK
  <2> DEFINE k == <<Site, nth'[Site]>>
             value == Product(Fp32, Site, dev)
  <2>4. bin' = [x \in DOMAIN bin \cup {k} |-> IF x = k THEN value ELSE bin[x]]
    BY <1>1, <2>2, <2>3 DEF Wrapper, WriteFile
  <2>5. golden' = [x \in DOMAIN golden \cup {k} |-> IF x = k THEN value ELSE golden[x]]
    BY <1>1 DEF Wrapper
  <2> HIDE DEF k, value
  <2> QED BY <2>4, <2>5 DEF KeepsResults
<1>2. CASE UNCHANGED <<bin, golden>>
  BY <1>2 DEF KeepsResults
<1> QED BY <1>1, <1>2 DEF Next, ExecutePass1, ExecuteTuned, Execute, Plain, Faster, Checker,
        TuneFp32, TuneTrial, TuneReturn, ExitOnNaN, vars, files

----------------------------------------------------------------------------
(* The tuning call.                                                        *)

\* A write to the C of the call in progress, and C put back, is no change.
LEMMA PutBack ==
  ASSUME TypeOK, NEW b, NEW x
  PROVE  [[dev EXCEPT ![b] = x] EXCEPT ![b] = dev[b]] = dev
BY DEF TypeOK

LEMMA MemAfterFp32 == InPlace /\ TypeOK /\ TuneFp32 => mem' = dev
<1> SUFFICES ASSUME InPlace, TypeOK, TuneFp32 PROVE mem' = dev
  OBVIOUS
<1>1. Site \in Sites /\ Site' = Site /\ Prog[Site].c = Prog[Site].d
  BY SiteIsSite DEF TuneFp32, At, Site, InPlace
<1>2. dev' = [dev EXCEPT ![Prog[Site].c] = Product(Fp32, Site, dev)]
  BY <1>1 DEF TuneFp32, GemmEx
<1>3. mem' = [dev' EXCEPT ![Prog[Site].c] = dev[Prog[Site].c]]
  BY <1>1 DEF TuneFp32, mem
<1> QED BY <1>2, <1>3, PutBack

LEMMA MemAfterTrial == TypeOK /\ TuneTrial => mem' = mem
<1> SUFFICES ASSUME TypeOK, TuneTrial PROVE mem' = mem
  OBVIOUS
<1>1. Site' = Site /\ trial # 0 /\ trial' # 0 /\ saved' = saved
  BY DEF TuneTrial, Site
<1> DEFINE p == Prog[Site].c
           x == Product(Triple(trial), Site, Restored)
<1>2. dev' = [[dev EXCEPT ![p] = saved] EXCEPT ![p] = x]
  BY DEF TuneTrial, FasterMul, Restored
<1>3. mem' = [dev' EXCEPT ![p] = saved] /\ mem = [dev EXCEPT ![p] = saved]
  BY <1>1 DEF mem
<1> HIDE DEF p, x
<1> QED BY <1>2, <1>3 DEF TypeOK

LEMMA StepTuning ==
  InPlace /\ TypeOK /\ CountsCalls /\ Tuning /\ [Next]_vars => Tuning'
<1> SUFFICES ASSUME InPlace, TypeOK, CountsCalls, Tuning, [Next]_vars, trial' # 0
             PROVE  Tuning'
  BY DEF Tuning
<1>1. CASE TuneFp32
  <2>1. /\ Site \in Sites /\ Site' = Site /\ todo # <<>> /\ Prog[Site].c = Prog[Site].d
        /\ emitted[Site].fn = "tuning" /\ trial = 0
    BY <1>1, SiteIsSite DEF TuneFp32, At, Site, InPlace
  <2>2. At("tuning")'
    BY <1>1, <2>1 DEF TuneFp32, At
  <2>3. result' = Product(Fp32, Site, dev)
    BY <1>1, <2>1, BuffersOfSite DEF TuneFp32, GemmEx, TypeOK
  <2>4. result' = Product(Fp32, Site', mem')
    BY <1>1, <2>1, <2>3, MemAfterFp32
  <2>5. rc'[Site] = nth[Site] + 1
    BY <1>1, <2>1 DEF TuneFp32, Counted, CountsCalls, TypeOK
  <2>6. ref' = ReadFile(Site, nth[Site] + 1) /\ bin' = bin /\ nth' = nth
    BY <1>1, <2>5 DEF TuneFp32, files
  <2> QED BY <2>1, <2>2, <2>4, <2>6 DEF Tuning, ReadFile, Product
<1>2. CASE TuneTrial
  <2>1. /\ UNCHANGED <<todo, emitted, result, ref, nth, bin>>
        /\ trial # 0 /\ Site' = Site
    BY <1>2 DEF TuneTrial, files, Site
  <2> QED BY <1>2, <2>1, MemAfterTrial DEF Tuning, At, Product, ReadFile
<1>3. CASE UNCHANGED vars
  BY <1>3 DEF vars, tuning, files, Tuning, At, Site, Product, ReadFile, mem
<1>4. CASE Wrapper \/ Plain \/ Faster \/ Checker
  BY <1>4 DEF Wrapper, Plain, Faster, Checker, At, tuning, Tuning
<1> QED BY <1>1, <1>2, <1>3, <1>4
        DEF Next, ExecutePass1, ExecuteTuned, Execute, TuneReturn, ExitOnNaN

LEMMA InitInv == Init => IInv
<1>1. Init => CountsCalls /\ KeepsResults /\ Tuning
  BY DEF Init, CountsCalls, KeepsResults, Tuning
<1> QED BY <1>1, InitType DEF IInv

LEMMA StepInv == InPlace /\ IInv /\ [Next]_vars => IInv'
BY StepType, StepCounts, StepKeeps, StepTuning DEF IInv

\* In every execution the counters say which call of its site a call is, and a
\* tuning call holds the matrices it will compare with and put back.
THEOREM CallsInvariance == InPlace /\ Spec => []IInv
<1> SUFFICES ASSUME InPlace PROVE Spec => []IInv
  OBVIOUS
<1> QED BY InitInv, StepInv, PTL DEF Spec

----------------------------------------------------------------------------
(* What is recorded.                                                       *)

\* The three steps that record, and what they record.
LEMMA Recording ==
  ASSUME InPlace, IInv, [Next]_vars, NewRecord
  PROVE  LET r == record' IN
         /\ Site \in Sites
         /\ r.site = Site
         /\ r.got = Product(r.args, Site, mem)
         /\ r.ref = ReadFile(Site, nth[Site] + 1)
<1> USE DEF IInv
<1> DEFINE Made(p, n, reference) ==
             record' = [site |-> Site, n |-> n, args |-> p,
                        got |-> Product(p, Site, mem), ref |-> reference]
<1>1. CASE Checker
  <2>1. Site \in Sites /\ trial = 0 /\ mem = dev /\ Prog[Site].c = Prog[Site].d
    BY <1>1, SiteIsSite DEF Checker, At, Tuning, mem, InPlace
  <2>2. rc'[Site] = nth[Site] + 1
    BY <1>1, <2>1 DEF Checker, At, Counted, CountsCalls, TypeOK
  <2>3. emitted[Site] \in Written
    BY <2>1 DEF TypeOK
  <2>4. emitted[Site].fn = "checker_GemmEx" => emitted[Site].args = Fp32
    BY <2>3 DEF Written
  <2>5. dev' = [dev EXCEPT ![Prog[Site].c] = Product(emitted[Site].args, Site, dev)]
    BY <1>1, <2>1, <2>4 DEF Checker, GemmEx, FasterMul
  <2>6. dev'[Prog[Site].c] = Product(emitted[Site].args, Site, mem)
    BY <2>1, <2>5, BuffersOfSite DEF TypeOK
  <2>7. Made(emitted[Site].args, nth[Site] + 1, ReadFile(Site, nth[Site] + 1))
    BY <1>1, <2>2, <2>6 DEF Checker, Record
  <2> QED BY <2>1, <2>7
<1>2. CASE TuneFp32
  <2>1. Site \in Sites /\ trial = 0 /\ mem = dev /\ Prog[Site].c = Prog[Site].d
    BY <1>2, SiteIsSite DEF TuneFp32, At, mem, InPlace
  <2>2. rc'[Site] = nth[Site] + 1
    BY <1>2, <2>1 DEF TuneFp32, At, Counted, CountsCalls, TypeOK
  <2>3. dev'[Prog[Site].c] = Product(Fp32, Site, mem)
    BY <1>2, <2>1, BuffersOfSite DEF TuneFp32, GemmEx, TypeOK
  <2>4. Made(Fp32, nth[Site] + 1, ReadFile(Site, nth[Site] + 1))
    BY <1>2, <2>2, <2>3 DEF TuneFp32, Record
  <2> QED BY <2>1, <2>4
<1>3. CASE TuneTrial
  <2>1. /\ Site \in Sites /\ mem = Restored
        /\ ref = ReadFile(Site, nth[Site] + 1)
    BY <1>3, SiteIsSite DEF TuneTrial, At, mem, Restored, Tuning
  <2>2. dev'[Prog[Site].c] = Product(Triple(trial), Site, mem)
    BY <1>3, <2>1, BuffersOfSite DEF TuneTrial, FasterMul, Restored, TypeOK
  <2>3. Made(Triple(trial), rc[Site], ReadFile(Site, nth[Site] + 1))
    BY <1>3, <2>1, <2>2 DEF TuneTrial, Record
  <2> QED BY <2>1, <2>3
<1>4. CASE \E next \in {"pass1", "pass2", "final"} : Execute(next)
  BY <1>4 DEF Execute, NewRecord
<1>5. CASE Wrapper \/ Plain \/ Faster \/ TuneReturn \/ ExitOnNaN \/ UNCHANGED vars
  BY <1>5 DEF Wrapper, Plain, Faster, TuneReturn, ExitOnNaN, vars, NewRecord
<1> QED BY <1>1, <1>2, <1>3, <1>4, <1>5
        DEF Next, ExecutePass1, ExecuteTuned

\* Every error the passes read is that of the call it is recorded for: the matrix
\* compared is the product of the operands the program passes, at the recorded
\* arguments, also for the eight trials that follow the fp32 one on the same C.
THEOREM MeasuresItsCall == InPlace /\ Spec => RecordsOfCall
<1> SUFFICES ASSUME InPlace PROVE Spec => RecordsOfCall
  OBVIOUS
<1>1. IInv /\ [Next]_vars =>
        [NewRecord => record'.got = Product(record'.args, record'.site, mem)]_vars
  BY Recording
<1> QED BY <1>1, CallsInvariance, PTL DEF Spec, RecordsOfCall

\* The n-th call of a site is compared with the result of its n-th call in pass 1,
\* though the passes emit different programs and count in different globals.
THEOREM ComparesSameCall == InPlace /\ Spec => ReferenceOfSameCall
<1> SUFFICES ASSUME InPlace PROVE Spec => ReferenceOfSameCall
  OBVIOUS
<1> DEFINE Same == LET call == <<record'.site, nth[record'.site] + 1>>
                   IN  record'.ref = IF call \in DOMAIN golden THEN golden[call]
                                     ELSE IF call \in LeftOver THEN Stale ELSE Junk
<1>1. ASSUME IInv, [Next]_vars, NewRecord PROVE Same
  <2>1. record'.site = Site /\ record'.ref = ReadFile(Site, nth[Site] + 1)
    BY <1>1, Recording
  <2> DEFINE call == <<Site, nth[Site] + 1>>
  <2>2. record'.ref = IF call \in DOMAIN bin THEN bin[call] ELSE Junk
    BY <2>1 DEF ReadFile
  <2>3. record'.ref = IF call \in DOMAIN golden THEN golden[call]
                      ELSE IF call \in LeftOver THEN Stale ELSE Junk
    <3> HIDE DEF call
    <3> QED BY <1>1, <2>2 DEF IInv, KeepsResults
  <2> QED BY <2>1, <2>3
<1>2. IInv /\ [Next]_vars => [NewRecord => Same]_vars
  BY <1>1
<1> QED BY <1>2, CallsInvariance, PTL DEF Spec, ReferenceOfSameCall

----------------------------------------------------------------------------
(* The refinement.                                                         *)

levels == [s \in Sites |-> emitted[s].args]

LEMMA SameOperators ==
  /\ Plan!Initially = Initially
  /\ \A p, s, m : Plan!Product(p, s, m) = Product(p, s, m)
BY DEF Plan!Initially, Initially, Plan!Product, Product

LEMMA LevelsArePrecisions == TypeOK => levels \in [Sites -> Precisions]
<1> SUFFICES ASSUME TypeOK, NEW s \in Sites PROVE emitted[s].args \in Precisions
  BY DEF levels
<1>1. emitted[s] \in Written
  BY DEF TypeOK
<1> QED BY <1>1 DEF Written, Precisions

LEMMA PlanInit == Init => Plan!Init
<1> SUFFICES ASSUME Init PROVE Plan!Init
  OBVIOUS
<1>1. levels \in [Sites -> Precisions]
  BY InitType, LevelsArePrecisions
<1>2. mem = Initially /\ todo = <<>>
  BY DEF Init, mem
<1> QED BY <1>1, <1>2, SameOperators DEF Plan!Init, levels

\* A step that makes a call and writes D, or C which is the same matrix.
LEMMA PlanCall ==
  ASSUME TypeOK, todo # <<>>, todo' = Tail(todo), emitted' = emitted,
         mem' = [mem EXCEPT ![Prog[Site].d] = Product(emitted[Site].args, Site, mem)]
  PROVE  Plan!Call
<1>1. levels[Site] = emitted[Site].args
  BY SiteIsSite DEF levels
<1>2. levels' = levels
  BY DEF levels
<1>3. mem' = [mem EXCEPT ![Prog[Site].d] = Plan!Product(levels[Site], Site, mem)]
  BY <1>1, SameOperators
<1> QED BY <1>2, <1>3 DEF Plan!Call, levels, Site

LEMMA PlanStep ==
  ASSUME InPlace, IInv, IInv', [Next]_vars
  PROVE  [Plan!Next]_(Plan!vars)
<1> USE DEF IInv
<1>1. CASE \E next \in {"pass1", "pass2", "final"} : Execute(next)
  <2>1. todo = <<>> /\ todo' \in Traces /\ mem' = Initially
    BY <1>1 DEF Execute, mem
  <2>2. levels' \in [Sites -> Precisions]
    <3>1. ASSUME NEW s \in Sites PROVE emitted'[s] \in Written
      BY DEF TypeOK
    <3>2. \A w \in Written : w.args \in Precisions
      BY DEF Written, Precisions
    <3> QED BY <3>1, <3>2 DEF levels
  <2> QED BY <2>1, <2>2, SameOperators DEF Plan!Next, Plan!Start, levels
<1>2. ASSUME At("wrapper") \/ At("gemm") \/ At("faster_mul") \/ At("checker_GemmEx")
             \/ At("checker_faster_mul"), Done, UNCHANGED <<emitted, trial>>,
             dev' = [dev EXCEPT ![Prog[Site].d] = Product(emitted[Site].args, Site, dev)]
      PROVE  Plan!Call
  <2>1. todo # <<>> /\ trial = 0 /\ mem = dev /\ mem' = dev'
    BY <1>2 DEF At, Tuning, mem
  <2> QED BY <1>2, <2>1, PlanCall DEF Done
<1>3. ASSUME todo # <<>>
      PROVE  /\ Site \in Sites /\ Prog[Site].c = Prog[Site].d
             /\ emitted[Site].fn \in {"wrapper", "gemm", "checker_GemmEx", "tuning"} =>
                   emitted[Site].args = Fp32
  <2>1. Site \in Sites /\ emitted[Site] \in Written
    BY <1>3, SiteIsSite DEF TypeOK
  <2> QED BY <2>1 DEF Written, InPlace
<1>4. CASE Wrapper
  BY <1>2, <1>3, <1>4 DEF Wrapper, At, WrappedGemmEx, tuning, Plan!Next
<1>5. CASE Plain
  BY <1>2, <1>3, <1>5 DEF Plain, At, GemmEx, tuning, Plan!Next
<1>6. CASE Faster
  BY <1>2, <1>3, <1>6 DEF Faster, At, FasterMul, tuning, Plan!Next
<1>7. CASE Checker
  BY <1>2, <1>3, <1>7 DEF Checker, At, GemmEx, FasterMul, tuning, Plan!Next
<1>8. CASE TuneFp32
  <2>1. mem' = mem
    BY <1>8, MemAfterFp32 DEF TuneFp32, mem
  <2> QED BY <1>8, <2>1 DEF TuneFp32, Plan!vars
<1>9. CASE TuneTrial
  BY <1>9, MemAfterTrial DEF TuneTrial, Plan!vars
<1>10. CASE TuneReturn
  <2>1. /\ todo # <<>> /\ todo' = Tail(todo) /\ emitted' = emitted
        /\ trial = 9 /\ trial' = 0 /\ emitted[Site].fn = "tuning"
        /\ dev' = [dev EXCEPT ![Prog[Site].c] = result]
    BY <1>10 DEF TuneReturn, At, Done, ResultOfFp32
  <2>2. result = Product(emitted[Site].args, Site, mem)
    BY <1>3, <2>1 DEF Tuning
  <2>3. mem = [dev EXCEPT ![Prog[Site].c] = saved] /\ mem' = dev'
    BY <2>1 DEF mem
  <2>4. mem' = [mem EXCEPT ![Prog[Site].d] = result]
    BY <1>3, <2>1, <2>3 DEF TypeOK
  <2> QED BY <2>1, <2>2, <2>4, PlanCall DEF Plan!Next
<1>11. CASE ExitOnNaN
  <2>1. todo # <<>> /\ todo' = <<>> /\ emitted' = emitted /\ mem' = Initially
    BY <1>11 DEF ExitOnNaN, At, mem
  <2> QED BY <2>1, SameOperators DEF Plan!Next, Plan!Exit
<1>12. CASE UNCHANGED vars
  <2>1. UNCHANGED <<todo, emitted, mem>>
    BY <1>12 DEF vars, tuning, mem, Site
  <2> QED BY <2>1 DEF Plan!vars
<1> QED BY <1>1, <1>4, <1>5, <1>6, <1>7, <1>8, <1>9, <1>10, <1>11, <1>12
        DEF Next, ExecutePass1, ExecuteTuned

\* Whatever the passes emit, the program makes the calls of the original with the
\* operands of the original, each at the precision of its site: comparing and
\* tuning leave no trace in the matrices.
THEOREM Transparent == InPlace /\ Spec => ImplementsMixedPrecision
<1> SUFFICES ASSUME InPlace PROVE Spec => ImplementsMixedPrecision
  OBVIOUS
<1>1. IInv /\ IInv' /\ [Next]_vars => [Plan!Next]_(Plan!vars)
  BY PlanStep
<1> QED BY <1>1, PlanInit, CallsInvariance, PTL
        DEF Spec, ImplementsMixedPrecision, Plan!Spec
=============================================================================
