--------------------------- MODULE DataFlowProofs ---------------------------
(***************************************************************************)
(* Proof that the data-flow analysis finds only GEMMs that write what a    *)
(* GEMM reads, that it finds all of them where its two searches do not     *)
(* meet, that its recursion ends, and that all passes number the GEMMs     *)
(* alike: for every program.                                               *)
(***************************************************************************)
EXTENDS DataFlow, FiniteSetTheorems, SequenceTheorems, TLAPS

----------------------------------------------------------------------------
(* The program.                                                            *)

LEMMA CallFacts ==
  /\ Len(Calls) \in Nat
  /\ Sites = 1..Len(Calls)
  /\ \A i \in Sites : DOMAIN Calls[i].args = 1..Len(Calls[i].args) /\ ArgsOf(Calls[i]) \subseteq Values
  /\ \A i \in Targets : Reads(Calls[i]) \subseteq Values /\ i \in Sites
<1>1. Len(Calls) \in Nat /\ Sites = 1..Len(Calls)
  BY ProgramAssumption DEF Sites
<1>2. ASSUME NEW i \in Sites PROVE Calls[i].args \in Seq(Values)
  <2>1. Calls[i] \in [in : STRING, callee : STRING, args : Seq(Values), val : Values \cup {"none"}]
    <3>1. Calls \in Seq([in : STRING, callee : STRING, args : Seq(Values), val : Values \cup {"none"}])
      BY ProgramAssumption
    <3> HIDE ProgramAssumption
    <3> QED BY <1>1, <3>1, ElementOfSeq
  <2> QED BY <2>1
<1>3. ASSUME NEW i \in Sites
      PROVE  DOMAIN Calls[i].args = 1..Len(Calls[i].args) /\ ArgsOf(Calls[i]) \subseteq Values
  <2> DEFINE args == Calls[i].args
  <2>1. args \in Seq(Values)
    BY <1>2
  <2> HIDE DEF args
  <2>2. DOMAIN args = 1..Len(args) /\ \A k \in DOMAIN args : args[k] \in Values
    BY <2>1
  <2> QED BY <2>2 DEF ArgsOf, args
<1>4. ASSUME NEW i \in Targets PROVE Reads(Calls[i]) \subseteq Values /\ i \in Sites
  <2>1. i \in Sites /\ Len(Calls[i].args) = 4
    BY ProgramAssumption DEF Targets, IsTarget, Sites
  <2> QED BY <1>2, <2>1 DEF Reads
<1> QED BY <1>1, <1>3, <1>4

\* The edges of the searches lead from values to values.
LEMMA EdgeTypes ==
  ASSUME NEW v \in Values
  PROVE  /\ OperandsOf(v) \subseteq Values
         /\ ArgumentsOf(v) \subseteq Values
         /\ InstUsers(v) \subseteq Values
         /\ Dug(v) \subseteq Values
         /\ PassedFor(v) \subseteq Values
<1>1. OperandsOf(v) \subseteq Values /\ InstUsers(v) \subseteq Values
  BY ProgramAssumption DEF OperandsOf, InstUsers
<1>2. ArgumentsOf(v) \subseteq Values
  BY CallFacts DEF ArgumentsOf
<1>3. Dug(v) \subseteq Values
  <2>1. ASSUME NEW c \in Followed, NEW k \in Passes(c, v) PROVE Params[c.callee][k] \in Values
    <3>1. PICK i \in Sites : c = Calls[i]
      BY <2>1 DEF Followed
    <3>2. k \in 1..Len(c.args)
      BY <2>1, <3>1, CallFacts DEF Passes
    <3>3. c.callee \in DOMAIN Params /\ Len(c.args) = Len(Params[c.callee])
      BY <2>1 DEF Followed
    <3>4. Params[c.callee] \in Seq(Values)
      BY <3>3, ProgramAssumption
    <3> QED BY <3>2, <3>3, <3>4
  <2> QED BY <2>1 DEF Dug
<1>4. PassedFor(v) \subseteq Values
  <2>1. ASSUME NEW f \in DOMAIN Params, NEW i \in CallsOf(f), NEW k \in {k \in DOMAIN Params[f] : Params[f][k] = v}
        PROVE  Calls[i].args[k] \in Values
    <3>1. i \in Sites /\ Calls[i].callee = f
      BY <2>1 DEF CallsOf
    <3>2. k \in 1..Len(Params[f]) /\ Len(Calls[i].args) >= Len(Params[f])
      <4>1. Params[f] \in Seq(Values)
        BY ProgramAssumption
      <4>2. DOMAIN Params[f] = 1..Len(Params[f])
        BY <4>1
      <4> QED BY <4>2, <3>1, <2>1, ProgramAssumption DEF Sites
    <3>3. k \in 1..Len(Calls[i].args) /\ Len(Calls[i].args) \in Nat
      BY <3>1, <3>2, CallFacts, ProgramAssumption DEF Sites
    <3> QED BY <3>1, <3>3, CallFacts DEF ArgsOf
  <2> QED BY <2>1 DEF PassedFor
<1> QED BY <1>1, <1>2, <1>3, <1>4

\* The least closed set is closed, and it is the least.
LEMMA LeastClosed ==
  ASSUME NEW edges \in [Values -> SUBSET Values], NEW v \in Values
  PROVE  LET L == Least(ClosedUnder(edges), {v})
         IN  /\ L \subseteq Values
             /\ v \in L
             /\ \A w \in L : edges[w] \subseteq L
             /\ \A S \in SUBSET Values :
                    v \in S /\ (\A w \in S : edges[w] \subseteq S) => L \subseteq S
BY DEF Least, ClosedUnder

LEMMA DigFacts ==
  ASSUME NEW v \in Values
  PROVE  /\ Dig[v] \subseteq Values
         /\ v \in Dig[v]
         /\ \A w \in Dig[v] : DigEdges[w] \subseteq Dig[v]
         /\ \A S \in SUBSET Values :
                v \in S /\ (\A w \in S : DigEdges[w] \subseteq S) => Dig[v] \subseteq S
<1>1. DigEdges \in [Values -> SUBSET Values]
  BY EdgeTypes DEF DigEdges
<1> QED BY <1>1, LeastClosed DEF Dig, DigClosed

LEMMA OutFacts ==
  ASSUME NEW v \in Values
  PROVE  /\ Out[v] \subseteq Values
         /\ v \in Out[v]
         /\ \A w \in Out[v] : OutEdges[w] \subseteq Out[v]
         /\ \A S \in SUBSET Values :
                v \in S /\ (\A w \in S : OutEdges[w] \subseteq S) => Out[v] \subseteq S
<1>1. OutEdges \in [Values -> SUBSET Values]
  BY EdgeTypes DEF OutEdges
<1> QED BY <1>1, LeastClosed DEF Out, OutClosed

LEMMA DigFromFacts ==
  ASSUME NEW v \in Values
  PROVE  /\ DigFrom[v] \subseteq Values
         /\ \A w \in Out[v] : Dug(w) \subseteq DigFrom[v]
         /\ \A w \in DigFrom[v] : DigEdges[w] \subseteq DigFrom[v]
         /\ \A S \in SUBSET Values :
                (\A w \in Out[v] : Dug(w) \subseteq S) /\ (\A w \in S : DigEdges[w] \subseteq S)
                    => DigFrom[v] \subseteq S
<1>1. \A w \in Out[v] : w \in Values /\ Dug(w) \subseteq Values
  BY OutFacts, EdgeTypes
<1>2. DigFrom[v] = UNION {Dig[u] : u \in UNION {Dug(w) : w \in Out[v]}}
  BY DEF DigFrom
<1>3. \A u \in UNION {Dug(w) : w \in Out[v]} : u \in Values
  BY <1>1
<1>4. DigFrom[v] \subseteq Values /\ \A w \in Out[v] : Dug(w) \subseteq DigFrom[v]
  BY <1>2, <1>3, DigFacts
<1>5. ASSUME NEW w \in DigFrom[v] PROVE DigEdges[w] \subseteq DigFrom[v]
  <2>1. PICK u \in UNION {Dug(x) : x \in Out[v]} : w \in Dig[u]
    BY <1>2
  <2>2. DigEdges[w] \subseteq Dig[u]
    BY <1>3, <2>1, DigFacts
  <2> QED BY <1>2, <2>1, <2>2
<1>6. ASSUME NEW S \in SUBSET Values, \A w \in Out[v] : Dug(w) \subseteq S,
             \A w \in S : DigEdges[w] \subseteq S
      PROVE  DigFrom[v] \subseteq S
  <2>1. \A u \in UNION {Dug(x) : x \in Out[v]} : Dig[u] \subseteq S
    BY <1>3, <1>6, DigFacts
  <2> QED BY <1>2, <2>1
<1> QED BY <1>4, <1>5, <1>6

----------------------------------------------------------------------------
(* Counting.                                                               *)

Counted(fs, i) == {j \in 1..i : IsGemm(Calls[j]) /\ Calls[j].in \notin fs}

LEMMA CountedFinite ==
  ASSUME NEW fs, NEW i \in Nat
  PROVE  /\ IsFiniteSet(Counted(fs, i))
         /\ NumberIn(fs, i) = Cardinality(Counted(fs, i))
         /\ NumberIn(fs, i) \in 0..i
<1>1. IsFiniteSet(1..i) /\ Cardinality(1..i) = i
  BY FS_Interval
<1>2. Counted(fs, i) \in SUBSET (1..i)
  BY DEF Counted
<1>3. IsFiniteSet(Counted(fs, i)) /\ Cardinality(Counted(fs, i)) <= i
  BY <1>1, <1>2, FS_Subset
<1>4. Cardinality(Counted(fs, i)) \in Nat
  BY <1>3, FS_CardinalityType
<1>5. NumberIn(fs, i) = Cardinality(Counted(fs, i))
  BY DEF NumberIn, Counted
<1> QED BY <1>3, <1>4, <1>5

LEMMA CountNext ==
  ASSUME NEW fs, NEW i \in Nat
  PROVE  NumberIn(fs, i + 1) =
            NumberIn(fs, i) + (IF IsGemm(Calls[i + 1]) /\ Calls[i + 1].in \notin fs THEN 1 ELSE 0)
<1>1. CASE IsGemm(Calls[i + 1]) /\ Calls[i + 1].in \notin fs
  <2>1. Counted(fs, i + 1) = Counted(fs, i) \cup {i + 1} /\ i + 1 \notin Counted(fs, i)
    BY <1>1 DEF Counted
  <2> QED BY <1>1, <2>1, CountedFinite, FS_AddElement
<1>2. CASE ~ (IsGemm(Calls[i + 1]) /\ Calls[i + 1].in \notin fs)
  <2>1. Counted(fs, i + 1) = Counted(fs, i)
    BY <1>2 DEF Counted
  <2> QED BY <1>2, <2>1, CountedFinite
<1> QED BY <1>1, <1>2

\* A GEMM has a larger number than those before it.
LEMMA CountGrows ==
  ASSUME NEW fs, NEW i \in Nat, NEW j \in Nat, i < j, IsGemm(Calls[j]), Calls[j].in \notin fs
  PROVE  NumberIn(fs, i) < NumberIn(fs, j)
<1>1. Counted(fs, i) \in SUBSET Counted(fs, j)
  BY DEF Counted
<1>2. j \in Counted(fs, j) /\ j \notin Counted(fs, i)
  BY DEF Counted
<1>3. /\ Cardinality(Counted(fs, i)) <= Cardinality(Counted(fs, j))
      /\ Cardinality(Counted(fs, i)) # Cardinality(Counted(fs, j))
  BY <1>1, <1>2, CountedFinite, FS_Subset
<1> QED BY <1>3, CountedFinite

LEMMA CountAtMost ==
  ASSUME NEW fs, NEW i \in Nat, NEW j \in Nat, i <= j
  PROVE  NumberIn(fs, i) <= NumberIn(fs, j)
<1>1. Counted(fs, i) \in SUBSET Counted(fs, j)
  BY DEF Counted
<1> QED BY <1>1, CountedFinite, FS_Subset

LEMMA TracedFacts ==
  /\ TracedNumber(0) = 0
  /\ \A i \in 0..Len(Calls) : TracedNumber(i) \in Numbers
  /\ \A i \in 0..(Len(Calls) - 1) :
         TracedNumber(i + 1) = TracedNumber(i) + (IF IsTarget(i + 1) THEN 1 ELSE 0)
  /\ \A i, j \in 0..Len(Calls) : i < j /\ IsTarget(j) => TracedNumber(i) < TracedNumber(j)
<1>1. Len(Calls) \in Nat
  BY CallFacts
<1>2. TracedNumber(0) = 0
  BY CountedFinite DEF TracedNumber
<1>3. ASSUME NEW i \in 0..Len(Calls) PROVE TracedNumber(i) \in Numbers
  <2>1. NumberIn(ToolFuncMap, i) \in 0..i
    BY <1>1, CountedFinite
  <2> QED BY <1>1, <2>1 DEF TracedNumber, Numbers
<1>4. ASSUME NEW i \in 0..(Len(Calls) - 1)
      PROVE  TracedNumber(i + 1) = TracedNumber(i) + (IF IsTarget(i + 1) THEN 1 ELSE 0)
  BY <1>1, CountNext DEF TracedNumber, IsTarget
<1>5. ASSUME NEW i \in 0..Len(Calls), NEW j \in 0..Len(Calls), i < j, IsTarget(j)
      PROVE  TracedNumber(i) < TracedNumber(j)
  BY <1>1, <1>5, CountGrows DEF TracedNumber, IsTarget
<1> QED BY <1>2, <1>3, <1>4, <1>5

----------------------------------------------------------------------------
(* What is on a stack, and how pushing and popping change it.              *)

Calling == Flow(Values) \cup Jump(Values)
Frames == SUBSET Calling
On(s) == UNION {s[i] : i \in DOMAIN s}

LEMMA PushAll ==
  ASSUME NEW s \in Seq(Frames), NEW t \in Seq(Frames)
  PROVE  s \o t \in Seq(Frames) /\ On(s \o t) = On(s) \cup On(t)
<1>1. /\ s \o t \in Seq(Frames)
      /\ Len(s \o t) = Len(s) + Len(t)
      /\ \A i \in 1..Len(s) : (s \o t)[i] = s[i]
      /\ \A i \in 1..Len(t) : (s \o t)[Len(s) + i] = t[i]
  OBVIOUS
<1>2. DOMAIN (s \o t) = 1..(Len(s) + Len(t)) /\ DOMAIN s = 1..Len(s) /\ DOMAIN t = 1..Len(t)
      /\ Len(s) \in Nat /\ Len(t) \in Nat
  BY <1>1
<1> DEFINE u == s \o t
<1> HIDE DEF u
<1>3. ASSUME NEW i \in DOMAIN u PROVE u[i] \subseteq On(s) \cup On(t)
  <2>1. CASE i <= Len(s)
    BY <1>1, <1>2, <2>1 DEF On, u
  <2>2. CASE i > Len(s)
    <3>1. i - Len(s) \in DOMAIN t /\ u[i] = t[i - Len(s)]
      <4>1. i - Len(s) \in 1..Len(t) /\ Len(s) + (i - Len(s)) = i
        BY <1>2, <2>2 DEF u
      <4> QED BY <4>1, <1>1, <1>2 DEF u
    <3> QED BY <3>1 DEF On
  <2> QED BY <1>2, <2>1, <2>2 DEF u
<1>4. ASSUME NEW i \in DOMAIN s PROVE s[i] \subseteq On(u)
  BY <1>1, <1>2 DEF On, u
<1>5. ASSUME NEW i \in DOMAIN t PROVE t[i] \subseteq On(u)
  <2>1. Len(s) + i \in DOMAIN u /\ u[Len(s) + i] = t[i]
    BY <1>1, <1>2 DEF u
  <2> QED BY <2>1 DEF On
<1> QED BY <1>1, <1>3, <1>4, <1>5 DEF On, u

LEMMA OneFrame ==
  ASSUME NEW x \in Frames
  PROVE  <<x>> \in Seq(Frames) /\ On(<<x>>) = x
BY DEF On

LEMMA Push ==
  ASSUME NEW s \in Seq(Frames), NEW x \in Frames
  PROVE  Append(s, x) \in Seq(Frames) /\ On(Append(s, x)) = On(s) \cup x
<1>1. Append(s, x) = s \o <<x>>
  BY AppendIsConcat
<1> QED BY <1>1, OneFrame, PushAll

LEMMA Pop ==
  ASSUME stack \in Seq(Frames), stack # <<>>
  PROVE  /\ Top \in Frames /\ Rest \in Seq(Frames) /\ On(stack) = On(Rest) \cup Top
         /\ Len(stack) = Len(Rest) + 1 /\ Len(Rest) \in Nat
         /\ stack = Append(Rest, Top)
<1>1. Len(stack) \in Nat \ {0} /\ DOMAIN stack = 1..Len(stack)
  BY EmptySeq
<1>2. /\ Rest \in Seq(Frames)
      /\ Len(Rest) = Len(stack) - 1
      /\ \A i \in 1..(Len(stack) - 1) : Rest[i] = stack[i]
  BY <1>1, SubSeqProperties, ElementOfSeq DEF Rest
<1>3. DOMAIN Rest = 1..(Len(stack) - 1)
  BY <1>1, <1>2
<1>4. Top \in Frames
  BY <1>1, ElementOfSeq DEF Top
<1>5. \A i \in DOMAIN stack : stack[i] \subseteq On(Rest) \cup Top
  BY <1>1, <1>2, <1>3 DEF On, Top
<1>6. On(Rest) \subseteq On(stack)
  BY <1>1, <1>2, <1>3 DEF On
<1>7. Top \subseteq On(stack)
  BY <1>1 DEF Top, On
<1>8. On(stack) \subseteq On(Rest) \cup Top
  BY <1>5 DEF On
<1>9. Len(stack) = Len(Rest) + 1 /\ Len(Rest) \in Nat
  BY <1>1, <1>2
<1>10. stack = Append(Rest, Top)
  <2> DEFINE t == Append(Rest, Top)
  <2>1. /\ t \in Seq(Frames) /\ Len(t) = Len(stack)
        /\ \A i \in 1..Len(Rest) : t[i] = Rest[i]
        /\ t[Len(Rest) + 1] = Top
    BY <1>2, <1>4, <1>9
  <2> HIDE DEF t
  <2>2. \A i \in 1..Len(stack) : t[i] = stack[i]
    BY <1>2, <1>9, <2>1 DEF Top
  <2>3. stack = t
    BY <2>1, <2>2, SeqEqual
  <2> QED BY <2>3 DEF t
<1> QED BY <1>2, <1>4, <1>6, <1>7, <1>8, <1>9, <1>10

\* The loop goes on: the search taken is all that may leave the stack.
LEMMA Advance ==
  ASSUME stack \in Seq(Frames), stack # <<>>, NEW s \in Top
  PROVE  /\ Advanced(s) \in Seq(Frames)
         /\ On(Advanced(s)) \subseteq On(stack)
         /\ On(stack) \ {s} \subseteq On(Advanced(s))
         /\ s \in On(stack) /\ s \in Calling
<1>1. Top \in Frames /\ Rest \in Seq(Frames) /\ On(stack) = On(Rest) \cup Top
  BY Pop
<1>2. Top \ {s} \in Frames
  BY <1>1 DEF Frames
<1>3. Advanced(s) \in Seq(Frames) /\ On(Advanced(s)) = On(Rest) \cup (Top \ {s})
  <2>1. Append(Rest, Top \ {s}) \in Seq(Frames)
    BY <1>1, <1>2, Push
  <2>2. On(Append(Rest, Top \ {s})) = On(Rest) \cup (Top \ {s})
    BY <1>1, <1>2, Push
  <2> QED BY <2>1, <2>2 DEF Advanced
<1> QED BY <1>1, <1>3 DEF Frames

\* A search is one of the two calls, and leads along its edges.
LEMMA SearchFacts ==
  ASSUME NEW s \in Calling
  PROVE  /\ s[2] \in Values
         /\ s = <<s[1], s[2]>>
         /\ \/ s[1] = "dataflow_dfs" /\ \A V : s \in Flow(V) <=> s[2] \in V
            \/ s[1] = "jump_out_of_parent" /\ \A V : s \in Jump(V) <=> s[2] \in V
         /\ s[1] = "dataflow_dfs" => \A V : s \notin Jump(V)
         /\ s[1] = "jump_out_of_parent" => \A V : s \notin Flow(V)
BY DEF Calling, Flow, Jump

LEMMA LoopsFacts ==
  ASSUME NEW s \in Calling
  PROVE  /\ Loops(s) \in Seq(Frames) /\ Len(Loops(s)) \in Nat /\ Len(Loops(s)) <= 3
         /\ s[1] = "dataflow_dfs" => On(Loops(s)) = Flow(DigEdges[s[2]])
         /\ s[1] = "jump_out_of_parent" => On(Loops(s)) = Jump(OutEdges[s[2]]) \cup Flow(Dug(s[2]))
<1> DEFINE v == s[2]
<1>1. v \in Values /\ s[1] \in {"dataflow_dfs", "jump_out_of_parent"}
  BY SearchFacts
<1>2. /\ OperandsOf(v) \subseteq Values /\ ArgumentsOf(v) \subseteq Values /\ InstUsers(v) \subseteq Values
      /\ Dug(v) \subseteq Values /\ PassedFor(v) \subseteq Values
  BY <1>1, EdgeTypes
<1>3. \A V \in SUBSET Values : Flow(V) \in Frames /\ Jump(V) \in Frames
  BY DEF Frames, Calling, Flow, Jump
<1>4. CASE s[1] = "dataflow_dfs"
  <2> DEFINE a == Flow(OperandsOf(v))
  <2> DEFINE b == Flow(InstUsers(v) \cup Dug(v))
  <2>1. a \in Frames /\ b \in Frames
    BY <1>2, <1>3
  <2>2. a \cup b = Flow(DigEdges[v])
    BY <1>1 DEF DigEdges, Flow
  <2>3. Loops(s) = <<a, b>>
    BY <1>4 DEF Loops
  <2> HIDE DEF a, b
  <2>4. Loops(s) \in Seq(Frames) /\ Len(Loops(s)) = 2 /\ On(Loops(s)) = a \cup b
    BY <2>1, <2>3 DEF On
  <2> QED BY <1>4, <2>2, <2>4
<1>5. CASE s[1] = "jump_out_of_parent"
  <2> DEFINE a == Jump(PassedFor(v))
  <2> DEFINE b == Jump(OperandsOf(v) \cup ArgumentsOf(v))
  <2> DEFINE c == Jump(InstUsers(v)) \cup Flow(Dug(v))
  <2>1. a \in Frames /\ b \in Frames /\ c \in Frames
    BY <1>2, <1>3 DEF Frames
  <2>2. a \cup b \cup c = Jump(OutEdges[v]) \cup Flow(Dug(v))
    BY <1>1 DEF OutEdges, Jump
  <2>3. Loops(s) = <<a, b, c>>
    BY <1>5 DEF Loops
  <2> HIDE DEF a, b, c
  <2>4. Loops(s) \in Seq(Frames) /\ Len(Loops(s)) = 3 /\ On(Loops(s)) = a \cup b \cup c
    BY <2>1, <2>3 DEF On
  <2> QED BY <1>5, <2>2, <2>4
<1> QED BY <1>1, <1>4, <1>5

----------------------------------------------------------------------------
(* The invariant, action by action.                                       *)

LEMMA StackOn == TypeOK => stack \in Seq(Frames) /\ Pending = On(stack) /\ Pending' = On(stack')
BY DEF TypeOK, Frames, Calling, Pending, On

LEMMA WrittenFacts ==
  /\ TypeOK => \A v : WrittenBy(v) \subseteq Numbers
  /\ number' = number => \A v : WrittenBy(v)' = WrittenBy(v)
  /\ number' = number => \A i : RelatedTo(i)' = RelatedTo(i)
<1>1. TypeOK => \A v : WrittenBy(v) \subseteq Numbers
  BY DEF TypeOK, WrittenBy
<1>2. number' = number => \A v : WrittenBy(v)' = WrittenBy(v)
  BY DEF WrittenBy
<1>3. number' = number => \A i : RelatedTo(i)' = RelatedTo(i)
  BY DEF RelatedTo, WrittenBy
<1> QED BY <1>1, <1>2, <1>3

\* The matrices of a search, and where it leads.
LEMMA SearchesOf ==
  ASSUME NEW i \in Targets, NEW w \in 1..Searches
  PROVE  /\ Matrix(i, w) \in Reads(Calls[i]) /\ Matrix(i, w) \in Values
         /\ FlowReach(i, w) \subseteq Values /\ JumpReach(i, w) \subseteq Values
         /\ FlowReach(i, w) \cup JumpReach(i, w) \subseteq
                Dig[Matrix(i, w)] \cup Out[Matrix(i, w)] \cup DigFrom[Matrix(i, w)]
         /\ \A v \in FlowReach(i, w) : DigEdges[v] \subseteq FlowReach(i, w)
         /\ \A v \in JumpReach(i, w) :
                OutEdges[v] \subseteq JumpReach(i, w) /\ Dug(v) \subseteq FlowReach(i, w)
         /\ IsFlow(w) => Matrix(i, w) \in FlowReach(i, w)
         /\ ~ IsFlow(w) => Matrix(i, w) \in JumpReach(i, w)
<1> DEFINE v == Matrix(i, w)
<1>1. v \in Reads(Calls[i]) /\ v \in Values
  <2>1. (w + 1) \div 2 \in {1, 2, 3}
    BY DEF Searches
  <2> QED BY <2>1, CallFacts DEF Matrix, Reads
<1> HIDE DEF v
<1>2. CASE IsFlow(w)
  <2>1. FlowReach(i, w) = Dig[v] /\ JumpReach(i, w) = {}
    BY <1>2 DEF FlowReach, JumpReach, v
  <2> QED BY <1>1, <1>2, <2>1, DigFacts DEF v
<1>3. CASE ~ IsFlow(w)
  <2>1. FlowReach(i, w) = DigFrom[v] /\ JumpReach(i, w) = Out[v]
    BY <1>3 DEF FlowReach, JumpReach, v
  <2> QED BY <1>1, <1>3, <2>1, OutFacts, DigFromFacts DEF v
<1> QED BY <1>2, <1>3

\* A search with nothing left to do has put all it reaches in the map.
LEMMA FinishedSearch == IInv /\ walk # 0 /\ stack = <<>> => Complete(at, walk)
<1> SUFFICES ASSUME IInv, walk # 0, stack = <<>>, IsFlow(walk) \/ at \notin conflicts
             PROVE  \A v \in FlowReach(at, walk) \cup JumpReach(at, walk) :
                        WrittenBy(v) \subseteq related[TracedNumber(at)]
  BY DEF Complete
<1>1. Pending = {}
  BY DEF Pending
<1>2. at \in Targets /\ walk \in 1..Searches
  BY DEF IInv, ScansInOrder, TypeOK
<1>3. gemmexId = TracedNumber(at)
  BY <1>2, CallFacts DEF IInv, CountedSoFar
<1>4. visited \subseteq Values /\ dug \subseteq visited
  BY DEF IInv, TypeOK
<1>5. \A v \in dug : DigEdges[v] \subseteq visited
  BY <1>1 DEF IInv, Covered, Flow
<1>6. Matrix(at, walk) \in Values
  BY <1>2, SearchesOf
<1>7. FlowReach(at, walk) \cup JumpReach(at, walk) \subseteq visited
  <2>1. CASE IsFlow(walk)
    <3>1. FlowReach(at, walk) = Dig[Matrix(at, walk)] /\ JumpReach(at, walk) = {}
      BY <2>1 DEF FlowReach, JumpReach
    <3>2. visited = dug
      BY <1>4, <3>1 DEF IInv, Inside
    <3>3. Matrix(at, walk) \in dug
      BY <1>1, <2>1 DEF IInv, Covered, Flow
    <3> QED BY <1>4, <1>5, <1>6, <3>1, <3>2, <3>3, DigFacts
  <2>2. CASE ~ IsFlow(walk)
    <3>1. FlowReach(at, walk) = DigFrom[Matrix(at, walk)] /\ JumpReach(at, walk) = Out[Matrix(at, walk)]
      BY <2>2 DEF FlowReach, JumpReach
    <3>2. Matrix(at, walk) \in Jumped
      BY <1>1, <2>2 DEF IInv, Covered, Jump
    <3>3. \A v \in Jumped : OutEdges[v] \subseteq Jumped
      BY <1>1, <2>2 DEF IInv, Covered, Jump
    <3>4. \A v \in Jumped : Dug(v) \subseteq visited
      BY <1>1, <2>2 DEF IInv, Covered, Flow
    <3>5. Jumped \subseteq visited
      BY DEF Jumped
    <3>6. Out[Matrix(at, walk)] \subseteq Jumped
      BY <1>4, <1>6, <3>2, <3>3, <3>5, OutFacts
    <3>7. \A v \in visited : DigEdges[v] \subseteq visited
      <4>1. ASSUME NEW v \in Jumped PROVE DigEdges[v] \subseteq visited
        <5>1. v \in Values
          BY <1>4, <3>5
        <5>2. DigEdges[v] \subseteq OutEdges[v] \cup Dug(v)
          BY <5>1 DEF DigEdges, OutEdges
        <5> QED BY <3>3, <3>4, <3>5, <5>2
      <4> QED BY <1>5, <4>1 DEF Jumped
    <3>8. DigFrom[Matrix(at, walk)] \subseteq visited
      BY <1>4, <1>6, <3>4, <3>6, <3>7, DigFromFacts
    <3> QED BY <3>1, <3>5, <3>6, <3>8
  <2> QED BY <2>1, <2>2
<1>8. \A v \in visited : WrittenBy(v) \subseteq related[gemmexId]
  BY DEF IInv, Inside
<1> QED BY <1>3, <1>7, <1>8

\* Between two GEMMs all searches of the GEMMs so far are finished.
LEMMA AnalysedComplete ==
  IInv => \A i \in Targets : \A w \in 1..Searches :
              at > i \/ (at = i /\ Idle) => Complete(i, w)
<1> SUFFICES ASSUME IInv, NEW i \in Targets, NEW w \in 1..Searches, at > i \/ (at = i /\ Idle)
             PROVE  Complete(i, w)
  OBVIOUS
<1>1. CASE at > i \/ (at = i /\ walk > w)
  BY <1>1 DEF IInv, SearchesComplete
<1>2. CASE at = i /\ Idle /\ ~ walk > w
  <2>1. walk = Searches /\ stack = <<>>
    BY <1>2, CallFacts DEF Idle, IInv, ScansInOrder
  <2>2. w = walk
    BY <1>2, <2>1 DEF Searches
  <2> QED BY <1>2, <2>1, <2>2, FinishedSearch DEF Searches
<1> QED BY <1>1, <1>2

LEMMA InitInv == Init => IInv
<1> SUFFICES ASSUME Init PROVE IInv
  OBVIOUS
<1>1. Targets \subseteq 1..Len(Calls) /\ Len(Calls) \in Nat
  BY CallFacts DEF Targets
<1>2. TypeOK
  BY <1>1, CallFacts DEF Init, TypeOK, Numbers, Searches
<1>3. ScansInOrder
  BY <1>1 DEF Init, ScansInOrder
<1>4. CountedSoFar
  BY <1>1, TracedFacts, CallFacts DEF Init, CountedSoFar
<1>5. FindsOnlyRelated /\ SearchesComplete
  BY <1>1 DEF Init, FindsOnlyRelated, SearchesComplete
<1>6. Inside /\ Covered
  BY DEF Init, Inside, Covered
<1> QED BY <1>2, <1>3, <1>4, <1>5, <1>6 DEF IInv

LEMMA CollectStep == IInv /\ Collect => IInv'
<1> SUFFICES ASSUME IInv, Collect PROVE IInv'
  OBVIOUS
<1>1. Targets \subseteq 1..Len(Calls) /\ Len(Calls) \in Nat /\ Sites = 1..Len(Calls)
  BY CallFacts DEF Targets
<1>2. at = -1 /\ at' = -1 /\ walk = 0 /\ walk' = 0 /\ stack' = stack /\ related' = related
  BY <1>1 DEF IInv, TypeOK, ScansInOrder, Collect
<1>3. collected \in 0..(Len(Calls) - 1) /\ collected' = collected + 1
  BY <1>1 DEF IInv, TypeOK, Collect
<1>4. TracedNumber(collected') = TracedNumber(collected) + (IF IsTarget(collected') THEN 1 ELSE 0)
  BY <1>3, TracedFacts
<1>5. TracedNumber(collected) \in Numbers /\ TracedNumber(collected') \in Numbers
  BY <1>1, <1>3, TracedFacts
<1>6. gemmexId = TracedNumber(collected)
  BY <1>2 DEF IInv, CountedSoFar
<1>7. gemmexId' = TracedNumber(collected')
  <2>1. CASE IsTarget(collected')
    BY <1>4, <1>6, <2>1 DEF Collect
  <2>2. CASE ~ IsTarget(collected')
    BY <1>4, <1>5, <1>6, <2>2 DEF Collect, Numbers
  <2> QED BY <2>1, <2>2
<1>8. number' \in [Sites -> Numbers]
      /\ \A i \in Sites : number'[i] = IF i <= collected' /\ IsTarget(i) THEN TracedNumber(i) ELSE 0
  <2>1. number \in [Sites -> Numbers]
        /\ \A i \in Sites : number[i] = IF i <= collected /\ IsTarget(i) THEN TracedNumber(i) ELSE 0
    BY DEF IInv, TypeOK, CountedSoFar
  <2>2. CASE IsTarget(collected')
    <3>1. number' = [number EXCEPT ![collected'] = TracedNumber(collected')]
      BY <1>7, <2>2 DEF Collect
    <3> QED BY <1>1, <1>3, <1>5, <2>1, <2>2, <3>1
  <2>3. CASE ~ IsTarget(collected')
    <3>1. number' = number
      BY <2>3 DEF Collect
    <3> QED BY <1>1, <1>3, <2>1, <2>3, <3>1
  <2> QED BY <2>2, <2>3
<1>9. TypeOK'
  BY <1>1, <1>2, <1>3, <1>5, <1>7, <1>8 DEF IInv, TypeOK, Collect, history
<1>10. ScansInOrder'
  BY <1>1, <1>2 DEF IInv, ScansInOrder
<1>11. CountedSoFar'
  BY <1>2, <1>7, <1>8 DEF IInv, CountedSoFar
<1>12. FindsOnlyRelated' /\ SearchesComplete'
  BY <1>1, <1>2 DEF FindsOnlyRelated, SearchesComplete
<1>13. Inside' /\ Covered'
  BY <1>2 DEF Inside, Covered
<1> QED BY <1>9, <1>10, <1>11, <1>12, <1>13 DEF IInv

LEMMA StartAnalysisStep == IInv /\ StartAnalysis => IInv'
<1> SUFFICES ASSUME IInv, StartAnalysis PROVE IInv'
  OBVIOUS
<1>1. Targets \subseteq 1..Len(Calls) /\ Len(Calls) \in Nat
  BY CallFacts DEF Targets
<1>2. /\ at = -1 /\ at' = 0 /\ walk = 0 /\ gemmexId' = 0 /\ collected = Len(Calls)
      /\ UNCHANGED <<collected, number, walk, stack, visited, related, dug, conflicts>>
  BY DEF IInv, ScansInOrder, StartAnalysis, scan, history
<1>3. TypeOK'
  BY <1>1, <1>2 DEF IInv, TypeOK, Numbers
<1>4. ScansInOrder'
  BY <1>1, <1>2 DEF IInv, ScansInOrder
<1>5. CountedSoFar'
  BY <1>2, TracedFacts DEF IInv, CountedSoFar
<1>6. FindsOnlyRelated' /\ SearchesComplete'
  BY <1>1, <1>2 DEF FindsOnlyRelated, SearchesComplete
<1>7. Inside' /\ Covered'
  BY <1>2 DEF Inside, Covered
<1> QED BY <1>3, <1>4, <1>5, <1>6, <1>7 DEF IInv

LEMMA SkipStep == IInv /\ Skip => IInv'
<1> SUFFICES ASSUME IInv, Skip PROVE IInv'
  OBVIOUS
<1>1. Targets = {i \in 1..Len(Calls) : IsTarget(i)} /\ Len(Calls) \in Nat
  BY CallFacts DEF Targets
<1>2. /\ at \in 0..(Len(Calls) - 1) /\ at' = at + 1 /\ walk' = 0 /\ Idle /\ ~ IsTarget(at + 1)
      /\ UNCHANGED <<collected, number, gemmexId, stack, visited, related, dug, conflicts>>
  BY DEF Skip, scan, history
<1>3. at' \notin Targets
  BY <1>1, <1>2
<1>4. TypeOK'
  BY <1>1, <1>2 DEF IInv, TypeOK, Searches
<1>5. ScansInOrder'
  BY <1>1, <1>2, <1>3 DEF IInv, ScansInOrder, Idle
<1>6. CountedSoFar'
  <2>1. TracedNumber(at') = TracedNumber(at) + 0 /\ TracedNumber(at) \in Numbers
    BY <1>1, <1>2, TracedFacts
  <2>2. TracedNumber(at') = TracedNumber(at)
    BY <1>1, <2>1 DEF Numbers
  <2>3. at # -1 /\ at' # -1
    BY <1>2
  <2> QED BY <1>2, <2>2, <2>3 DEF IInv, CountedSoFar
<1>7. \A i \in Targets : at' >= i => at >= i
  BY <1>1, <1>2, <1>3
<1>8. FindsOnlyRelated'
  BY <1>2, <1>7, WrittenFacts DEF IInv, FindsOnlyRelated
<1>9. Inside' /\ Covered'
  BY <1>2 DEF Inside, Covered
<1>10. SearchesComplete'
  <2> SUFFICES ASSUME NEW i \in Targets, NEW w \in 1..Searches, at' > i \/ (at' = i /\ walk' > w)
               PROVE  Complete(i, w)'
    BY DEF SearchesComplete
  <2>1. at > i \/ (at = i /\ Idle)
    BY <1>1, <1>2, <1>3
  <2>2. Complete(i, w)
    BY <2>1, AnalysedComplete
  <2> QED BY <1>2, <2>2, WrittenFacts DEF Complete
<1> QED BY <1>4, <1>5, <1>6, <1>8, <1>9, <1>10 DEF IInv

\* A search begins with its matrix.
LEMMA BeginSearch ==
  ASSUME TypeOK', walk' # 0, at' \in Targets, walk' \in 1..Searches,
         visited' = {}, dug' = {}, stack' = <<FirstSearch(at, walk)'>>
  PROVE  Inside' /\ Covered'
<1>1. FirstSearch(at, walk)' = IF IsFlow(walk') THEN Flow({Matrix(at', walk')}) ELSE Jump({Matrix(at', walk')})
  BY DEF FirstSearch, IsFlow, Matrix
<1>2. Pending' = FirstSearch(at, walk)'
  BY DEF Pending
<1>3. /\ IsFlow(walk') => Matrix(at', walk') \in FlowReach(at', walk')
      /\ ~ IsFlow(walk') => Matrix(at', walk') \in JumpReach(at', walk')
  BY SearchesOf
<1>4. Pending' \subseteq Flow(FlowReach(at', walk')) \cup Jump(JumpReach(at', walk'))
  BY <1>1, <1>2, <1>3 DEF Flow, Jump
<1>5. Inside'
  BY <1>4 DEF Inside
<1>6. Covered'
  <2>1. Jumped' = {}
    BY DEF Jumped
  <2>2. IsFlow(walk') => Flow({Matrix(at', walk')} \ dug') \subseteq Pending'
    BY <1>1, <1>2 DEF Flow
  <2>3. ~ IsFlow(walk') => Jump({Matrix(at', walk')} \ Jumped') \subseteq Pending'
    BY <1>1, <1>2 DEF Jump
  <2> QED BY <2>1, <2>2, <2>3 DEF Covered
<1> QED BY <1>5, <1>6

LEMMA TargetStep == IInv /\ Target => IInv'
<1> SUFFICES ASSUME IInv, Target PROVE IInv'
  OBVIOUS
<1>1. Targets = {i \in 1..Len(Calls) : IsTarget(i)} /\ Len(Calls) \in Nat
  BY CallFacts DEF Targets
<1>2. /\ at \in 0..(Len(Calls) - 1) /\ at' = at + 1 /\ walk' = 1 /\ Idle /\ IsTarget(at')
      /\ gemmexId' = gemmexId + 1 /\ visited' = {} /\ dug' = {} /\ stack' = <<FirstSearch(at', 1)>>
      /\ UNCHANGED <<collected, number, related, conflicts>>
  BY DEF Target, scan
<1>3. at' \in Targets /\ at' # -1 /\ at # -1
  BY <1>1, <1>2
<1>4. gemmexId = TracedNumber(at) /\ gemmexId \in Nat
  BY <1>1, <1>3 DEF IInv, CountedSoFar, TypeOK, Numbers
<1>5. TracedNumber(at') = TracedNumber(at) + 1 /\ TracedNumber(at') \in Numbers
  BY <1>1, <1>2, TracedFacts
<1>6. gemmexId' = TracedNumber(at') /\ gemmexId' > gemmexId
  BY <1>2, <1>4, <1>5
<1>7. TypeOK'
  <2>1. FirstSearch(at', 1) \in SUBSET (Flow(Values) \cup Jump(Values))
    <3>1. Matrix(at', 1) \in Values
      BY <1>3, SearchesOf DEF Searches
    <3> QED BY <3>1 DEF FirstSearch, Flow, Jump
  <2>2. stack' \in Seq(SUBSET (Flow(Values) \cup Jump(Values)))
    BY <1>2, <2>1
  <2>3. at' \in -1..Len(Calls) /\ walk' \in 0..Searches /\ gemmexId' \in Numbers
    BY <1>1, <1>2, <1>5, <1>6 DEF Searches
  <2> QED BY <1>2, <2>2, <2>3 DEF IInv, TypeOK
<1>8. ScansInOrder'
  BY <1>1, <1>2, <1>3 DEF IInv, ScansInOrder
<1>9. CountedSoFar'
  <2>1. \A n \in Numbers : n > gemmexId' => n > gemmexId
    BY <1>1, <1>2, <1>4 DEF Numbers
  <2> QED BY <1>2, <1>3, <1>6, <2>1 DEF IInv, CountedSoFar
<1>10. FindsOnlyRelated'
  <2> SUFFICES ASSUME NEW i \in Targets, at' >= i
               PROVE  related[TracedNumber(i)] \subseteq RelatedTo(i)
    BY <1>2, WrittenFacts DEF FindsOnlyRelated
  <2>1. CASE i = at'
    BY <1>3, <1>5, <1>6, <2>1 DEF IInv, CountedSoFar
  <2>2. CASE i # at'
    <3>1. at >= i
      BY <1>1, <1>2, <2>2
    <3> QED BY <3>1 DEF IInv, FindsOnlyRelated
  <2> QED BY <2>1, <2>2
<1>11. Inside' /\ Covered'
  <2>1. stack' = <<FirstSearch(at, walk)'>>
    BY <1>2 DEF FirstSearch, IsFlow, Matrix
  <2>2. walk' \in 1..Searches /\ walk' # 0
    BY <1>2 DEF Searches
  <2> QED BY <1>2, <1>3, <1>7, <2>1, <2>2, BeginSearch
<1>12. SearchesComplete'
  <2> SUFFICES ASSUME NEW i \in Targets, NEW w \in 1..Searches, at' > i \/ (at' = i /\ walk' > w)
               PROVE  Complete(i, w)'
    BY DEF SearchesComplete
  <2>1. at > i \/ (at = i /\ Idle)
    BY <1>1, <1>2, <1>3
  <2>2. Complete(i, w)
    BY <2>1, AnalysedComplete
  <2> QED BY <1>2, <2>2, WrittenFacts DEF Complete
<1> QED BY <1>7, <1>8, <1>9, <1>10, <1>11, <1>12 DEF IInv

LEMMA NextSearchStep == IInv /\ NextSearch => IInv'
<1> SUFFICES ASSUME IInv, NextSearch PROVE IInv'
  OBVIOUS
<1>1. /\ walk \in 1..(Searches - 1) /\ walk' = walk + 1 /\ stack = <<>>
      /\ visited' = {} /\ dug' = {} /\ stack' = <<FirstSearch(at, walk')>>
      /\ UNCHANGED <<collected, number, gemmexId, at, related, conflicts>>
  BY DEF NextSearch, Cleared, scan
<1>2. at \in Targets /\ walk # 0 /\ walk' # 0 /\ walk' \in 1..Searches
  BY <1>1 DEF IInv, ScansInOrder, Searches
<1>3. TypeOK'
  <2>1. FirstSearch(at, walk') \in SUBSET (Flow(Values) \cup Jump(Values))
    <3>1. Matrix(at, walk') \in Values
      BY <1>2, SearchesOf
    <3> QED BY <3>1 DEF FirstSearch, Flow, Jump
  <2>2. stack' \in Seq(SUBSET (Flow(Values) \cup Jump(Values)))
    BY <1>1, <2>1
  <2>3. walk' \in 0..Searches
    BY <1>2 DEF Searches
  <2> QED BY <1>1, <2>2, <2>3 DEF IInv, TypeOK
<1>4. ScansInOrder'
  BY <1>1, <1>2 DEF IInv, ScansInOrder
<1>5. CountedSoFar'
  BY <1>1 DEF IInv, CountedSoFar
<1>6. FindsOnlyRelated'
  BY <1>1, WrittenFacts DEF IInv, FindsOnlyRelated
<1>7. Inside' /\ Covered'
  <2>1. stack' = <<FirstSearch(at, walk)'>>
    BY <1>1 DEF FirstSearch, IsFlow, Matrix
  <2> QED BY <1>1, <1>2, <1>3, <2>1, BeginSearch
<1>8. SearchesComplete'
  <2> SUFFICES ASSUME NEW i \in Targets, NEW w \in 1..Searches, at' > i \/ (at' = i /\ walk' > w)
               PROVE  Complete(i, w)'
    BY DEF SearchesComplete
  <2>1. CASE at > i \/ (at = i /\ walk > w)
    <3>1. Complete(i, w)
      BY <2>1 DEF IInv, SearchesComplete
    <3> QED BY <1>1, <3>1, WrittenFacts DEF Complete
  <2>2. CASE at = i /\ w = walk
    <3>1. Complete(i, w)
      BY <1>1, <1>2, <2>2, FinishedSearch
    <3> QED BY <1>1, <3>1, WrittenFacts DEF Complete
  <2> QED BY <1>1, <2>1, <2>2
<1> QED BY <1>3, <1>4, <1>5, <1>6, <1>7, <1>8 DEF IInv

LEMMA EndLoopStep == IInv /\ EndLoop => IInv'
<1> SUFFICES ASSUME IInv, EndLoop PROVE IInv'
  OBVIOUS
<1>1. /\ stack # <<>> /\ Top = {} /\ stack' = Rest
      /\ UNCHANGED <<collected, number, gemmexId, at, walk, visited, related, dug, conflicts>>
  BY DEF EndLoop, scan, history
<1>2. stack \in Seq(Frames) /\ Pending = On(stack) /\ Pending' = On(stack')
  BY StackOn DEF IInv
<1>3. Rest \in Seq(Frames) /\ On(stack) = On(Rest) \cup Top
  BY <1>1, <1>2, Pop
<1>4. Pending' = Pending
  BY <1>1, <1>2, <1>3
<1>5. TypeOK'
  BY <1>1, <1>3 DEF IInv, TypeOK, Frames, Calling
<1>6. ScansInOrder'
  BY <1>1 DEF IInv, ScansInOrder
<1>7. CountedSoFar'
  BY <1>1 DEF IInv, CountedSoFar
<1>8. FindsOnlyRelated'
  BY <1>1, WrittenFacts DEF IInv, FindsOnlyRelated
<1>9. Inside'
  BY <1>1, <1>4, WrittenFacts DEF IInv, Inside
<1>10. Covered'
  <2>1. Jumped' = Jumped
    BY <1>1 DEF Jumped
  <2> QED BY <1>1, <1>4, <2>1 DEF IInv, Covered
<1>11. SearchesComplete'
  <2>1. \A i, w : Complete(i, w) => Complete(i, w)'
    BY <1>1, WrittenFacts DEF Complete
  <2> QED BY <1>1, <2>1 DEF IInv, SearchesComplete
<1> QED BY <1>5, <1>6, <1>7, <1>8, <1>9, <1>10, <1>11 DEF IInv

LEMMA ReturnStep == IInv /\ Return => IInv'
<1> SUFFICES ASSUME IInv, Return PROVE IInv'
  OBVIOUS
<1>1. stack # <<>> /\ UNCHANGED <<collected, number, gemmexId, at, walk, visited, related, dug>>
  BY DEF Return, scan
<1>2. PICK s \in Top :
        /\ s[2] \in visited
        /\ stack' = Advanced(s)
        /\ conflicts' = IF s[1] = "jump_out_of_parent" /\ s[2] \in dug THEN conflicts \cup {at} ELSE conflicts
  BY DEF Return
<1>3. stack \in Seq(Frames) /\ Pending = On(stack) /\ Pending' = On(stack')
  BY StackOn DEF IInv
<1>4. stack' \in Seq(Frames) /\ Pending' \subseteq Pending /\ Pending \ {s} \subseteq Pending' /\ s \in Calling
  BY <1>1, <1>2, <1>3, Advance
<1>5. walk # 0 /\ at \in Targets /\ at \in Sites
  BY <1>1, CallFacts DEF IInv, ScansInOrder
<1>6. TypeOK'
  BY <1>1, <1>2, <1>4, <1>5 DEF IInv, TypeOK, Frames, Calling
<1>7. ScansInOrder'
  BY <1>1, <1>5 DEF IInv, ScansInOrder
<1>8. CountedSoFar'
  BY <1>1 DEF IInv, CountedSoFar
<1>9. FindsOnlyRelated'
  BY <1>1, WrittenFacts DEF IInv, FindsOnlyRelated
<1>10. Inside'
  BY <1>1, <1>4, WrittenFacts DEF IInv, Inside
<1>11. Jumped' = Jumped
  BY <1>1 DEF Jumped
<1>12. Covered'
  <2>1. ASSUME NEW v \in dug PROVE Flow(DigEdges[v] \ visited) \subseteq Pending'
    <3>1. Flow(DigEdges[v] \ visited) \subseteq Pending
      BY <1>5 DEF IInv, Covered
    <3>2. s \notin Flow(DigEdges[v] \ visited)
      BY <1>2, <1>4, SearchFacts
    <3> QED BY <1>4, <3>1, <3>2
  <2>2. ASSUME IsFlow(walk) PROVE Flow({Matrix(at, walk)} \ dug) \subseteq Pending'
    <3>1. Flow({Matrix(at, walk)} \ dug) \subseteq Pending
      BY <1>5, <2>2 DEF IInv, Covered
    <3>2. visited \subseteq dug
      BY <1>5, <2>2 DEF IInv, Inside, JumpReach
    <3>3. s \notin Flow({Matrix(at, walk)} \ dug)
      BY <1>2, <1>4, <3>2, SearchFacts
    <3> QED BY <1>4, <3>1, <3>3
  <2>3. ASSUME ~ IsFlow(walk), at \notin conflicts'
        PROVE  /\ Jump({Matrix(at, walk)} \ Jumped) \subseteq Pending'
               /\ \A v \in Jumped : /\ Jump(OutEdges[v] \ Jumped) \subseteq Pending'
                                    /\ Flow(Dug(v) \ visited) \subseteq Pending'
    <3>1. at \notin conflicts /\ ~ (s[1] = "jump_out_of_parent" /\ s[2] \in dug)
      BY <1>2, <2>3
    <3>2. \A V : s \notin Jump(V \ Jumped)
      BY <1>2, <1>4, <3>1, SearchFacts DEF Jumped
    <3>3. \A V : s \notin Flow(V \ visited)
      BY <1>2, <1>4, SearchFacts
    <3>4. /\ Jump({Matrix(at, walk)} \ Jumped) \subseteq Pending
          /\ \A v \in Jumped : /\ Jump(OutEdges[v] \ Jumped) \subseteq Pending
                               /\ Flow(Dug(v) \ visited) \subseteq Pending
      BY <1>5, <2>3, <3>1 DEF IInv, Covered
    <3>5. \A A : A \subseteq Pending /\ s \notin A => A \subseteq Pending'
      BY <1>4
    <3> QED BY <3>2, <3>3, <3>4, <3>5
  <2> QED BY <1>1, <1>11, <2>1, <2>2, <2>3 DEF Covered
<1>13. SearchesComplete'
  <2>1. \A i, w : Complete(i, w) => Complete(i, w)'
    <3>1. conflicts \subseteq conflicts'
      BY <1>2
    <3> QED BY <1>1, <3>1, WrittenFacts DEF Complete
  <2> QED BY <1>1, <2>1 DEF IInv, SearchesComplete
<1> QED BY <1>6, <1>7, <1>8, <1>9, <1>10, <1>12, <1>13 DEF IInv

LEMMA SearchStep == IInv /\ Search => IInv'
<1> SUFFICES ASSUME IInv, Search PROVE IInv'
  OBVIOUS
<1>1. stack # <<>> /\ UNCHANGED <<collected, number, gemmexId, at, walk, conflicts>>
  BY DEF Search, scan
<1>2. PICK s \in Top :
        /\ s[2] \notin visited
        /\ stack' = Advanced(s) \o Loops(s)
        /\ visited' = visited \cup {s[2]}
        /\ related' = [related EXCEPT ![gemmexId] = @ \cup WrittenBy(s[2])]
        /\ dug' = IF s[1] = "dataflow_dfs" THEN dug \cup {s[2]} ELSE dug
  BY DEF Search, Marked
<1>3. stack \in Seq(Frames) /\ Pending = On(stack) /\ Pending' = On(stack')
  BY StackOn DEF IInv
<1>4. /\ Advanced(s) \in Seq(Frames) /\ On(Advanced(s)) \subseteq Pending
      /\ Pending \ {s} \subseteq On(Advanced(s)) /\ s \in Pending /\ s \in Calling
  BY <1>1, <1>2, <1>3, Advance
<1>5. Loops(s) \in Seq(Frames)
  BY <1>4, LoopsFacts
<1>6. stack' \in Seq(Frames) /\ Pending' = On(Advanced(s)) \cup On(Loops(s))
  BY <1>2, <1>3, <1>4, <1>5, PushAll
<1>7. walk # 0 /\ at \in Targets /\ at \in 1..Len(Calls) /\ Len(Calls) \in Nat /\ walk \in 1..Searches
  BY <1>1, CallFacts DEF IInv, ScansInOrder, TypeOK
<1>8. gemmexId = TracedNumber(at) /\ gemmexId \in Numbers /\ at # -1
  BY <1>7 DEF IInv, CountedSoFar, TypeOK
<1>9. related \in [Numbers -> SUBSET Numbers] /\ WrittenBy(s[2]) \subseteq Numbers
  BY WrittenFacts DEF IInv, TypeOK
<1>10. /\ related' \in [Numbers -> SUBSET Numbers]
       /\ related'[gemmexId] = related[gemmexId] \cup WrittenBy(s[2])
       /\ \A n \in Numbers : n # gemmexId => related'[n] = related[n]
  BY <1>2, <1>8, <1>9
<1>11. s[2] \in Values /\ s[1] \in {"dataflow_dfs", "jump_out_of_parent"}
  BY <1>4, SearchFacts
<1>12. /\ s[1] = "dataflow_dfs" => s[2] \in FlowReach(at, walk)
       /\ s[1] = "jump_out_of_parent" => s[2] \in JumpReach(at, walk)
  <2>1. s \in Flow(FlowReach(at, walk)) \/ s \in Jump(JumpReach(at, walk))
    BY <1>4, <1>7 DEF IInv, Inside
  <2> QED BY <1>4, <2>1, SearchFacts
<1>13. TypeOK'
  BY <1>1, <1>2, <1>6, <1>10, <1>11 DEF IInv, TypeOK, Frames, Calling
<1>14. ScansInOrder'
  BY <1>1, <1>7 DEF IInv, ScansInOrder
<1>15. CountedSoFar'
  <2>1. \A n \in Numbers : n > gemmexId => n # gemmexId
    BY <1>7, <1>8 DEF Numbers
  <2> QED BY <1>1, <1>8, <1>10, <2>1 DEF IInv, CountedSoFar
<1>16. FindsOnlyRelated'
  <2> SUFFICES ASSUME NEW i \in Targets, at >= i PROVE related'[TracedNumber(i)] \subseteq RelatedTo(i)
    BY <1>1, WrittenFacts DEF FindsOnlyRelated
  <2>1. related[TracedNumber(i)] \subseteq RelatedTo(i)
    BY DEF IInv, FindsOnlyRelated
  <2>2. CASE i = at
    <3>1. PICK v \in Reads(Calls[at]) : s[2] \in Dig[v] \cup Out[v] \cup DigFrom[v]
      BY <1>7, <1>11, <1>12, SearchesOf
    <3>2. WrittenBy(s[2]) \subseteq RelatedTo(at)
      BY <3>1 DEF RelatedTo
    <3> QED BY <1>8, <1>10, <2>1, <2>2, <3>2
  <2>3. CASE i # at
    <3>1. i \in 0..Len(Calls) /\ at \in 0..Len(Calls) /\ i < at /\ IsTarget(at)
      BY <1>7, <2>3, CallFacts DEF Targets
    <3>2. TracedNumber(i) < TracedNumber(at) /\ TracedNumber(i) \in Numbers
      BY <3>1, TracedFacts
    <3>3. TracedNumber(i) # gemmexId
      BY <1>7, <1>8, <3>2 DEF Numbers
    <3> QED BY <1>10, <2>1, <3>2, <3>3
  <2> QED BY <2>2, <2>3
<1>17. Pending' \subseteq Flow(FlowReach(at, walk)) \cup Jump(JumpReach(at, walk))
  <2>1. Pending \subseteq Flow(FlowReach(at, walk)) \cup Jump(JumpReach(at, walk))
    BY <1>7 DEF IInv, Inside
  <2>2. On(Loops(s)) \subseteq Flow(FlowReach(at, walk)) \cup Jump(JumpReach(at, walk))
    <3>1. CASE s[1] = "dataflow_dfs"
      <4>1. DigEdges[s[2]] \subseteq FlowReach(at, walk)
        BY <1>7, <1>12, <3>1, SearchesOf
      <4> QED BY <1>4, <3>1, <4>1, LoopsFacts DEF Flow
    <3>2. CASE s[1] = "jump_out_of_parent"
      <4>1. OutEdges[s[2]] \subseteq JumpReach(at, walk) /\ Dug(s[2]) \subseteq FlowReach(at, walk)
        BY <1>7, <1>12, <3>2, SearchesOf
      <4> QED BY <1>4, <3>2, <4>1, LoopsFacts DEF Flow, Jump
    <3> QED BY <1>11, <3>1, <3>2
  <2> QED BY <1>4, <1>6, <2>1, <2>2
<1>18. /\ s[1] = "dataflow_dfs" => Jumped' = Jumped
       /\ s[1] = "jump_out_of_parent" => dug' = dug /\ Jumped' = Jumped \cup {s[2]}
  BY <1>2, <1>11 DEF Jumped, IInv, TypeOK
<1>19. Inside'
  <2>1. dug' \subseteq FlowReach(at, walk) /\ Jumped' \subseteq JumpReach(at, walk)
    <3>1. dug \subseteq FlowReach(at, walk) /\ Jumped \subseteq JumpReach(at, walk)
      BY <1>7 DEF IInv, Inside, Jumped
    <3> QED BY <1>2, <1>11, <1>12, <1>18, <3>1
  <2>2. \A v \in visited' : WrittenBy(v) \subseteq related'[gemmexId]
    BY <1>2, <1>7, <1>10 DEF IInv, Inside
  <2> QED BY <1>1, <1>17, <2>1, <2>2, WrittenFacts DEF Inside, Jumped
<1>20. Covered'
  <2>1. \A A : A \subseteq Pending /\ s \notin A => A \subseteq Pending'
    BY <1>4, <1>6
  <2>2. visited' = visited \cup {s[2]} /\ dug \subseteq dug' /\ Jumped \subseteq Jumped'
    BY <1>2, <1>11, <1>18
  <2>3. ASSUME NEW v \in dug' PROVE Flow(DigEdges[v] \ visited') \subseteq Pending'
    <3>1. CASE v \in dug
      <4>1. Flow(DigEdges[v] \ visited') \subseteq Flow(DigEdges[v] \ visited)
        BY <2>2 DEF Flow
      <4>2. Flow(DigEdges[v] \ visited) \subseteq Pending
        BY <1>7, <3>1 DEF IInv, Covered
      <4>3. s \notin Flow(DigEdges[v] \ visited')
        BY <1>4, <2>2, SearchFacts
      <4> QED BY <2>1, <4>1, <4>2, <4>3
    <3>2. CASE v \notin dug
      <4>1. v = s[2] /\ s[1] = "dataflow_dfs"
        BY <1>2, <3>2, <2>3
      <4>2. Flow(DigEdges[v]) \subseteq Pending'
        BY <1>4, <1>6, <4>1, LoopsFacts
      <4> QED BY <4>2 DEF Flow
    <3> QED BY <3>1, <3>2
  <2>4. ASSUME IsFlow(walk) PROVE Flow({Matrix(at, walk)} \ dug') \subseteq Pending'
    <3>1. Flow({Matrix(at, walk)} \ dug) \subseteq Pending
      BY <1>7, <2>4 DEF IInv, Covered
    <3>2. s[1] = "dataflow_dfs"
      BY <1>11, <1>12, <2>4 DEF JumpReach
    <3>3. dug' = dug \cup {s[2]}
      BY <1>2, <3>2
    <3>4. s \notin Flow({Matrix(at, walk)} \ dug')
      BY <1>4, <3>3, SearchFacts
    <3>5. Flow({Matrix(at, walk)} \ dug') \subseteq Pending
      BY <2>2, <3>1 DEF Flow
    <3> QED BY <2>1, <3>4, <3>5
  <2>5. ASSUME ~ IsFlow(walk), at \notin conflicts
        PROVE  /\ Jump({Matrix(at, walk)} \ Jumped') \subseteq Pending'
               /\ \A v \in Jumped' : /\ Jump(OutEdges[v] \ Jumped') \subseteq Pending'
                                     /\ Flow(Dug(v) \ visited') \subseteq Pending'
    <3>1. /\ Jump({Matrix(at, walk)} \ Jumped) \subseteq Pending
          /\ \A v \in Jumped : /\ Jump(OutEdges[v] \ Jumped) \subseteq Pending
                               /\ Flow(Dug(v) \ visited) \subseteq Pending
      BY <1>7, <2>5 DEF IInv, Covered
    <3>2. \A V : Jump(V \ Jumped') \subseteq Jump(V \ Jumped) /\ Flow(V \ visited') \subseteq Flow(V \ visited)
      BY <2>2 DEF Jump, Flow
    <3>3. \A V : s \notin Jump(V \ Jumped') /\ s \notin Flow(V \ visited')
      <4>1. s[1] = "jump_out_of_parent" => s[2] \in Jumped'
        BY <1>18
      <4> QED BY <1>4, <2>2, <4>1, SearchFacts
    <3>4. Jump({Matrix(at, walk)} \ Jumped') \subseteq Pending'
      BY <2>1, <3>1, <3>2, <3>3
    <3>5. ASSUME NEW v \in Jumped
          PROVE  Jump(OutEdges[v] \ Jumped') \subseteq Pending' /\ Flow(Dug(v) \ visited') \subseteq Pending'
      BY <2>1, <3>1, <3>2, <3>3
    <3>6. ASSUME NEW v \in Jumped', v \notin Jumped
          PROVE  Jump(OutEdges[v] \ Jumped') \subseteq Pending' /\ Flow(Dug(v) \ visited') \subseteq Pending'
      <4>1. v = s[2] /\ s[1] = "jump_out_of_parent"
        BY <1>11, <1>18, <3>6
      <4>2. Jump(OutEdges[v]) \subseteq Pending' /\ Flow(Dug(v)) \subseteq Pending'
        BY <1>4, <1>6, <4>1, LoopsFacts
      <4> QED BY <4>2 DEF Jump, Flow
    <3> QED BY <3>4, <3>5, <3>6
  <2> QED BY <1>1, <2>3, <2>4, <2>5 DEF Covered
<1>21. SearchesComplete'
  <2>1. \A n \in Numbers : related[n] \subseteq related'[n]
    BY <1>8, <1>10
  <2>2. ASSUME NEW i \in Targets, NEW w \in 1..Searches, Complete(i, w) PROVE Complete(i, w)'
    <3>1. TracedNumber(i) \in Numbers
      BY CallFacts, TracedFacts DEF Targets
    <3> QED BY <1>1, <2>1, <2>2, <3>1, WrittenFacts DEF Complete
  <2> QED BY <1>1, <2>2 DEF IInv, SearchesComplete
<1> QED BY <1>13, <1>14, <1>15, <1>16, <1>19, <1>20, <1>21 DEF IInv

----------------------------------------------------------------------------
(* The end of the searches.                                                *)

\* A program has finitely many values, so there are finitely many searches.
LEMMA CallingFinite == IsFiniteSet(Calling)
<1>1. IsFiniteSet({"dataflow_dfs", "jump_out_of_parent"})
  <2>1. IsFiniteSet({"dataflow_dfs"})
    BY FS_Singleton
  <2>2. IsFiniteSet({"dataflow_dfs"} \cup {"jump_out_of_parent"})
    BY <2>1, FS_AddElement
  <2> QED BY <2>2, Zenon
<1>2. IsFiniteSet({"dataflow_dfs", "jump_out_of_parent"} \X Values)
  BY <1>1, ProgramAssumption, FS_Product
<1>3. Calling \in SUBSET ({"dataflow_dfs", "jump_out_of_parent"} \X Values)
  BY DEF Calling, Flow, Jump
<1> QED BY <1>2, <1>3, FS_Subset

\* There are finitely many calls that a stack of loops has still to make.
LEMMA CallsInFinite ==
  ASSUME NEW l \in Seq(Frames)
  PROVE  IsFiniteSet(CallsIn(l)) /\ Cardinality(CallsIn(l)) \in Nat
<1>1. IsFiniteSet(Calling)
  BY CallingFinite
<1>2. IsFiniteSet(1..Len(l)) /\ DOMAIN l = 1..Len(l)
  BY LenProperties, FS_Interval
<1>3. IsFiniteSet((1..Len(l)) \X Calling)
  BY <1>1, <1>2, FS_Product
<1>4. CallsIn(l) \in SUBSET ((1..Len(l)) \X Calling)
  BY <1>2, ElementOfSeq DEF CallsIn, Frames
<1> QED BY <1>3, <1>4, FS_Subset, FS_CardinalityType

\* Two stacks in one have the calls of both.
LEMMA CallsInBoth ==
  ASSUME NEW l \in Seq(Frames), NEW m \in Seq(Frames)
  PROVE  Cardinality(CallsIn(l \o m)) = Cardinality(CallsIn(l)) + Cardinality(CallsIn(m))
<1> DEFINE u == l \o m
           f == [c \in CallsIn(m) |-> <<Len(l) + c[1], c[2]>>]
           new == {<<Len(l) + c[1], c[2]>> : c \in CallsIn(m)}
<1>1. /\ u \in Seq(Frames) /\ Len(u) = Len(l) + Len(m)
      /\ \A i \in 1..Len(l) : u[i] = l[i]
      /\ \A i \in 1..Len(m) : u[Len(l) + i] = m[i]
      /\ Len(l) \in Nat /\ Len(m) \in Nat
      /\ DOMAIN l = 1..Len(l) /\ DOMAIN m = 1..Len(m)
  OBVIOUS
<1>2. DOMAIN u = 1..(Len(l) + Len(m))
  BY <1>1
<1> HIDE DEF u
<1>3. /\ CallsIn(l) = {c \in (1..Len(l)) \X Calling : c[2] \in l[c[1]]}
      /\ CallsIn(m) = {c \in (1..Len(m)) \X Calling : c[2] \in m[c[1]]}
      /\ CallsIn(u) = {c \in (1..(Len(l) + Len(m))) \X Calling : c[2] \in u[c[1]]}
  <2>1. ASSUME NEW w \in Seq(Frames)
        PROVE  CallsIn(w) = {c \in (1..Len(w)) \X Calling : c[2] \in w[c[1]]}
    <3>1. DOMAIN w = 1..Len(w) /\ \A i \in 1..Len(w) : w[i] \subseteq Calling
      BY LenProperties, ElementOfSeq DEF Frames
    <3> QED BY <3>1 DEF CallsIn
  <2> QED BY <1>1, <2>1
<1>4. CallsIn(u) = CallsIn(l) \cup new
  <2>1. ASSUME NEW c \in CallsIn(u) PROVE c \in CallsIn(l) \cup new
    <3>1. c = <<c[1], c[2]>> /\ c[1] \in 1..(Len(l) + Len(m)) /\ c[2] \in Calling /\ c[2] \in u[c[1]]
      BY <1>3
    <3>2. CASE c[1] <= Len(l)
      <4>1. c[1] \in 1..Len(l) /\ u[c[1]] = l[c[1]]
        BY <1>1, <3>1, <3>2
      <4> QED BY <1>3, <3>1, <4>1
    <3>3. CASE c[1] > Len(l)
      <4> DEFINE i == c[1] - Len(l)
      <4>1. i \in 1..Len(m) /\ Len(l) + i = c[1]
        BY <1>1, <3>1, <3>3
      <4>2. c[2] \in m[i]
        BY <1>1, <3>1, <4>1
      <4>3. <<i, c[2]>> \in CallsIn(m)
        BY <1>3, <3>1, <4>1, <4>2
      <4> HIDE DEF i
      <4> QED BY <3>1, <4>1, <4>3
    <3> QED BY <1>1, <3>1, <3>2, <3>3
  <2>2. ASSUME NEW c \in CallsIn(l) PROVE c \in CallsIn(u)
    <3>1. c = <<c[1], c[2]>> /\ c[1] \in 1..Len(l) /\ c[2] \in Calling /\ c[2] \in l[c[1]]
      BY <1>3
    <3>2. c[1] \in 1..(Len(l) + Len(m)) /\ u[c[1]] = l[c[1]]
      BY <1>1, <3>1
    <3> QED BY <1>3, <3>1, <3>2
  <2>3. ASSUME NEW c \in CallsIn(m) PROVE <<Len(l) + c[1], c[2]>> \in CallsIn(u)
    <3>1. c[1] \in 1..Len(m) /\ c[2] \in Calling /\ c[2] \in m[c[1]]
      BY <1>3
    <3>2. Len(l) + c[1] \in 1..(Len(l) + Len(m)) /\ u[Len(l) + c[1]] = m[c[1]]
      BY <1>1, <3>1
    <3> QED BY <1>3, <3>1, <3>2
  <2> QED BY <2>1, <2>2, <2>3
<1>5. CallsIn(l) \cap new = {}
  <2> SUFFICES ASSUME NEW c \in CallsIn(m), <<Len(l) + c[1], c[2]>> \in CallsIn(l) PROVE FALSE
    OBVIOUS
  <2>1. c[1] \in 1..Len(m) /\ Len(l) + c[1] \in 1..Len(l)
    BY <1>3
  <2> QED BY <1>1, <2>1
<1>6. IsFiniteSet(new) /\ Cardinality(new) = Cardinality(CallsIn(m))
  <2>1. f \in Surjection(CallsIn(m), new)
    BY DEF Surjection
  <2>2. f \in Injection(CallsIn(m), new)
    <3>1. \A c \in CallsIn(m) : c = <<c[1], c[2]>> /\ c[1] \in Nat
      BY <1>1, <1>3
    <3>2. ASSUME NEW c \in CallsIn(m), NEW d \in CallsIn(m), f[c] = f[d] PROVE c = d
      <4>1. Len(l) + c[1] = Len(l) + d[1] /\ c[2] = d[2]
        BY <3>2
      <4>2. c[1] = d[1]
        BY <1>1, <3>1, <4>1
      <4> QED BY <3>1, <4>1, <4>2
    <3> QED BY <3>2 DEF Injection, IsInjective
  <2>3. IsFiniteSet(CallsIn(m))
    BY CallsInFinite
  <2> HIDE DEF f, new
  <2> QED BY <2>1, <2>2, <2>3, FS_Surjection
<1>7. Cardinality(CallsIn(l) \cup new) = Cardinality(CallsIn(l)) + Cardinality(CallsIn(m))
  <2>1. IsFiniteSet(CallsIn(l)) /\ Cardinality(CallsIn(l)) \in Nat /\ Cardinality(CallsIn(m)) \in Nat
    BY CallsInFinite
  <2> HIDE DEF new
  <2>2. Cardinality(CallsIn(l) \cup new) = Cardinality(CallsIn(l)) + Cardinality(new) - Cardinality(CallsIn(l) \cap new)
    BY <1>6, <2>1, FS_Union
  <2>3. Cardinality(CallsIn(l) \cap new) = 0
    BY <1>5, FS_EmptySet
  <2> QED BY <1>6, <2>1, <2>2, <2>3
<1> QED BY <1>4, <1>7 DEF u

\* One loop has a call for each of its elements.
LEMMA CallsInOne ==
  ASSUME NEW l \in Seq(Frames), NEW x \in Frames
  PROVE  /\ Append(l, x) \in Seq(Frames) /\ Len(Append(l, x)) = Len(l) + 1
         /\ IsFiniteSet(x) /\ Cardinality(x) \in Nat
         /\ Cardinality(CallsIn(Append(l, x))) = Cardinality(CallsIn(l)) + Cardinality(x)
<1> DEFINE one == <<x>>
           f == [c \in CallsIn(one) |-> c[2]]
<1>1. /\ one \in Seq(Frames) /\ DOMAIN one = {1} /\ one[1] = x
      /\ Append(l, x) = l \o one
  BY AppendIsConcat
<1>2. CallsIn(one) = {1} \X x
  BY <1>1 DEF CallsIn
<1>3. IsFiniteSet({1} \X x)
  BY <1>1, <1>2, CallsInFinite
<1>4. IsFiniteSet(x) /\ Cardinality(x) = Cardinality({1} \X x)
  <2> DEFINE g == [c \in {1} \X x |-> c[2]]
  <2>1. g \in Surjection({1} \X x, x) /\ g \in Injection({1} \X x, x)
    <3>1. \A c \in {1} \X x : c = <<1, c[2]>> /\ c[2] \in x
      OBVIOUS
    <3>2. \A y \in x : <<1, y>> \in {1} \X x /\ g[<<1, y>>] = y
      OBVIOUS
    <3>3. \A c, d \in {1} \X x : g[c] = g[d] => c = d
      BY <3>1
    <3>4. g \in [{1} \X x -> x] /\ DOMAIN g = {1} \X x
      BY <3>1
    <3> HIDE DEF g
    <3>5. g \in Injection({1} \X x, x)
      BY <3>3, <3>4 DEF Injection, IsInjective
    <3> QED BY <3>2, <3>4, <3>5 DEF Surjection
  <2> HIDE DEF g
  <2> QED BY <1>3, <2>1, FS_Surjection
<1>5. Cardinality(CallsIn(Append(l, x))) = Cardinality(CallsIn(l)) + Cardinality(x)
  <2> HIDE DEF one
  <2>1. Cardinality(CallsIn(l \o one)) = Cardinality(CallsIn(l)) + Cardinality(CallsIn(one))
    BY <1>1, CallsInBoth
  <2> QED BY <1>1, <1>2, <1>4, <2>1
<1>6. Append(l, x) \in Seq(Frames) /\ Len(Append(l, x)) = Len(l) + 1
  BY AppendProperties
<1> QED BY <1>4, <1>5, <1>6, FS_CardinalityType

\* What is still to come of values not marked, without a search for one of them.
LEMMA ToCome ==
  ASSUME TypeOK
  PROVE  /\ IsFiniteSet(CallsToCome) /\ Cardinality(CallsToCome) \in Nat
         /\ IsFiniteSet(Unmarked) /\ Cardinality(Unmarked) \in Nat
         /\ stack \in Seq(Frames) /\ Len(stack) \in Nat
         /\ Cardinality(CallsIn(stack)) \in Nat
<1>1. IsFiniteSet(Unmarked) /\ Cardinality(Unmarked) \in Nat
  <2>1. Unmarked \in SUBSET Values
    BY DEF Unmarked
  <2> QED BY <2>1, ProgramAssumption, FS_Subset, FS_CardinalityType
<1>2. stack \in Seq(Frames)
  BY StackOn
<1>3. Len(stack) \in Nat /\ Cardinality(CallsIn(stack)) \in Nat
  BY <1>2, LenProperties, CallsInFinite
<1>4. IsFiniteSet(Calling)
  BY CallingFinite
<1>5. IsFiniteSet(CallsToCome)
  <2>1. IsFiniteSet(1..3)
    <3>1. \A n \in Nat : IsFiniteSet(1..n)
      BY FS_Interval
    <3> QED BY <3>1
  <2>2. IsFiniteSet((1..3) \X Calling)
    BY <1>4, <2>1, FS_Product
  <2>3. IsFiniteSet(Calling \X ((1..3) \X Calling))
    BY <1>4, <2>2, FS_Product
  <2>4. CallsToCome \in SUBSET (Calling \X ((1..3) \X Calling))
    <3> SUFFICES ASSUME NEW s \in Flow(Unmarked) \cup Jump(Unmarked)
                 PROVE  s \in Calling /\ CallsFrom[s] \subseteq (1..3) \X Calling
      BY DEF CallsToCome
    <3>1. s \in Calling
      BY DEF Calling, Flow, Jump, Unmarked
    <3>2. Loops(s) \in Seq(Frames) /\ Len(Loops(s)) \in Nat /\ Len(Loops(s)) <= 3
      BY <3>1, LoopsFacts
    <3>3. DOMAIN Loops(s) \subseteq 1..3 /\ \A i \in DOMAIN Loops(s) : Loops(s)[i] \subseteq Calling
      <4>1. DOMAIN Loops(s) = 1..Len(Loops(s))
        BY <3>2, LenProperties
      <4>2. 1..Len(Loops(s)) \subseteq 1..3
        BY <3>2
      <4>3. \A i \in 1..Len(Loops(s)) : Loops(s)[i] \in Frames
        BY <3>2, ElementOfSeq
      <4> QED BY <4>1, <4>2, <4>3 DEF Frames
    <3>4. CallsFrom[s] = CallsIn(Loops(s))
      BY <3>1 DEF CallsFrom, Calling
    <3> QED BY <3>1, <3>3, <3>4 DEF CallsIn
  <2> QED BY <2>3, <2>4, FS_Subset
<1> QED BY <1>1, <1>2, <1>3, <1>5, FS_CardinalityType

\* What a search for a value not marked would call is still to come.
LEMMA ToComeWithout ==
  ASSUME TypeOK, NEW s \in Calling, s[2] \notin visited
  PROVE  Cardinality(CallsToCome \ ({s} \X CallsFrom[s])) = Cardinality(CallsToCome) - Cardinality(CallsIn(Loops(s)))
<1> DEFINE own == {s} \X CallsFrom[s]
<1>1. CallsFrom[s] = CallsIn(Loops(s))
  BY DEF CallsFrom, Calling
<1>2. s \in Flow(Unmarked) \cup Jump(Unmarked)
  BY SearchFacts DEF Unmarked
<1>3. CallsToCome \cap own = own
  BY <1>2 DEF CallsToCome
<1>4. Cardinality(own) = Cardinality(CallsIn(Loops(s)))
  <2>1. IsFiniteSet(CallsFrom[s]) /\ Cardinality(CallsFrom[s]) \in Nat
    BY <1>1, LoopsFacts, CallsInFinite
  <2>2. IsFiniteSet({s}) /\ Cardinality({s}) = 1
    BY FS_Singleton
  <2>3. Cardinality(own) = 1 * Cardinality(CallsFrom[s])
    BY <2>1, <2>2, FS_Product
  <2> QED BY <1>1, <2>1, <2>3
<1>5. IsFiniteSet(CallsToCome)
  BY ToCome
<1> HIDE DEF own
<1>6. Cardinality(CallsToCome \ own) = Cardinality(CallsToCome) - Cardinality(own)
  BY <1>3, <1>5, FS_Difference
<1> QED BY <1>4, <1>6 DEF own

\* The stack without the call its innermost loop makes next.
LEMMA CallTaken ==
  ASSUME TypeOK, stack # <<>>, NEW s \in Top
  PROVE  /\ Advanced(s) \in Seq(Frames) /\ Len(Advanced(s)) = Len(stack)
         /\ Cardinality(CallsIn(Advanced(s))) = Cardinality(CallsIn(stack)) - 1
         /\ s \in Calling
<1>1. /\ Top \in Frames /\ Rest \in Seq(Frames)
      /\ Len(stack) = Len(Rest) + 1 /\ stack = Append(Rest, Top)
  BY ToCome, Pop
<1>2. /\ IsFiniteSet(Top) /\ Cardinality(Top) \in Nat
      /\ Cardinality(CallsIn(stack)) = Cardinality(CallsIn(Rest)) + Cardinality(Top)
  <2>1. Cardinality(CallsIn(Append(Rest, Top))) = Cardinality(CallsIn(Rest)) + Cardinality(Top)
    BY <1>1, CallsInOne
  <2> QED BY <1>1, <2>1, CallsInOne
<1>3. Top \ {s} \in Frames
  BY <1>1 DEF Frames
<1>4. /\ Append(Rest, Top \ {s}) \in Seq(Frames)
      /\ Len(Append(Rest, Top \ {s})) = Len(Rest) + 1
      /\ Cardinality(CallsIn(Append(Rest, Top \ {s}))) = Cardinality(CallsIn(Rest)) + Cardinality(Top \ {s})
  BY <1>1, <1>3, CallsInOne
<1>5. Cardinality(Top \ {s}) = Cardinality(Top) - 1
  BY <1>2, FS_RemoveElement
<1>6. Cardinality(CallsIn(Rest)) \in Nat
  BY <1>1, CallsInFinite
<1>7. s \in Calling
  BY <1>1 DEF Frames
<1> QED BY <1>1, <1>2, <1>4, <1>5, <1>6, <1>7 DEF Advanced

\* The end of a loop: nothing was left of it.
LEMMA EndLoopShrinks == IInv /\ EndLoop => WorkLeft' < WorkLeft
<1> SUFFICES ASSUME IInv, EndLoop PROVE WorkLeft' < WorkLeft
  OBVIOUS
<1>1. stack # <<>> /\ Top = {} /\ stack' = Rest /\ visited' = visited /\ TypeOK
  BY DEF EndLoop, IInv
<1>2. /\ Top \in Frames /\ Rest \in Seq(Frames) /\ Len(Rest) \in Nat
      /\ Len(stack) = Len(Rest) + 1 /\ stack = Append(Rest, Top)
  BY <1>1, ToCome, Pop
<1>3. Cardinality(CallsIn(stack)) = Cardinality(CallsIn(Rest)) + Cardinality(Top)
  <2>1. Cardinality(CallsIn(Append(Rest, Top))) = Cardinality(CallsIn(Rest)) + Cardinality(Top)
    BY <1>2, CallsInOne
  <2> QED BY <1>2, <2>1
<1>4. Cardinality(Top) = 0
  BY <1>1, FS_EmptySet
<1>5. Unmarked' = Unmarked /\ CallsToCome' = CallsToCome
  BY <1>1 DEF Unmarked, CallsToCome
<1>6. /\ Cardinality(CallsToCome) \in Nat /\ Cardinality(Unmarked) \in Nat
      /\ Cardinality(CallsIn(Rest)) \in Nat
  BY <1>1, <1>2, ToCome, CallsInFinite
<1>7. CallsIn(stack)' = CallsIn(Rest) /\ Len(stack)' = Len(Rest)
  BY <1>1 DEF CallsIn
<1> QED BY <1>2, <1>3, <1>4, <1>5, <1>6, <1>7 DEF WorkLeft

\* A call for a marked value: one less on the stack.
LEMMA ReturnShrinks == IInv /\ Return => WorkLeft' < WorkLeft
<1> SUFFICES ASSUME IInv, Return PROVE WorkLeft' < WorkLeft
  OBVIOUS
<1>1. PICK s \in Top : stack' = Advanced(s)
  BY DEF Return
<1>2. stack # <<>> /\ visited' = visited /\ TypeOK
  BY DEF Return, IInv
<1>3. /\ Len(Advanced(s)) = Len(stack)
      /\ Cardinality(CallsIn(Advanced(s))) = Cardinality(CallsIn(stack)) - 1
  BY <1>2, CallTaken
<1>4. Unmarked' = Unmarked /\ CallsToCome' = CallsToCome
  BY <1>2 DEF Unmarked, CallsToCome
<1>5. /\ Cardinality(CallsToCome) \in Nat /\ Cardinality(Unmarked) \in Nat
      /\ Cardinality(CallsIn(stack)) \in Nat /\ Len(stack) \in Nat
  BY <1>2, ToCome
<1>6. CallsIn(stack)' = CallsIn(Advanced(s)) /\ Len(stack)' = Len(Advanced(s))
  BY <1>1 DEF CallsIn
<1> QED BY <1>3, <1>4, <1>5, <1>6 DEF WorkLeft

\* A call for a new value: what was still to come of it is on the stack now.
LEMMA SearchShrinks == IInv /\ Search => WorkLeft' < WorkLeft
<1> SUFFICES ASSUME IInv, Search PROVE WorkLeft' < WorkLeft
  OBVIOUS
<1>1. PICK s \in Top :
        /\ s[2] \notin visited
        /\ stack' = Advanced(s) \o Loops(s)
        /\ visited' = visited \cup {s[2]}
  BY DEF Search, Marked
<1>2. stack # <<>> /\ TypeOK
  BY DEF Search, IInv
<1>3. /\ Advanced(s) \in Seq(Frames) /\ Len(Advanced(s)) = Len(stack)
      /\ Cardinality(CallsIn(Advanced(s))) = Cardinality(CallsIn(stack)) - 1
      /\ s \in Calling
  BY <1>2, CallTaken
<1>4. Loops(s) \in Seq(Frames) /\ Len(Loops(s)) \in Nat /\ Len(Loops(s)) <= 3
  BY <1>3, LoopsFacts
<1>5. /\ Cardinality(CallsToCome) \in Nat /\ Cardinality(Unmarked) \in Nat /\ IsFiniteSet(Unmarked)
      /\ IsFiniteSet(CallsToCome) /\ Cardinality(CallsIn(stack)) \in Nat /\ Len(stack) \in Nat
  BY <1>2, ToCome
<1>6. /\ Len(stack)' = Len(stack) + Len(Loops(s))
      /\ Cardinality(CallsIn(stack)') = Cardinality(CallsIn(stack)) - 1 + Cardinality(CallsIn(Loops(s)))
  <2>1. Len(Advanced(s) \o Loops(s)) = Len(Advanced(s)) + Len(Loops(s))
    BY <1>3, <1>4, ConcatProperties
  <2>2. Cardinality(CallsIn(Advanced(s) \o Loops(s))) = Cardinality(CallsIn(Advanced(s))) + Cardinality(CallsIn(Loops(s)))
    BY <1>3, <1>4, CallsInBoth
  <2>3. CallsIn(stack)' = CallsIn(Advanced(s) \o Loops(s)) /\ Len(stack)' = Len(Advanced(s) \o Loops(s))
    BY <1>1 DEF CallsIn
  <2> QED BY <1>3, <2>1, <2>2, <2>3
<1>7. Cardinality(Unmarked') = Cardinality(Unmarked) - 1
  <2>1. Unmarked' = Unmarked \ {s[2]} /\ s[2] \in Unmarked
    BY <1>1, <1>3, SearchFacts DEF Unmarked
  <2> QED BY <1>5, <2>1, FS_RemoveElement
<1>8. /\ Cardinality(CallsToCome') <= Cardinality(CallsToCome) - Cardinality(CallsIn(Loops(s)))
      /\ Cardinality(CallsToCome') \in Nat
  <2> DEFINE less == CallsToCome \ ({s} \X CallsFrom[s])
  <2>1. CallsToCome' \subseteq less
    <3>1. Flow(Unmarked)' \subseteq Flow(Unmarked) /\ Jump(Unmarked)' \subseteq Jump(Unmarked)
      BY <1>1 DEF Unmarked, Flow, Jump
    <3>2. s \notin Flow(Unmarked)' \cup Jump(Unmarked)'
      BY <1>1 DEF Unmarked, Flow, Jump
    <3>3. CallsToCome' = UNION {{t} \X CallsFrom[t] : t \in Flow(Unmarked)' \cup Jump(Unmarked)'}
      BY DEF CallsToCome, CallsFrom, Flow, Jump
    <3> QED BY <3>1, <3>2, <3>3 DEF CallsToCome
  <2>2. Cardinality(less) = Cardinality(CallsToCome) - Cardinality(CallsIn(Loops(s)))
    BY <1>1, <1>2, <1>3, ToComeWithout
  <2>3. IsFiniteSet(less)
    BY <1>5, FS_Difference
  <2> HIDE DEF less
  <2>4. Cardinality(CallsToCome') <= Cardinality(less) /\ IsFiniteSet(CallsToCome')
    BY <2>1, <2>3, FS_Subset
  <2> QED BY <2>2, <2>4, FS_CardinalityType
<1>9. Cardinality(CallsIn(Loops(s))) \in Nat
  BY <1>4, CallsInFinite
<1>10. WorkLeft' = Cardinality(CallsIn(stack)') + Len(stack)' + Cardinality(CallsToCome') + 3 * Cardinality(Unmarked')
  BY DEF WorkLeft
<1>11. Len(stack)' <= Len(stack) + 3 /\ Len(stack)' \in Nat
  BY <1>4, <1>5, <1>6
<1> DEFINE left == Cardinality(CallsIn(stack))
           left2 == Cardinality(CallsIn(stack)')
           toCome == Cardinality(CallsToCome)
           toCome2 == Cardinality(CallsToCome')
           new == Cardinality(CallsIn(Loops(s)))
           values == Cardinality(Unmarked)
           values2 == Cardinality(Unmarked')
           depth == Len(stack)
           depth2 == Len(stack)'
<1>12. /\ left \in Nat /\ toCome \in Nat /\ toCome2 \in Nat /\ new \in Nat /\ values \in Nat
       /\ depth \in Nat /\ depth2 \in Nat /\ depth2 <= depth + 3
       /\ left2 = left - 1 + new /\ toCome2 <= toCome - new /\ values2 = values - 1
  BY <1>5, <1>6, <1>7, <1>8, <1>9, <1>11
<1>13. WorkLeft = left + depth + toCome + 3 * values /\ WorkLeft' = left2 + depth2 + toCome2 + 3 * values2
  BY <1>10 DEF WorkLeft
<1> HIDE DEF left, left2, toCome, toCome2, new, values, values2, depth, depth2
<1> QED BY <1>12, <1>13

----------------------------------------------------------------------------
(* The theorems.                                                           *)

LEMMA StutterStep == IInv /\ UNCHANGED vars => IInv'
<1> SUFFICES ASSUME IInv, UNCHANGED vars PROVE IInv'
  OBVIOUS
<1> USE DEF vars, scan, history
<1>1. Pending' = Pending /\ Jumped' = Jumped
  BY DEF Pending, Jumped
<1>2. TypeOK' /\ ScansInOrder'
  BY DEF IInv, TypeOK, ScansInOrder
<1>3. CountedSoFar'
  BY DEF IInv, CountedSoFar
<1>4. FindsOnlyRelated'
  BY WrittenFacts DEF IInv, FindsOnlyRelated
<1>5. Inside'
  BY <1>1, WrittenFacts DEF IInv, Inside
<1>6. Covered'
  BY <1>1 DEF IInv, Covered
<1>7. SearchesComplete'
  <2>1. \A i, w : Complete(i, w) => Complete(i, w)'
    BY WrittenFacts DEF Complete
  <2> QED BY <2>1 DEF IInv, SearchesComplete
<1> QED BY <1>2, <1>3, <1>4, <1>5, <1>6, <1>7 DEF IInv

\* The invariant of the scans and the searches: for every program, however its
\* values are used and its functions call each other, in any order of the use
\* lists.
THEOREM AnalysisInvariance == Spec => []IInv
<1>1. Init => IInv
  BY InitInv
<1>2. IInv /\ [Next]_vars => IInv'
  BY CollectStep, StartAnalysisStep, SkipStep, TargetStep, NextSearchStep, ReturnStep, SearchStep,
     EndLoopStep, StutterStep DEF Next
<1> QED BY <1>1, <1>2, PTL DEF Spec

\* What run_data_flow_analysis puts into related_gemm_id_map is related: no map
\* is left over from another search, or entered for another GEMM.
THEOREM Soundness == Spec => []FindsOnlyRelated
<1>1. IInv => FindsOnlyRelated
  BY DEF IInv
<1> QED BY <1>1, AnalysisInvariance, PTL

\* All that dataflow_dfs leads to is found, and all that is related where
\* jump_out_of_parent met no value dataflow_dfs had marked.
THEOREM Completeness == Spec => []FindsAllWithoutConflict
<1>1. IInv => FindsAllWithoutConflict
  <2> SUFFICES ASSUME IInv, NEW i \in Sites, Analysed(i), NEW v \in Reads(Calls[i])
               PROVE  /\ \A x \in Dig[v] : WrittenBy(x) \subseteq related[TracedNumber(i)]
                      /\ i \notin conflicts => \A x \in Out[v] \cup DigFrom[v] :
                             WrittenBy(x) \subseteq related[TracedNumber(i)]
    BY DEF FindsAllWithoutConflict, RelatedTo
  <2>1. i \in Targets /\ (at > i \/ (at = i /\ Idle))
    BY DEF Analysed
  <2>2. \A w \in 1..Searches : Complete(i, w)
    BY <2>1, AnalysedComplete
  <2>3. PICK k \in 1..3 : v = Calls[i].args[k]
    BY DEF Reads
  <2>4. 2 * k - 1 \in 1..Searches /\ IsFlow(2 * k - 1) /\ Matrix(i, 2 * k - 1) = v
    <3>1. (2 * k - 1) % 2 = 1 /\ ((2 * k - 1) + 1) \div 2 = k
      OBVIOUS
    <3> QED BY <2>3, <3>1 DEF Searches, IsFlow, Matrix
  <2>5. 2 * k \in 1..Searches /\ ~ IsFlow(2 * k) /\ Matrix(i, 2 * k) = v
    <3>1. (2 * k) % 2 = 0 /\ (2 * k + 1) \div 2 = k
      OBVIOUS
    <3> QED BY <2>3, <3>1 DEF Searches, IsFlow, Matrix
  <2>6. \A x \in Dig[v] : WrittenBy(x) \subseteq related[TracedNumber(i)]
    BY <2>2, <2>4 DEF Complete, FlowReach
  <2>7. i \notin conflicts => \A x \in Out[v] \cup DigFrom[v] : WrittenBy(x) \subseteq related[TracedNumber(i)]
    BY <2>2, <2>5 DEF Complete, FlowReach, JumpReach
  <2> QED BY <2>6, <2>7
<1> QED BY <1>1, AnalysisInvariance, PTL

\* MDFID, which skips four functions of the tool library, and TUNING and Gen,
\* which skip all, number and count the GEMMs of the program alike.
THEOREM Numbering == Spec => []NumbersAgree
<1>1. Len(Calls) \in Nat /\ Sites = 1..Len(Calls)
  BY CallFacts
<1>2. \A i \in 0..Len(Calls) : MarkedNumber(i) = TracedNumber(i)
  <2>1. ASSUME NEW j \in Sites, IsGemm(Calls[j])
        PROVE  Calls[j].in \notin NotMarked <=> Calls[j].in \notin ToolFuncMap
    <3>1. Calls[j].in \in ToolFuncMap => Calls[j].in \in ToolsWithGemms
      BY <2>1, ProgramAssumption DEF Sites
    <3>2. ToolsWithGemms = NotMarked /\ NotMarked \subseteq ToolFuncMap
      BY DEF ToolsWithGemms, NotMarked, ToolFuncMap
    <3> QED BY <3>1, <3>2
  <2>2. ASSUME NEW i \in 0..Len(Calls)
        PROVE  {j \in 1..i : IsGemm(Calls[j]) /\ Calls[j].in \notin NotMarked} =
               {j \in 1..i : IsGemm(Calls[j]) /\ Calls[j].in \notin ToolFuncMap}
    <3>1. \A j \in 1..i : j \in Sites
      BY <1>1
    <3> QED BY <2>1, <3>1
  <2> QED BY <2>2 DEF MarkedNumber, TracedNumber, NumberIn
<1>3. \A i \in Targets : TracedNumber(i) \in 1..CountAllGemmEx
  <2>1. ASSUME NEW i \in Targets PROVE TracedNumber(i) \in 1..CountAllGemmEx
    <3>1. i \in 1..Len(Calls) /\ IsTarget(i)
      BY <1>1 DEF Targets
    <3>2. TracedNumber(0) < TracedNumber(i) /\ TracedNumber(0) = 0
      BY <1>1, <3>1, TracedFacts
    <3>3. TracedNumber(i) <= CountAllGemmEx
      BY <1>1, <3>1, CountAtMost DEF TracedNumber, CountAllGemmEx
    <3>4. TracedNumber(i) \in Nat /\ CountAllGemmEx \in Nat
      BY <1>1, <3>1, CountedFinite DEF TracedNumber, CountAllGemmEx
    <3> QED BY <3>2, <3>3, <3>4
  <2> QED BY <2>1
<1>4. IInv => NumbersAgree
  <2> SUFFICES ASSUME IInv PROVE NumbersAgree
    OBVIOUS
  <2>1. MarkedCount = CountAllGemmEx
    BY <1>1, <1>2 DEF MarkedCount, CountAllGemmEx, TracedNumber
  <2>2. ASSUME NEW i \in Sites, IsTarget(i)
        PROVE  /\ MarkedNumber(i) = TracedNumber(i)
               /\ TracedNumber(i) \in 1..CountAllGemmEx
               /\ i <= collected => number[i] = TracedNumber(i)
               /\ i = at => gemmexId = TracedNumber(i)
    <3>1. i \in Targets /\ i \in 0..Len(Calls) /\ i # -1
      BY <1>1, <2>2 DEF Targets
    <3> QED BY <1>2, <1>3, <2>2, <3>1 DEF IInv, CountedSoFar
  <2> QED BY <2>1, <2>2 DEF NumbersAgree
<1> QED BY <1>4, AnalysisInvariance, PTL

\* The searches end, on data flow that circles and functions that call
\* themselves too: each starts the loops of a value once, and the scan goes on.
THEOREM AnalysisMovesOn == Spec => ComesCloserToItsEnd
<1>1. ASSUME IInv, [Next]_vars
      PROVE  [\/ collected' > collected
              \/ at' > at
              \/ at' = at /\ walk' > walk
              \/ UNCHANGED <<collected, at, walk>> /\ WorkLeft' < WorkLeft]_vars
  <2>1. collected \in Int /\ at \in Int /\ walk \in Int
    BY <1>1 DEF IInv, TypeOK
  <2>2. ASSUME Collect \/ StartAnalysis \/ Skip \/ Target \/ NextSearch
        PROVE  collected' > collected \/ at' > at \/ (at' = at /\ walk' > walk)
    BY <2>1, <2>2 DEF Collect, StartAnalysis, Skip, Target, NextSearch
  <2>3. ASSUME Return \/ Search \/ EndLoop
        PROVE  UNCHANGED <<collected, at, walk>> /\ WorkLeft' < WorkLeft
    <3>1. UNCHANGED <<collected, at, walk>>
      BY <2>3 DEF Return, Search, EndLoop, scan
    <3> QED BY <1>1, <2>3, <3>1, ReturnShrinks, SearchShrinks, EndLoopShrinks
  <2> QED BY <1>1, <2>2, <2>3 DEF Next
<1> QED BY <1>1, AnalysisInvariance, PTL DEF Spec, ComesCloserToItsEnd
=============================================================================
