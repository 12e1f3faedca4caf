------------------------- MODULE ScheduleNetworkProofs -------------------------
(***************************************************************************)
(* Lemmas about the operators of ScheduleNetwork, for any finite set of     *)
(* tasks, durations, lags and networks: what a turn of the recalculation    *)
(* keeps, what the whole recalculation returns, and that the two searches   *)
(* for cycles that do not run the recalculation are exact.                  *)
(*                                                                         *)
(* Three operators are functions defined by recursion up to the number of   *)
(* tasks.  That such a function exists is IterationExists; induction over   *)
(* its argument is UpTo, over a set of numbers instead of a formula.        *)
(***************************************************************************)
EXTENDS ScheduleNetwork, FiniteSetTheorems, WellFoundedInduction, TLAPS

-----------------------------------------------------------------------------
(* Recursion and induction up to a number *)

\* A set of naturals has a least element.
LEMMA LeastExists ==
    ASSUME NEW T, T \subseteq Nat, T # {}
    PROVE  \E x \in T : \A y \in T : x <= y
  <1>1. PICK x \in T : \A y \in T : ~(<<y, x>> \in OpToRel(<, Nat))
    BY WFMin, NatLessThanWellFounded, Zenon
  <1>2. \A y \in T : ~(y < x)
    BY <1>1 DEF OpToRel
  <1> QED BY <1>2

\* Induction up to n, over a set instead of a formula.
LEMMA UpTo ==
    ASSUME NEW n \in Nat, NEW T, 0 \in T, \A i \in 1 .. n : i - 1 \in T => i \in T
    PROVE  \A i \in 0 .. n : i \in T
  <1> DEFINE bad == {i \in 0 .. n : i \notin T}
  <1> SUFFICES ASSUME bad # {} PROVE FALSE
    OBVIOUS
  <1>1. PICK i \in bad : \A j \in bad : i <= j
    <2>1. bad \subseteq Nat
      OBVIOUS
    <2> HIDE DEF bad
    <2> QED BY <2>1, LeastExists
  <1>2. i \in 1 .. n /\ i \notin T
    BY <1>1
  <1>3. i - 1 \in 0 .. n /\ i - 1 \notin bad
    BY <1>1, <1>2
  <1> QED BY <1>2, <1>3

\* f applies h again and again, to b first, N times
Iterates(f, b, h, N) == f[0] = b /\ \A n \in 1 .. N : f[n] = h[f[n - 1]]

\* A function defined by recursion up to N exists.
LEMMA IterationExists ==
    ASSUME NEW N \in Nat, NEW D, NEW b \in D, NEW h \in [D -> D]
    PROVE  \E f \in [0 .. N -> D] : Iterates(f, b, h, N)
  <1> DEFINE Good(m, f) == f[0] = b /\ \A n \in 1 .. m : f[n] = h[f[n - 1]]
             good == {m \in 0 .. N : \E f \in [0 .. m -> D] : Good(m, f)}
  <1>1. 0 \in good
    <2> DEFINE g == [n \in 0 .. 0 |-> b]
    <2>1. Good(0, g) /\ g \in [0 .. 0 -> D]
      OBVIOUS
    <2> HIDE DEF Good, g
    <2> QED BY <2>1
  <1>2. ASSUME NEW i \in 1 .. N, i - 1 \in good PROVE i \in good
    <2>1. PICK f \in [0 .. i - 1 -> D] : Good(i - 1, f)
      BY <1>2
    <2> DEFINE g == [n \in 0 .. i |-> IF n = i THEN h[f[i - 1]] ELSE f[n]]
    <2>2. \A n \in 0 .. i : n # i => n \in 0 .. i - 1
      OBVIOUS
    <2>3. i - 1 \in 0 .. i - 1 /\ f[i - 1] \in D /\ h[f[i - 1]] \in D
      BY <2>1
    <2>4. g \in [0 .. i -> D]
      BY <2>1, <2>2, <2>3
    <2>5. g[0] = b
      BY <2>1
    <2>6. \A n \in 1 .. i : g[n] = h[g[n - 1]]
      <3> SUFFICES ASSUME NEW n \in 1 .. i PROVE g[n] = h[g[n - 1]]
        OBVIOUS
      <3>1. n - 1 \in 0 .. i /\ n - 1 # i /\ g[n - 1] = f[n - 1]
        OBVIOUS
      <3>2. CASE n = i
        BY <3>1, <3>2
      <3>3. CASE n # i
        <4>1. n \in 1 .. i - 1
          BY <3>3
        <4> QED BY <2>1, <3>1, <3>3, <4>1
      <3> QED BY <3>2, <3>3
    <2> HIDE DEF g
    <2> QED BY <2>4, <2>5, <2>6
  <1>3. N \in good
    <2> HIDE DEF good
    <2> QED BY <1>1, <1>2, UpTo
  <1> QED BY <1>3 DEF Iterates

-----------------------------------------------------------------------------
(* The network *)

LEMMA PredsFinite ==
    ASSUME NEW d, NEW t, NEW P
    PROVE  IsFiniteSet(Preds(d, t) \ P)
  <1>1. Preds(d, t) \ P \in SUBSET Tasks
    BY DEF Preds
  <1> QED BY <1>1, FS_Subset, NetworkAssumption

LEMMA NoneLeft ==
    ASSUME NEW d, NEW t, NEW P
    PROVE  Cardinality(Preds(d, t) \ P) = 0 <=> Preds(d, t) \subseteq P
  <1>1. Cardinality(Preds(d, t) \ P) = 0 <=> Preds(d, t) \ P = {}
    BY PredsFinite, FS_EmptySet
  <1> QED BY <1>1

LEMMA OneLess ==
    ASSUME NEW d, NEW t, NEW P, NEW p \in Tasks, p \notin P
    PROVE  Cardinality(Preds(d, t) \ (P \cup {p}))
             = IF Edge(d, p, t) THEN Cardinality(Preds(d, t) \ P) - 1
               ELSE Cardinality(Preds(d, t) \ P)
  <1> DEFINE S == Preds(d, t) \ P
  <1>1. IsFiniteSet(S)
    BY PredsFinite
  <1>2. Preds(d, t) \ (P \cup {p}) = S \ {p}
    OBVIOUS
  <1>3. p \in S <=> Edge(d, p, t)
    BY DEF Preds
  <1> HIDE DEF S
  <1>4. CASE Edge(d, p, t)
    BY <1>1, <1>2, <1>3, <1>4, FS_RemoveElement DEF S
  <1>5. CASE ~Edge(d, p, t)
    <2>1. S \ {p} = S
      BY <1>3, <1>5
    <2> QED BY <1>2, <1>5, <2>1 DEF S
  <1> QED BY <1>4, <1>5

LEMMA InsertedIsANetwork ==
    ASSUME NEW d \in Networks, NEW p \in Tasks, NEW s \in Tasks, NEW k \in Kinds, p # s
    PROVE  Inserted(d, p, s, k) \in Networks
  <1>1. d \in [Pairs -> Kinds \cup {NoDep}] /\ <<p, s>> \in Pairs
    BY DEF Networks, Pairs
  <1>2. Inserted(d, p, s, k) \in [Pairs -> Kinds \cup {NoDep}]
    BY <1>1 DEF Inserted
  <1>3. ASSUME NEW t \in Tasks PROVE Inserted(d, p, s, k)[<<t, t>>] = NoDep
    <2>1. <<t, t>> \in Pairs /\ <<t, t>> # <<p, s>>
      BY DEF Pairs
    <2> QED BY <1>1, <2>1 DEF Inserted, Networks
  <1> QED BY <1>2, <1>3 DEF Networks

LEMMA EdgeFacts ==
    ASSUME NEW d \in Networks, NEW p \in Tasks, NEW s \in Tasks, Edge(d, p, s)
    PROVE  /\ p # s
           /\ d[<<p, s>>].type \in Types /\ d[<<p, s>>].lag \in Int
           /\ s \in Succs(d, p) /\ p \in Preds(d, s)
  <1>1. <<p, s>> \in Pairs
    BY DEF Pairs
  <1>2. d[<<p, s>>] \in Kinds \cup {NoDep}
    BY <1>1 DEF Networks
  <1>3. d[<<p, s>>] # NoDep
    BY DEF Edge, NoDep
  <1>4. d[<<p, s>>] \in Kinds
    BY <1>2, <1>3
  <1>5. p # s
    BY <1>3 DEF Networks
  <1> QED BY <1>4, <1>5, NetworkAssumption DEF Kinds, Succs, Preds

LEMMA DurationFacts ==
    ASSUME NEW rs \in [Tasks -> TaskRows], NEW t \in Tasks
    PROVE  rs[t].dur \in Nat /\ Extra(rs, t) \in Nat
  BY DEF TaskRows, Extra

LEMMA MinStartInteger ==
    ASSUME NEW rs \in [Tasks -> TaskRows], NEW d \in Networks, NEW at \in [Tasks -> Int],
           NEW p \in Tasks, NEW s \in Tasks, Edge(d, p, s)
    PROVE  MinStart(rs, d, at, p, s) \in Int
  <1>1. d[<<p, s>>].lag \in Int /\ at[p] \in Int /\ EndOf(rs, at, p) \in Int /\ Extra(rs, s) \in Int
    BY EdgeFacts, DurationFacts DEF EndOf, EndIndex
  <1>2. CASE d[<<p, s>>].type = "SS"
    BY <1>1, <1>2 DEF MinStart
  <1>3. CASE d[<<p, s>>].type = "FF"
    BY <1>1, <1>3 DEF MinStart
  <1>4. CASE d[<<p, s>>].type = "SF"
    BY <1>1, <1>4 DEF MinStart
  <1>5. CASE d[<<p, s>>].type \notin {"SS", "FF", "SF"}
    BY <1>1, <1>5 DEF MinStart
  <1> QED BY <1>2, <1>3, <1>4, <1>5

\* The bound depends on the start of the predecessor only.
LEMMA MinStartOfStart ==
    ASSUME NEW rs, NEW d, NEW at, NEW bt, NEW p, NEW s, at[p] = bt[p]
    PROVE  MinStart(rs, d, at, p, s) = MinStart(rs, d, bt, p, s)
  BY DEF MinStart, EndOf

\* What the loop compares with is what the dependency asks for.
LEMMA MarginIsDistance ==
    ASSUME NEW rs \in [Tasks -> TaskRows], NEW d \in Networks, NEW at \in [Tasks -> Int],
           NEW p \in Tasks, NEW s \in Tasks, Edge(d, p, s)
    PROVE  Margin(rs, d, at, p, s) = at[s] - MinStart(rs, d, at, p, s)
  <1>1. /\ d[<<p, s>>].lag \in Int /\ at[p] \in Int /\ at[s] \in Int /\ EndOf(rs, at, p) \in Int
        /\ Extra(rs, s) \in Int /\ EndOf(rs, at, s) = at[s] + Extra(rs, s)
    BY EdgeFacts, DurationFacts DEF EndOf, EndIndex, Extra
  <1>2. CASE d[<<p, s>>].type = "SS"
    BY <1>1, <1>2 DEF MinStart, Margin
  <1>3. CASE d[<<p, s>>].type = "FF"
    BY <1>1, <1>3 DEF MinStart, Margin
  <1>4. CASE d[<<p, s>>].type = "SF"
    BY <1>1, <1>4 DEF MinStart, Margin
  <1>5. CASE d[<<p, s>>].type = "FS"
    BY <1>1, <1>5 DEF MinStart, Margin
  <1> QED BY <1>2, <1>3, <1>4, <1>5, EdgeFacts DEF Types

-----------------------------------------------------------------------------
(* The loop of the recalculation *)

LEMMA LoopTypes ==
    ASSUME NEW rs \in [Tasks -> TaskRows], NEW d \in Networks, NEW at \in [Tasks -> Int],
           NEW deg \in [Tasks -> Int], NEW t \in Tasks
    PROVE  /\ Pushed(rs, d, at, t) \in [Tasks -> Int]
           /\ Counted(d, deg, t) \in [Tasks -> Int]
           /\ Released(d, deg, t) \subseteq Tasks
  <1>1. Pushed(rs, d, at, t) \in [Tasks -> Int]
    BY MinStartInteger DEF Pushed
  <1> QED BY <1>1 DEF Counted, Released, Succs

\* What holds between two turns of the loop: a task is released when its last
\* predecessor has been processed, so its start is final when it is.
LoopOk(rs, d, at, deg, queue, done) ==
    /\ \A t \in Tasks : deg[t] = Cardinality(Preds(d, t) \ done)
    /\ queue = {t \in Tasks \ done : Preds(d, t) \subseteq done}
    /\ \A t \in done : Preds(d, t) \subseteq done
    /\ \A p \in done : \A s \in Succs(d, p) : at[s] >= MinStart(rs, d, at, p, s)
    /\ \A s \in Tasks : \/ at[s] = 0
                        \/ \E p \in Preds(d, s) \cap done : at[s] = MinStart(rs, d, at, p, s)
    /\ \A S \in SUBSET Tasks : Circular(d, S) => S \cap done = {}

LEMMA LoopBegins ==
    ASSUME NEW rs, NEW d
    PROVE  LoopOk(rs, d, [t \in Tasks |-> 0], InDegrees(d), Free(d), {})
  <1>1. \A t \in Tasks : Preds(d, t) \ {} = Preds(d, t)
    OBVIOUS
  <1>2. \A t \in Tasks : InDegrees(d)[t] = Cardinality(Preds(d, t) \ {})
    BY <1>1 DEF InDegrees
  <1>3. Free(d) = {t \in Tasks \ {} : Preds(d, t) \subseteq {}}
    BY <1>2, NoneLeft DEF Free
  <1> QED BY <1>2, <1>3 DEF LoopOk

\* One turn.  Nothing that has left the queue is pushed again, for all its
\* predecessors have left it before.
LEMMA LoopGoesOn ==
    ASSUME NEW rs \in [Tasks -> TaskRows], NEW d \in Networks, NEW at \in [Tasks -> Int],
           NEW deg \in [Tasks -> Int], NEW queue \in SUBSET Tasks, NEW done \in SUBSET Tasks,
           LoopOk(rs, d, at, deg, queue, done), NEW t \in queue
    PROVE  LoopOk(rs, d, Pushed(rs, d, at, t), Counted(d, deg, t),
                  (queue \ {t}) \cup Released(d, deg, t), done \cup {t})
  <1> DEFINE at2    == Pushed(rs, d, at, t)
             deg2   == Counted(d, deg, t)
             queue2 == (queue \ {t}) \cup Released(d, deg, t)
             done2  == done \cup {t}
  <1>1. /\ at2 = Pushed(rs, d, at, t) /\ deg2 = Counted(d, deg, t) /\ done2 = done \cup {t}
        /\ queue2 = (queue \ {t}) \cup Released(d, deg, t)
        /\ t \in Tasks
    OBVIOUS
  <1>2. /\ \A s \in Tasks : deg[s] = Cardinality(Preds(d, s) \ done)
        /\ queue = {s \in Tasks \ done : Preds(d, s) \subseteq done}
        /\ \A s \in done : Preds(d, s) \subseteq done
        /\ \A p \in done : \A s \in Succs(d, p) : at[s] >= MinStart(rs, d, at, p, s)
        /\ \A s \in Tasks : \/ at[s] = 0
                            \/ \E p \in Preds(d, s) \cap done : at[s] = MinStart(rs, d, at, p, s)
        /\ \A S \in SUBSET Tasks : Circular(d, S) => S \cap done = {}
    BY DEF LoopOk
  <1> HIDE DEF at2, deg2, queue2, done2
  <1>3. t \notin done /\ Preds(d, t) \subseteq done
    BY <1>1, <1>2
  <1>4. \A s \in Tasks : deg2[s] = Cardinality(Preds(d, s) \ done2)
    <2> SUFFICES ASSUME NEW s \in Tasks
                 PROVE  deg2[s] = Cardinality(Preds(d, s) \ done2)
      OBVIOUS
    <2>1. Cardinality(Preds(d, s) \ (done \cup {t}))
            = IF Edge(d, t, s) THEN Cardinality(Preds(d, s) \ done) - 1
              ELSE Cardinality(Preds(d, s) \ done)
      BY <1>1, <1>3, OneLess
    <2>2. deg2[s] = IF Edge(d, t, s) THEN deg[s] - 1 ELSE deg[s]
      BY <1>1 DEF Counted
    <2> QED BY <1>1, <1>2, <2>1, <2>2
  <1>5. queue2 = {s \in Tasks \ done2 : Preds(d, s) \subseteq done2}
    <2>1. ASSUME NEW s \in Tasks
          PROVE  s \in Released(d, deg, t) <=> Edge(d, t, s) /\ Preds(d, s) \subseteq done2
      <3>1. deg2[s] = 0 <=> Preds(d, s) \subseteq done2
        BY <1>4, NoneLeft
      <3> QED BY <1>1, <3>1 DEF Released, Succs
    <2>2. ASSUME NEW s \in Tasks, Edge(d, t, s) PROVE s # t /\ s \notin done /\ s \notin queue
      BY <1>2, <1>3, <2>2, EdgeFacts DEF Preds
    <2>3. ASSUME NEW s \in Tasks, ~Edge(d, t, s)
          PROVE  Preds(d, s) \subseteq done2 <=> Preds(d, s) \subseteq done
      BY <1>1, <2>3 DEF Preds
    <2>4. ASSUME NEW s \in Tasks
          PROVE  s \in queue2 <=> s \notin done2 /\ Preds(d, s) \subseteq done2
      <3>1. CASE Edge(d, t, s)
        BY <1>1, <2>1, <2>2, <3>1
      <3>2. CASE ~Edge(d, t, s)
        BY <1>1, <1>2, <2>1, <2>3, <3>2
      <3> QED BY <3>1, <3>2
    <2>5. queue2 \subseteq Tasks
      BY <1>1, LoopTypes
    <2> QED BY <2>4, <2>5
  <1>6. \A s \in done2 : Preds(d, s) \subseteq done2
    BY <1>1, <1>2, <1>3
  <1>7. ASSUME NEW p \in done2 PROVE at2[p] = at[p]
    <2>1. ~Edge(d, t, p)
      BY <1>1, <1>2, <1>3, <1>7, EdgeFacts DEF Preds
    <2> QED BY <1>1, <2>1 DEF Pushed
  <1>8. ASSUME NEW p \in done2, NEW s \in Tasks
        PROVE  MinStart(rs, d, at2, p, s) = MinStart(rs, d, at, p, s)
    BY <1>7, MinStartOfStart
  <1>9. ASSUME NEW s \in Tasks
        PROVE  at2[s] = IF Edge(d, t, s) /\ MinStart(rs, d, at, t, s) > at[s]
                              THEN MinStart(rs, d, at, t, s) ELSE at[s]
    BY <1>1 DEF Pushed
  <1>10. ASSUME NEW p \in done2, NEW s \in Succs(d, p)
         PROVE  at2[s] >= MinStart(rs, d, at2, p, s)
    <2>1. s \in Tasks /\ Edge(d, p, s) /\ p \in Tasks
      BY <1>1 DEF Succs
    <2>2. MinStart(rs, d, at, p, s) \in Int /\ at[s] \in Int
      BY <2>1, MinStartInteger
    <2>3. CASE p = t
      BY <1>8, <1>9, <2>1, <2>2, <2>3
    <2>4. CASE p # t
      <3>1. at[s] >= MinStart(rs, d, at, p, s)
        BY <1>1, <1>2, <2>4
      <3>2. Edge(d, t, s) => MinStart(rs, d, at, t, s) \in Int
        BY <2>1, MinStartInteger
      <3>3. at2[s] >= at[s] /\ at2[s] \in Int
        BY <1>9, <2>1, <2>2, <3>2
      <3> QED BY <1>8, <2>1, <2>2, <3>1, <3>3
    <2> QED BY <2>3, <2>4
  <1>11. ASSUME NEW s \in Tasks
         PROVE  \/ at2[s] = 0
                \/ \E p \in Preds(d, s) \cap done2 :
                      at2[s] = MinStart(rs, d, at2, p, s)
    <2>1. CASE Edge(d, t, s) /\ MinStart(rs, d, at, t, s) > at[s]
      <3>1. t \in Preds(d, s) \cap done2
        BY <1>1, <2>1 DEF Preds
      <3> QED BY <1>8, <1>9, <2>1, <3>1
    <2>2. CASE ~(Edge(d, t, s) /\ MinStart(rs, d, at, t, s) > at[s])
      <3>1. at2[s] = at[s]
        BY <1>9, <2>2
      <3> QED BY <1>1, <1>2, <1>8, <3>1
    <2> QED BY <2>1, <2>2
  <1>12. ASSUME NEW S \in SUBSET Tasks, Circular(d, S) PROVE S \cap done2 = {}
    <2>1. S \cap done = {}
      BY <1>2, <1>12
    <2>2. t \notin S
      BY <1>3, <1>12, <2>1 DEF Circular, Preds
    <2> QED BY <1>1, <2>1, <2>2
  <1>13. LoopOk(rs, d, at2, deg2, queue2, done2)
    BY <1>4, <1>5, <1>6, <1>10, <1>11, <1>12 DEF LoopOk
  <1> QED BY <1>13 DEF at2, deg2, queue2, done2

-----------------------------------------------------------------------------
(* The topological order *)

NumTasks == Cardinality(Tasks)

LEMMA NumTasksIsNatural == NumTasks \in Nat
BY FS_CardinalityType, NetworkAssumption DEF NumTasks

\* A set of tasks with as many as there are is all of them, and one more makes more.
LEMMA SetsOfTasks ==
    ASSUME NEW A \in SUBSET Tasks, NEW B \in SUBSET Tasks
    PROVE  /\ IsFiniteSet(A) /\ Cardinality(A) \in Nat
           /\ Cardinality(A) <= NumTasks
           /\ Cardinality(A) >= NumTasks => A = Tasks
           /\ A \subseteq B /\ A # B => Cardinality(B) >= Cardinality(A) + 1
  <1>1. /\ IsFiniteSet(A) /\ IsFiniteSet(B)
        /\ Cardinality(A) <= NumTasks /\ (Cardinality(A) = NumTasks => A = Tasks)
    BY FS_Subset, NetworkAssumption DEF NumTasks
  <1>2. Cardinality(A) \in Nat /\ Cardinality(B) \in Nat
    BY <1>1, FS_CardinalityType
  <1>3. A \subseteq B => Cardinality(A) <= Cardinality(B) /\ (Cardinality(A) = Cardinality(B) => A = B)
    BY <1>1, FS_Subset
  <1> QED BY <1>1, <1>2, <1>3, NumTasksIsNatural

LEMMA Layers ==
    ASSUME NEW dep
    PROVE  \E f : /\ f[0] = {}
                  /\ \A n \in 1 .. NumTasks : f[n] = {t \in Tasks : Preds(dep, t) \subseteq f[n - 1]}
                  /\ TopologicallySorted(dep) = f[NumTasks]
  <1> DEFINE layer[n \in 0 .. NumTasks] ==
                 IF n = 0 THEN {} ELSE {t \in Tasks : Preds(dep, t) \subseteq layer[n - 1]}
             D == SUBSET Tasks
             h == [L \in D |-> {t \in Tasks : Preds(dep, t) \subseteq L}]
  <1>1. NumTasks \in Nat
    BY NumTasksIsNatural
  <1>2. PICK f \in [0 .. NumTasks -> D] : Iterates(f, {}, h, NumTasks)
    <2>1. h \in [D -> D] /\ {} \in D
       OBVIOUS
    <2> HIDE DEF h, D
    <2> QED BY <1>1, <2>1, IterationExists
  <1>3. f = [n \in 0 .. NumTasks |->
                IF n = 0 THEN {} ELSE {t \in Tasks : Preds(dep, t) \subseteq f[n - 1]}]
    <2>1. \A n \in 0 .. NumTasks :
             n # 0 => n \in 1 .. NumTasks /\ n - 1 \in 0 .. NumTasks /\ f[n - 1] \in D
      BY <1>1
    <2>2. \A n \in 0 .. NumTasks :
             f[n] = IF n = 0 THEN {} ELSE {t \in Tasks : Preds(dep, t) \subseteq f[n - 1]}
      BY <1>2, <2>1 DEF Iterates
    <2> QED BY <2>2
  <1>4. layer = [n \in 0 .. NumTasks |->
                   IF n = 0 THEN {} ELSE {t \in Tasks : Preds(dep, t) \subseteq layer[n - 1]}]
    BY <1>3 DEF layer
  <1>5. TopologicallySorted(dep) = layer[NumTasks]
    BY DEF TopologicallySorted, layer, NumTasks
  <1> HIDE DEF layer
  <1>6. layer[0] = {}
    BY <1>1, <1>4
  <1>7. \A n \in 1 .. NumTasks : layer[n] = {t \in Tasks : Preds(dep, t) \subseteq layer[n - 1]}
    <2>1. \A n \in 1 .. NumTasks : n \in 0 .. NumTasks /\ n # 0
      BY <1>1
    <2> QED BY <1>4, <2>1
  <1> QED BY <1>5, <1>6, <1>7

\* graph.ts: the topological order is complete exactly when there is no cycle.
\* A cycle enters no layer; without one, each layer is larger than the one
\* before it until it has all tasks.
THEOREM TopologicalOrderIsExact ==
    ASSUME NEW dep
    PROVE  TopologicallySorted(dep) = Tasks <=> ~HasCycle(dep)
  <1>1. PICK f : /\ f[0] = {}
                 /\ \A n \in 1 .. NumTasks : f[n] = {t \in Tasks : Preds(dep, t) \subseteq f[n - 1]}
                 /\ TopologicallySorted(dep) = f[NumTasks]
    BY Layers
  <1>2. NumTasks \in Nat /\ NumTasks \in 0 .. NumTasks
    BY NumTasksIsNatural
  <1>3. ASSUME NEW S \in SUBSET Tasks, Circular(dep, S), f[NumTasks] = Tasks
        PROVE  FALSE
    <2> DEFINE good == {n \in 0 .. NumTasks : f[n] \cap S = {}}
    <2>1. 0 \in good
      BY <1>1, <1>2
    <2>2. ASSUME NEW n \in 1 .. NumTasks, n - 1 \in good PROVE n \in good
      <3>1. f[n] = {t \in Tasks : Preds(dep, t) \subseteq f[n - 1]} /\ f[n - 1] \cap S = {}
        BY <1>1, <2>2
      <3>2. ASSUME NEW t \in f[n] \cap S PROVE FALSE
        <4>1. PICK p \in S : Edge(dep, p, t)
          BY <1>3 DEF Circular
        <4>2. p \in Preds(dep, t)
          BY <4>1 DEF Preds
        <4> QED BY <3>1, <4>2
      <3> QED BY <1>2, <3>2
    <2>3. NumTasks \in good
      <3> HIDE DEF good
      <3> QED BY <1>2, <2>1, <2>2, UpTo
    <2> QED BY <1>3, <2>3 DEF Circular
  <1>4. ASSUME ~HasCycle(dep) PROVE f[NumTasks] = Tasks
    <2> DEFINE Grows(n) == /\ f[n] \in SUBSET Tasks
                           /\ n > 0 => f[n - 1] \subseteq f[n]
                           /\ Cardinality(f[n]) >= n
               good == {n \in 0 .. NumTasks : Grows(n)}
    <2>1. 0 \in good
      BY <1>1, <1>2, FS_EmptySet
    <2>2. ASSUME NEW n \in 1 .. NumTasks, n - 1 \in good PROVE n \in good
      <3>1. f[n] = {t \in Tasks : Preds(dep, t) \subseteq f[n - 1]} /\ f[n] \in SUBSET Tasks
        BY <1>1
      <3>2. f[n - 1] \in SUBSET Tasks /\ Cardinality(f[n - 1]) >= n - 1
        BY <2>2
      <3>3. f[n - 1] \subseteq f[n]
        <4>1. CASE n = 1
          BY <1>1, <4>1
        <4>2. CASE n # 1
          <5>1. n - 1 \in 1 .. NumTasks /\ n - 1 > 0
            BY <1>2, <4>2
          <5>2. f[n - 1] = {t \in Tasks : Preds(dep, t) \subseteq f[n - 1 - 1]}
            BY <1>1, <5>1
          <5>3. f[n - 1 - 1] \subseteq f[n - 1]
            BY <2>2, <5>1
          <5> QED BY <3>1, <5>2, <5>3
        <4> QED BY <4>1, <4>2
      <3>4. Cardinality(f[n]) >= n
        <4>1. CASE f[n - 1] = Tasks
          <5>1. f[n] = Tasks
            BY <3>1, <3>3, <4>1
          <5> QED BY <1>2, <5>1 DEF NumTasks
        <4>2. CASE f[n - 1] # Tasks
          <5> DEFINE S == Tasks \ f[n - 1]
          <5>1. S # {} /\ S \in SUBSET Tasks
            BY <3>2, <4>2
          <5>2. PICK t \in S : \A p \in S : ~Edge(dep, p, t)
            BY <1>4, <5>1 DEF HasCycle, Circular
          <5>3. t \in f[n] /\ t \notin f[n - 1]
            BY <3>1, <5>2 DEF Preds
          <5>4. Cardinality(f[n]) >= Cardinality(f[n - 1]) + 1
            BY <3>1, <3>2, <3>3, <5>3, SetsOfTasks
          <5>5. Cardinality(f[n]) \in Nat /\ Cardinality(f[n - 1]) \in Nat
            BY <3>1, <3>2, SetsOfTasks
          <5> QED BY <1>2, <3>2, <5>4, <5>5
        <4> QED BY <4>1, <4>2
      <3>5. Grows(n) /\ n \in 0 .. NumTasks
        BY <1>2, <3>1, <3>3, <3>4
      <3> HIDE DEF Grows
      <3> QED BY <3>5
    <2>3. NumTasks \in good
      <3> HIDE DEF good
      <3> QED BY <1>2, <2>1, <2>2, UpTo
    <2> QED BY <2>3, SetsOfTasks
  <1> QED BY <1>1, <1>3, <1>4 DEF HasCycle

-----------------------------------------------------------------------------
(* The search before an insertion *)

\* f is the value of seen in the search
Searches(f, dep, pred, succ) ==
    /\ f \in [0 .. NumTasks -> SUBSET Tasks]
    /\ f[0] = {succ}
    /\ \A n \in 1 .. NumTasks : f[n] = f[n - 1] \cup UNION {Succs(dep, t) : t \in f[n - 1]}
    /\ DependencyWouldCreateCycle(dep, pred, succ) <=> pred \in f[NumTasks]

LEMMA SeenTasks ==
    ASSUME NEW dep, NEW pred, NEW succ \in Tasks
    PROVE  \E f : Searches(f, dep, pred, succ)
  <1> DEFINE seen[n \in 0 .. NumTasks] ==
                 IF n = 0 THEN {succ}
                 ELSE seen[n - 1] \cup UNION {Succs(dep, t) : t \in seen[n - 1]}
             D == SUBSET Tasks
             b == {succ}
             h == [L \in D |-> L \cup UNION {Succs(dep, t) : t \in L}]
  <1>1. NumTasks \in Nat
    BY NumTasksIsNatural
  <1>2. PICK f \in [0 .. NumTasks -> D] : Iterates(f, b, h, NumTasks)
    <2>1. b \in D
      OBVIOUS
    <2>2. \A t : Succs(dep, t) \subseteq Tasks
      BY DEF Succs
    <2>3. h \in [D -> D]
      BY <2>2
    <2> HIDE DEF h, D, b
    <2> QED BY <1>1, <2>1, <2>3, IterationExists
  <1>3. f = [n \in 0 .. NumTasks |->
                IF n = 0 THEN {succ} ELSE f[n - 1] \cup UNION {Succs(dep, t) : t \in f[n - 1]}]
    <2>1. \A n \in 0 .. NumTasks :
             n # 0 => n \in 1 .. NumTasks /\ n - 1 \in 0 .. NumTasks /\ f[n - 1] \in D
      BY <1>1
    <2>2. \A n \in 0 .. NumTasks :
             f[n] = IF n = 0 THEN {succ} ELSE f[n - 1] \cup UNION {Succs(dep, t) : t \in f[n - 1]}
      BY <1>2, <2>1 DEF Iterates
    <2> QED BY <2>2
  <1>4. seen = [n \in 0 .. NumTasks |->
                  IF n = 0 THEN {succ} ELSE seen[n - 1] \cup UNION {Succs(dep, t) : t \in seen[n - 1]}]
    BY <1>3 DEF seen
  <1>5. DependencyWouldCreateCycle(dep, pred, succ) <=> pred \in seen[NumTasks]
    BY DEF DependencyWouldCreateCycle, seen, NumTasks
  <1> HIDE DEF seen
  <1>6. seen[0] = {succ}
    BY <1>1, <1>4
  <1>7. \A n \in 1 .. NumTasks : seen[n] = seen[n - 1] \cup UNION {Succs(dep, t) : t \in seen[n - 1]}
    <2>1. \A n \in 1 .. NumTasks : n \in 0 .. NumTasks /\ n # 0
      BY <1>1
    <2> QED BY <1>4, <2>1
  <1>8. \A n \in 0 .. NumTasks : seen[n] \in SUBSET Tasks
    <2> DEFINE good == {n \in 0 .. NumTasks : seen[n] \in SUBSET Tasks}
    <2>1. 0 \in good
      BY <1>1, <1>6
    <2>2. ASSUME NEW n \in 1 .. NumTasks, n - 1 \in good PROVE n \in good
      <3>1. \A t : Succs(dep, t) \subseteq Tasks
        BY DEF Succs
      <3>2. seen[n] \in SUBSET Tasks
        BY <1>7, <2>2, <3>1
      <3> QED BY <1>1, <3>2
    <2> HIDE DEF good
    <2>3. \A n \in 0 .. NumTasks : n \in good
      BY <1>1, <2>1, <2>2, UpTo
    <2> QED BY <2>3 DEF good
  <1>9. seen \in [0 .. NumTasks -> SUBSET Tasks]
    BY <1>4, <1>8
  <1> QED BY <1>5, <1>6, <1>7, <1>9 DEF Searches

\* The search returns when it has all tasks reachable from succ: a set that no
\* edge leaves, and in which every other task has a predecessor.
Finds(R, dep, pred, succ) ==
    /\ R \in SUBSET Tasks
    /\ DependencyWouldCreateCycle(dep, pred, succ) <=> pred \in R
    /\ succ \in R
    /\ \A t \in R : Succs(dep, t) \subseteq R
    /\ \A t \in R \ {succ} : \E p \in R : Edge(dep, p, t)

LEMMA Reachable ==
    ASSUME NEW dep, NEW pred, NEW succ \in Tasks
    PROVE  \E R : Finds(R, dep, pred, succ)
  <1>0. PICK f : Searches(f, dep, pred, succ)
    BY SeenTasks
  <1>1. /\ f \in [0 .. NumTasks -> SUBSET Tasks]
        /\ f[0] = {succ}
        /\ \A n \in 1 .. NumTasks : f[n] = f[n - 1] \cup UNION {Succs(dep, t) : t \in f[n - 1]}
        /\ DependencyWouldCreateCycle(dep, pred, succ) <=> pred \in f[NumTasks]
    BY <1>0 DEF Searches
  <1>2. NumTasks \in Nat /\ NumTasks \in 0 .. NumTasks
    BY NumTasksIsNatural
  <1> DEFINE Closed(R)  == \A t \in R : Succs(dep, t) \subseteq R
             Reached(R) == succ \in R /\ \A t \in R \ {succ} : \E p \in R : Edge(dep, p, t)
  <1>3. ASSUME NEW n \in 1 .. NumTasks
        PROVE  /\ n - 1 \in 0 .. NumTasks /\ n \in 0 .. NumTasks
               /\ f[n - 1] \in SUBSET Tasks /\ f[n] \in SUBSET Tasks
               /\ f[n - 1] \subseteq f[n]
               /\ \A s \in f[n] : s \in f[n - 1] \/ \E t \in f[n - 1] : s \in Succs(dep, t)
               /\ \A t \in f[n - 1] : Succs(dep, t) \subseteq f[n]
    <2>1. n - 1 \in 0 .. NumTasks /\ n \in 0 .. NumTasks
      BY <1>2
    <2>2. f[n] = f[n - 1] \cup UNION {Succs(dep, t) : t \in f[n - 1]}
      BY <1>1
    <2> QED BY <1>1, <2>1, <2>2
  <1>4. Reached(f[NumTasks])
    <2> DEFINE good == {n \in 0 .. NumTasks : Reached(f[n])}
    <2>1. 0 \in good
      BY <1>1, <1>2
    <2>2. ASSUME NEW n \in 1 .. NumTasks, n - 1 \in good PROVE n \in good
      <3>1. succ \in f[n]
        BY <1>3, <2>2
      <3>2. ASSUME NEW s \in f[n] \ {succ} PROVE \E p \in f[n] : Edge(dep, p, s)
        <4>1. CASE s \in f[n - 1]
          BY <1>3, <2>2, <4>1
        <4>2. CASE s \notin f[n - 1]
          <5>1. PICK t \in f[n - 1] : s \in Succs(dep, t)
            BY <1>3, <4>2
          <5> QED BY <1>3, <5>1 DEF Succs
        <4> QED BY <4>1, <4>2
      <3>3. Reached(f[n]) /\ n \in 0 .. NumTasks
        BY <1>3, <3>1, <3>2
      <3> HIDE DEF Reached
      <3> QED BY <3>3
    <2> HIDE DEF good
    <2>3. NumTasks \in good
      BY <1>2, <2>1, <2>2, UpTo
    <2> QED BY <2>3 DEF good
  <1>5. Closed(f[NumTasks])
    <2> DEFINE Grows(n) == Closed(f[n]) \/ Cardinality(f[n]) >= n + 1
               good == {n \in 0 .. NumTasks : Grows(n)}
    <2>1. 0 \in good
      <3>1. Cardinality({succ}) = 1
        BY FS_Singleton
      <3>2. Cardinality(f[0]) >= 0 + 1
        BY <1>1, <3>1
      <3> QED BY <1>2, <3>2
    <2>2. ASSUME NEW n \in 1 .. NumTasks, n - 1 \in good PROVE n \in good
      <3>1. CASE f[n] = f[n - 1]
        <4>1. Closed(f[n])
          BY <1>3, <3>1
        <4> QED BY <1>3, <4>1
      <3>2. CASE f[n] # f[n - 1]
        <4>1. Cardinality(f[n]) >= Cardinality(f[n - 1]) + 1
          BY <1>3, <3>2, SetsOfTasks
        <4>2. Cardinality(f[n - 1]) \in Nat /\ Cardinality(f[n]) \in Nat
          BY <1>3, SetsOfTasks
        <4>3. ~Closed(f[n - 1])
          <5>1. PICK s \in f[n] : s \notin f[n - 1]
            BY <1>3, <3>2
          <5> QED BY <1>3, <5>1
        <4>4. Cardinality(f[n - 1]) >= n - 1 + 1
          <5> HIDE DEF Closed
          <5> QED BY <2>2, <4>3
        <4>5. Cardinality(f[n]) >= n + 1
          BY <4>1, <4>2, <4>4
        <4> QED BY <1>3, <4>5
      <3> QED BY <3>1, <3>2
    <2>3. NumTasks \in good
      <3> HIDE DEF good
      <3> QED BY <1>2, <2>1, <2>2, UpTo
    <2>4. Cardinality(f[NumTasks]) \in Nat /\ Cardinality(f[NumTasks]) <= NumTasks
      BY <1>1, <1>2, SetsOfTasks
    <2> HIDE DEF Closed
    <2> QED BY <1>2, <2>3, <2>4
  <1>6. Finds(f[NumTasks], dep, pred, succ)
    BY <1>1, <1>2, <1>4, <1>5 DEF Finds
  <1> QED BY <1>6

LEMMA InsertedEdges ==
    ASSUME NEW dep \in Networks, NEW p \in Tasks, NEW s \in Tasks, NEW k, k.type # "none",
           NEW a \in Tasks, NEW b \in Tasks
    PROVE  Edge(Inserted(dep, p, s, k), a, b) <=> Edge(dep, a, b) \/ (a = p /\ b = s)
  <1>1. dep \in [Pairs -> Kinds \cup {NoDep}] /\ <<a, b>> \in Pairs /\ <<p, s>> \in Pairs
    BY DEF Networks, Pairs
  <1>3. CASE <<a, b>> = <<p, s>>
    BY <1>1, <1>3 DEF Edge, Inserted
  <1>4. CASE <<a, b>> # <<p, s>>
    BY <1>1, <1>4 DEF Edge, Inserted
  <1> QED BY <1>3, <1>4

\* recalc.ts: while the dependencies have no cycle, the search from the
\* successor refuses exactly the dependencies that would close one.
THEOREM SearchIsExact ==
    ASSUME NEW dep \in Networks, ~HasCycle(dep),
           NEW pred \in Tasks, NEW succ \in Tasks, NEW k, k.type # "none"
    PROVE  DependencyWouldCreateCycle(dep, pred, succ) <=> HasCycle(Inserted(dep, pred, succ, k))
  <1> DEFINE dep2 == Inserted(dep, pred, succ, k)
  <1>0. PICK R : Finds(R, dep, pred, succ)
    BY Reachable
  <1>1. /\ R \in SUBSET Tasks
        /\ DependencyWouldCreateCycle(dep, pred, succ) <=> pred \in R
        /\ succ \in R
        /\ \A t \in R : Succs(dep, t) \subseteq R
        /\ \A t \in R \ {succ} : \E p \in R : Edge(dep, p, t)
    BY <1>0 DEF Finds
  <1>2. \A a, b \in Tasks : Edge(dep2, a, b) <=> Edge(dep, a, b) \/ (a = pred /\ b = succ)
    BY InsertedEdges
  <1> HIDE DEF dep2
  <1>3. ASSUME pred \in R PROVE HasCycle(dep2)
    <2>1. \A t \in R : \E p \in R : Edge(dep2, p, t)
      BY <1>1, <1>2, <1>3
    <2> QED BY <1>1, <2>1 DEF HasCycle, Circular
  <1>4. ASSUME pred \notin R, NEW S \in SUBSET Tasks, Circular(dep2, S) PROVE FALSE
    <2>1. ASSUME NEW t \in S PROVE \E p \in S : Edge(dep2, p, t)
      BY <1>4 DEF Circular
    <2>2. CASE S \ R # {}
      <3>1. ASSUME NEW t \in S \ R PROVE \E p \in S \ R : Edge(dep, p, t)
        <4>1. PICK p \in S : Edge(dep2, p, t)
          BY <2>1
        <4>2. Edge(dep, p, t)
          BY <1>1, <1>2, <4>1
        <4>3. p \notin R
          BY <1>1, <4>2 DEF Succs
        <4> QED BY <4>2, <4>3
      <3>2. Circular(dep, S \ R)
        BY <2>2, <3>1 DEF Circular
      <3> QED BY <3>2 DEF HasCycle
    <2>3. CASE S \ R = {}
      <3>1. pred \notin S
        BY <1>4, <2>3
      <3>2. ASSUME NEW t \in S PROVE \E p \in S : Edge(dep, p, t)
        BY <1>2, <2>1, <3>1
      <3>3. Circular(dep, S)
        BY <1>4, <3>2 DEF Circular
      <3> QED BY <3>3 DEF HasCycle
    <2> QED BY <2>2, <2>3
  <1> QED BY <1>1, <1>3, <1>4 DEF HasCycle, dep2

-----------------------------------------------------------------------------
(* The whole recalculation *)

LEMMA InDegreesTyped == ASSUME NEW d PROVE InDegrees(d) \in [Tasks -> Int]
  <1>1. ASSUME NEW t \in Tasks PROVE Cardinality(Preds(d, t)) \in Nat
    <2>1. Preds(d, t) \in SUBSET Tasks
      BY DEF Preds
    <2> QED BY <2>1, SetsOfTasks
  <1> QED BY <1>1 DEF InDegrees

\* the loop between two turns
Turns(rs, d) == {l \in Loop : LoopOk(rs, d, l.at, l.deg, l.queue, l.processed)}

LEMMA FirstTurn ==
    ASSUME NEW rs, NEW d
    PROVE  LoopStart(d) \in Turns(rs, d)
  <1>1. LoopStart(d) \in Loop
    BY InDegreesTyped DEF LoopStart, Loop, Free
  <1>2. LoopOk(rs, d, LoopStart(d).at, LoopStart(d).deg, LoopStart(d).queue, LoopStart(d).processed)
    BY LoopBegins DEF LoopStart
  <1> QED BY <1>1, <1>2 DEF Turns

LEMMA NextTurn ==
    ASSUME NEW rs \in [Tasks -> TaskRows], NEW d \in Networks, NEW l \in Turns(rs, d), NEW t \in l.queue
    PROVE  Turn(rs, d, l, t) \in Turns(rs, d)
  <1>1. /\ l.at \in [Tasks -> Int] /\ l.deg \in [Tasks -> Int] /\ t \in Tasks
        /\ l.queue \in SUBSET Tasks /\ l.processed \in SUBSET Tasks
        /\ LoopOk(rs, d, l.at, l.deg, l.queue, l.processed)
    BY DEF Turns, Loop
  <1>2. Turn(rs, d, l, t) \in Loop
    BY <1>1, LoopTypes DEF Turn, Loop
  <1>3. LoopOk(rs, d, Pushed(rs, d, l.at, t), Counted(d, l.deg, t),
               (l.queue \ {t}) \cup Released(d, l.deg, t), l.processed \cup {t})
    BY <1>1, LoopGoesOn
  <1> QED BY <1>2, <1>3 DEF Turn, Turns

LEMMA RecalculatedIsATurn ==
    ASSUME NEW rs \in [Tasks -> TaskRows], NEW d \in Networks
    PROVE  Recalculated(rs, d) \in Turns(rs, d)
  <1> DEFINE Step(l) == IF l.queue = {} THEN l ELSE Turn(rs, d, l, CHOOSE t \in l.queue : TRUE)
             loop[n \in 0 .. NumTasks] ==
                 IF n = 0 THEN LoopStart(d)
                 ELSE LET l == loop[n - 1]
                      IN  IF l.queue = {} THEN l ELSE Turn(rs, d, l, CHOOSE t \in l.queue : TRUE)
             D == Turns(rs, d)
             b == LoopStart(d)
             h == [l \in D |-> Step(l)]
  <1>1. NumTasks \in Nat /\ NumTasks \in 0 .. NumTasks
    BY NumTasksIsNatural
  <1>2. ASSUME NEW l \in D PROVE Step(l) \in D
    <2>1. CASE l.queue = {}
      BY <2>1
    <2>2. CASE l.queue # {}
      <3> DEFINE c == CHOOSE t \in l.queue : TRUE
      <3>1. c \in l.queue
        BY <2>2
      <3> HIDE DEF c, D
      <3>2. Turn(rs, d, l, c) \in D
        BY <1>2, <3>1, NextTurn DEF D
      <3> QED BY <2>2, <3>2 DEF c
    <2> QED BY <2>1, <2>2
  <1>3. PICK f \in [0 .. NumTasks -> D] : Iterates(f, b, h, NumTasks)
    <2>1. b \in D
      BY FirstTurn
    <2> HIDE DEF Step, D
    <2>2. h \in [D -> D]
      BY <1>2
    <2> HIDE DEF h, b, loop
    <2> QED BY <1>1, <2>1, <2>2, IterationExists
  <1> HIDE DEF D
  <1>4. f = [n \in 0 .. NumTasks |-> IF n = 0 THEN LoopStart(d) ELSE Step(f[n - 1])]
    <2> HIDE DEF Step
    <2>1. \A n \in 0 .. NumTasks :
             n # 0 => n \in 1 .. NumTasks /\ n - 1 \in 0 .. NumTasks /\ f[n - 1] \in D
      BY <1>1
    <2>2. \A n \in 0 .. NumTasks : f[n] = IF n = 0 THEN LoopStart(d) ELSE Step(f[n - 1])
      BY <1>3, <2>1 DEF Iterates
    <2> QED BY <2>2
  <1>5. loop = [n \in 0 .. NumTasks |-> IF n = 0 THEN LoopStart(d) ELSE Step(loop[n - 1])]
    BY <1>4 DEF loop
  <1>6. Recalculated(rs, d) = loop[NumTasks]
    BY DEF Recalculated, loop, NumTasks
  <1> HIDE DEF loop, Step
  <1> DEFINE good == {n \in 0 .. NumTasks : loop[n] \in D}
  <1>7. 0 \in good
    BY <1>1, <1>5, FirstTurn DEF D
  <1>8. ASSUME NEW n \in 1 .. NumTasks, n - 1 \in good PROVE n \in good
    <2>1. n \in 0 .. NumTasks /\ n # 0
      BY <1>1
    <2>2. loop[n] = Step(loop[n - 1])
      BY <1>5, <2>1
    <2>3. loop[n - 1] \in D
      BY <1>8
    <2> QED BY <1>2, <2>1, <2>2, <2>3
  <1>9. NumTasks \in good
    <2> HIDE DEF good
    <2> QED BY <1>1, <1>7, <1>8, UpTo
  <1> QED BY <1>6, <1>9 DEF D

\* recalc.ts: when the queue has gone through all tasks, the dates respect every
\* dependency and no task starts later than it must.
THEOREM RecalculatedIsRight ==
    ASSUME NEW rs \in [Tasks -> TaskRows], NEW d \in Networks,
           Recalculated(rs, d).processed = Tasks
    PROVE  /\ Recalculated(rs, d).at \in [Tasks -> Int]
           /\ Respected(rs, d, Recalculated(rs, d).at)
           /\ \A t \in Tasks : Tight(rs, d, Recalculated(rs, d).at, t)
  <1> DEFINE l == Recalculated(rs, d)
             at == l.at
  <1>1. l \in Turns(rs, d) /\ l.processed = Tasks
    BY RecalculatedIsATurn
  <1> HIDE DEF l
  <1>2. /\ at \in [Tasks -> Int]
        /\ \A p \in Tasks : \A s \in Succs(d, p) : at[s] >= MinStart(rs, d, at, p, s)
        /\ \A s \in Tasks : \/ at[s] = 0
                            \/ \E p \in Preds(d, s) \cap Tasks : at[s] = MinStart(rs, d, at, p, s)
    BY <1>1 DEF Turns, Loop, LoopOk
  <1> HIDE DEF at
  <1>3. ASSUME NEW p \in Tasks, NEW s \in Tasks, Edge(d, p, s)
        PROVE  /\ at[s] \in Int /\ MinStart(rs, d, at, p, s) \in Int
               /\ Margin(rs, d, at, p, s) = at[s] - MinStart(rs, d, at, p, s)
    BY <1>2, <1>3, MarginIsDistance, MinStartInteger
  <1>4. Respected(rs, d, at)
    <2> SUFFICES ASSUME NEW e \in Edges(d) PROVE Margin(rs, d, at, e[1], e[2]) >= 0
      BY DEF Respected
    <2>1. e[1] \in Tasks /\ e[2] \in Tasks /\ Edge(d, e[1], e[2])
      BY DEF Edges, Pairs
    <2>2. e[2] \in Succs(d, e[1])
      BY <2>1 DEF Succs
    <2> QED BY <1>2, <1>3, <2>1, <2>2
  <1>5. ASSUME NEW t \in Tasks PROVE Tight(rs, d, at, t)
    <2>1. CASE at[t] = 0
      BY <2>1 DEF Tight
    <2>2. CASE at[t] # 0
      <3>1. PICK p \in Preds(d, t) : at[t] = MinStart(rs, d, at, p, t)
        BY <1>2, <2>2
      <3>2. p \in Tasks /\ Edge(d, p, t)
        BY DEF Preds
      <3>3. Margin(rs, d, at, p, t) = 0
        BY <1>3, <3>1, <3>2
      <3> QED BY <3>3 DEF Tight
    <2> QED BY <2>1, <2>2
  <1> QED BY <1>2, <1>4, <1>5 DEF at, l
===============================================================================
