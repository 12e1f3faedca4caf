--------------------------- MODULE CriticalPathProofs ---------------------------
(***************************************************************************)
(* Theorems about ScheduleRecalc and CriticalPath, for any finite set of    *)
(* tasks, durations, lags, planned starts and networks.                     *)
(***************************************************************************)
EXTENDS CriticalPath, ScheduleNetworkProofs

-----------------------------------------------------------------------------
(* ScheduleRecalc: types *)

LEMMA InitTypes == RecalcInit => RecalcTypeOK
  <1> SUFFICES ASSUME RecalcInit PROVE RecalcTypeOK
    OBVIOUS
  <1>1. rows \in [Tasks -> TaskRows]
    BY RecalcAssumption DEF RecalcInit, TaskRows
  <1>2. NoNetwork \in Networks
    BY DEF NoNetwork, Networks, Pairs
  <1> QED BY <1>1, <1>2 DEF RecalcInit, RecalcTypeOK

LEMMA NextTypes == RecalcTypeOK /\ [RecalcNext]_recalcVars => RecalcTypeOK'
  <1> SUFFICES ASSUME RecalcTypeOK, [RecalcNext]_recalcVars PROVE RecalcTypeOK'
    OBVIOUS
  <1> USE DEF RecalcTypeOK
  <1>1. ASSUME NEW p \in Tasks, NEW s \in Tasks, NEW k \in Kinds, InsertDependency(p, s, k)
        PROVE  RecalcTypeOK'
    BY <1>1, InsertedIsANetwork DEF InsertDependency, Insertable
  <1>2. CASE RecalculateScheduleDates
    <2>1. InDegrees(dep) \in [Tasks -> Int]
      <3>1. ASSUME NEW t \in Tasks PROVE Cardinality(Preds(dep, t)) \in Nat
        <4>1. Preds(dep, t) \in SUBSET Tasks
          BY DEF Preds
        <4> QED BY <4>1, FS_Subset, FS_CardinalityType, NetworkAssumption
      <3> QED BY <3>1 DEF InDegrees
    <2> QED BY <1>2, <2>1 DEF RecalculateScheduleDates, Free
  <1>3. ASSUME NEW t \in Tasks, Dequeue(t) PROVE RecalcTypeOK'
    <2>1. /\ startIdx' = Pushed(rows, dep, startIdx, t) /\ indegree' = Counted(dep, indegree, t)
          /\ queue' = (queue \ {t}) \cup Released(dep, indegree, t)
          /\ processed' = processed \cup {t}
          /\ rows' = rows /\ dep' = dep /\ phase' = phase
      BY <1>3 DEF Dequeue
    <2>2. startIdx' \in [Tasks -> Int] /\ indegree' \in [Tasks -> Int] /\ queue' \subseteq Tasks
      BY <2>1, LoopTypes
    <2> QED BY <2>1, <2>2
  <1>4. CASE ThrowCycle
    BY <1>4 DEF ThrowCycle
  <1>5. CASE Return
    BY <1>5 DEF Return
  <1>6. CASE UNCHANGED recalcVars
    BY <1>6 DEF recalcVars
  <1> QED BY <1>1, <1>2, <1>3, <1>4, <1>5, <1>6 DEF RecalcNext

-----------------------------------------------------------------------------
(* ScheduleRecalc: the loop *)

LEMMA LoopStarts ==
    ASSUME RecalcInv, RecalculateScheduleDates
    PROVE  LoopInvariant'
  <1>1. /\ dep' = dep /\ rows' = rows /\ phase' = "loop" /\ processed' = {}
        /\ startIdx' = [t \in Tasks |-> 0] /\ indegree' = InDegrees(dep) /\ queue' = Free(dep)
    BY DEF RecalculateScheduleDates
  <1>2. LoopOk(rows, dep, startIdx', indegree', queue', processed')
    BY <1>1, LoopBegins
  <1> QED BY <1>1, <1>2 DEF LoopInvariant, LoopOk

LEMMA LoopTurns ==
    ASSUME RecalcInv, NEW t \in Tasks, Dequeue(t)
    PROVE  LoopInvariant'
  <1>1. /\ dep' = dep /\ rows' = rows /\ phase' = "loop" /\ phase = "loop"
        /\ t \in queue /\ processed' = processed \cup {t}
        /\ startIdx' = Pushed(rows, dep, startIdx, t) /\ indegree' = Counted(dep, indegree, t)
        /\ queue' = (queue \ {t}) \cup Released(dep, indegree, t)
    BY DEF Dequeue
  <1>2. LoopOk(rows, dep, startIdx, indegree, queue, processed)
    BY <1>1 DEF RecalcInv, LoopInvariant, LoopOk
  <1>3. LoopOk(rows, dep, startIdx', indegree', queue', processed')
    BY <1>1, <1>2, LoopGoesOn DEF RecalcInv, RecalcTypeOK
  <1> QED BY <1>1, <1>3 DEF LoopInvariant, LoopOk

LEMMA NextLoop == RecalcInv /\ [RecalcNext]_recalcVars => LoopInvariant'
  <1> SUFFICES ASSUME RecalcInv, [RecalcNext]_recalcVars PROVE LoopInvariant'
    OBVIOUS
  <1>1. ASSUME NEW p \in Tasks, NEW s \in Tasks, NEW k \in Kinds, InsertDependency(p, s, k)
        PROVE  LoopInvariant'
    BY <1>1 DEF InsertDependency, LoopInvariant
  <1>2. CASE ThrowCycle
    BY <1>2 DEF ThrowCycle, RecalcInv, LoopInvariant
  <1>3. CASE Return
    BY <1>3 DEF Return, RecalcInv, LoopInvariant
  <1>4. CASE UNCHANGED recalcVars
    BY <1>4 DEF recalcVars, RecalcInv, LoopInvariant
  <1> QED BY <1>1, <1>2, <1>3, <1>4, LoopStarts, LoopTurns DEF RecalcNext

-----------------------------------------------------------------------------
(* ScheduleRecalc: theorems *)

\* The loop's invariant holds of every reachable state.
THEOREM RecalcInvariance == RecalcSpec => []RecalcInv
  <1>1. RecalcInit => RecalcInv
    BY InitTypes DEF RecalcInit, RecalcInv, LoopInvariant
  <1>2. RecalcInv /\ [RecalcNext]_recalcVars => RecalcInv'
    BY NextTypes, NextLoop DEF RecalcInv
  <1> QED BY <1>1, <1>2, PTL DEF RecalcSpec

\* Whatever the network and the order in which tasks leave the queue, the dates
\* returned respect every dependency.
THEOREM DependenciesAreRespected == RecalcSpec => []DependenciesRespected
  <1>1. RecalcInv => DependenciesRespected
    <2> SUFFICES ASSUME RecalcInv, phase = "done", NEW e \in Edges(dep)
                 PROVE  Margin(rows, dep, startIdx, e[1], e[2]) >= 0
      BY DEF DependenciesRespected, Respected
    <2>1. e[1] \in Tasks /\ e[2] \in Tasks /\ Edge(dep, e[1], e[2])
      BY DEF Edges, Pairs
    <2>2. e[2] \in Succs(dep, e[1]) /\ processed = Tasks
      BY <2>1 DEF Succs, RecalcInv, LoopInvariant
    <2>3. startIdx[e[2]] >= MinStart(rows, dep, startIdx, e[1], e[2])
      BY <2>1, <2>2 DEF RecalcInv, LoopInvariant
    <2>4. startIdx[e[2]] \in Int /\ MinStart(rows, dep, startIdx, e[1], e[2]) \in Int
      BY <2>1, MinStartInteger DEF RecalcInv, RecalcTypeOK
    <2>5. Margin(rows, dep, startIdx, e[1], e[2])
            = startIdx[e[2]] - MinStart(rows, dep, startIdx, e[1], e[2])
      BY <2>1, MarginIsDistance DEF RecalcInv, RecalcTypeOK
    <2> QED BY <2>3, <2>4, <2>5
  <1> QED BY <1>1, RecalcInvariance, PTL

\* They are the earliest: each task starts with the schedule or where one of its
\* dependencies puts it.
THEOREM NothingIsPushedTooFar == RecalcSpec => []NothingPushedTooFar
  <1>1. RecalcInv => NothingPushedTooFar
    <2> SUFFICES ASSUME RecalcInv, phase = "done", NEW t \in Tasks, startIdx[t] # 0
                 PROVE  \E p \in Preds(dep, t) : Margin(rows, dep, startIdx, p, t) = 0
      BY DEF NothingPushedTooFar, Tight
    <2>1. PICK p \in Preds(dep, t) : startIdx[t] = MinStart(rows, dep, startIdx, p, t)
      BY DEF RecalcInv, LoopInvariant
    <2>2. p \in Tasks /\ Edge(dep, p, t)
      BY DEF Preds
    <2>3. Margin(rows, dep, startIdx, p, t) = startIdx[t] - MinStart(rows, dep, startIdx, p, t)
      BY <2>2, MarginIsDistance DEF RecalcInv, RecalcTypeOK
    <2> QED BY <2>1, <2>3 DEF RecalcInv, RecalcTypeOK
  <1> QED BY <1>1, RecalcInvariance, PTL

\* The loop ends with tasks left over exactly when the dependencies are cyclic.
THEOREM CyclesAreReportedExactly == RecalcSpec => []CycleReportedExactly
  <1>1. RecalcInv => CycleReportedExactly
    <2> SUFFICES ASSUME RecalcInv PROVE CycleReportedExactly
      OBVIOUS
    <2>1. ASSUME phase = "cycle" PROVE HasCycle(dep)
      <3> DEFINE S == Tasks \ processed
      <3>1. queue = {} /\ processed # Tasks /\ processed \subseteq Tasks
        BY <2>1 DEF RecalcInv, RecalcTypeOK, LoopInvariant
      <3>2. ASSUME NEW t \in S PROVE \E p \in S : Edge(dep, p, t)
        <4>1. ~(Preds(dep, t) \subseteq processed)
          BY <2>1, <3>1 DEF RecalcInv, LoopInvariant
        <4> QED BY <4>1 DEF Preds
      <3>3. S # {} /\ S \in SUBSET Tasks
        BY <3>1
      <3> QED BY <3>2, <3>3 DEF HasCycle, Circular
    <2>2. ASSUME phase = "done" PROVE ~HasCycle(dep)
      <3>1. processed = Tasks /\ \A S \in SUBSET Tasks : Circular(dep, S) => S \cap processed = {}
        BY <2>2 DEF RecalcInv, LoopInvariant
      <3> QED BY <3>1 DEF HasCycle, Circular
    <2> QED BY <2>1, <2>2 DEF CycleReportedExactly
  <1> QED BY <1>1, RecalcInvariance, PTL

\* The topological order, which the critical path needs, and the check before an
\* insertion find a cycle exactly when there is one: all three algorithms agree.
THEOREM CycleChecksAreExact == RecalcSpec => []CycleChecksExact
  <1>1. RecalcInv => CycleChecksExact
    <2> SUFFICES ASSUME RecalcInv PROVE CycleChecksExact
      OBVIOUS
    <2>1. TopologicallySorted(dep) = Tasks <=> ~HasCycle(dep)
      BY TopologicalOrderIsExact
    <2>2. ASSUME ~HasCycle(dep), NEW p \in Tasks, NEW s \in Tasks, Insertable(dep, p, s)
          PROVE  DependencyWouldCreateCycle(dep, p, s)
                    <=> HasCycle(Inserted(dep, p, s, [type |-> "FS", lag |-> 0]))
      BY <2>2, SearchIsExact DEF RecalcInv, RecalcTypeOK
    <2> QED BY <2>1, <2>2 DEF CycleChecksExact
  <1> QED BY <1>1, RecalcInvariance, PTL

-----------------------------------------------------------------------------
(* Arithmetic of a dependency *)

LEMMA DependencyDates ==
    ASSUME CpmTypeOK, NEW p \in Tasks, NEW s \in Tasks, Edge(dep, p, s)
    PROVE  /\ ForwardConstraintStart(p, s) \in Int
           /\ BackwardConstraintFinish(p, s) \in Int
           /\ Slack(earlyStart, p, s) = earlyStart[s] - ForwardConstraintStart(p, s)
           /\ Slack(lateStart, p, s) = BackwardConstraintFinish(p, s) - LateFinish(p)
           /\ BackwardConstraintFinish(p, s) - EarlyFinish(p)
                = (lateStart[s] - earlyStart[s]) + (earlyStart[s] - ForwardConstraintStart(p, s))
  <1>1. /\ dep[<<p, s>>].type \in Types /\ dep[<<p, s>>].lag \in Int
        /\ earlyStart[p] \in Int /\ earlyStart[s] \in Int
        /\ lateStart[p] \in Int /\ lateStart[s] \in Int
        /\ rows[p].dur \in Int /\ rows[s].dur \in Int
    BY EdgeFacts, DurationFacts DEF CpmTypeOK, RecalcTypeOK
  <1> USE DEF ForwardConstraintStart, BackwardConstraintFinish, Slack, LateFinish, EarlyFinish, Dur
  <1>2. CASE dep[<<p, s>>].type = "FS"
    BY <1>1, <1>2
  <1>3. CASE dep[<<p, s>>].type = "SS"
    BY <1>1, <1>3
  <1>4. CASE dep[<<p, s>>].type = "FF"
    BY <1>1, <1>4
  <1>5. CASE dep[<<p, s>>].type = "SF"
    BY <1>1, <1>5
  <1> QED BY <1>1, <1>2, <1>3, <1>4, <1>5 DEF Types

\* The continuous axis asks for no later start than whole days do, but for a
\* milestone that finishes with a task of some days.
LEMMA NoLaterThanRecalculated ==
    ASSUME CpmTypeOK, NEW p \in Tasks, NEW s \in Tasks, Edge(dep, p, s),
           ValidTask(rows[p]), ValidTask(rows[s]), NoMilestoneDelayed,
           anchor + earlyStart[p] = startIdx[p]
    PROVE  anchor + ForwardConstraintStart(p, s) <= MinStart(rows, dep, startIdx, p, s)
  <1>1. /\ dep[<<p, s>>].type \in Types /\ dep[<<p, s>>].lag \in Int
        /\ earlyStart[p] \in Int /\ anchor \in Int /\ startIdx[p] \in Int
        /\ rows[p].dur \in Nat /\ rows[s].dur \in Nat
        /\ rows[p].milestone => rows[p].dur = 0
        /\ rows[s].milestone => rows[s].dur = 0
        /\ rows[p] \in TaskRows /\ rows[s] \in TaskRows
    BY EdgeFacts DEF CpmTypeOK, RecalcTypeOK, TaskRows
  <1>2. <<p, s>> \in Edges(dep)
    BY DEF Edges, Pairs
  <1>3. ~(dep[<<p, s>>].type = "FF" /\ rows[s].milestone /\ ~rows[p].milestone)
    BY <1>2 DEF NoMilestoneDelayed
  <1>4. /\ rows[p].dur = 0 => rows[p].milestone
        /\ rows[s].dur = 0 => rows[s].milestone
    BY <1>1 DEF ValidTask
  <1>5. dep[<<p, s>>].type = "FF" /\ rows[s].dur = 0 => rows[p].dur = 0
    BY <1>1, <1>3, <1>4
  <1> USE DEF ForwardConstraintStart, MinStart, EarlyFinish, Dur, EndOf, EndIndex, Extra
  <1>6. CASE dep[<<p, s>>].type = "FS"
    BY <1>1, <1>6
  <1>7. CASE dep[<<p, s>>].type = "SS"
    BY <1>1, <1>7
  <1>8. CASE dep[<<p, s>>].type = "FF"
    <2> DEFINE lag == dep[<<p, s>>].lag  dp == rows[p].dur  ds == rows[s].dur
    <2>1. /\ ForwardConstraintStart(p, s) = earlyStart[p] + dp + lag - ds
          /\ MinStart(rows, dep, startIdx, p, s) = EndOf(rows, startIdx, p) + lag - Extra(rows, s)
      BY <1>8
    <2>2. EndOf(rows, startIdx, p) = startIdx[p] + (IF dp > 1 THEN dp - 1 ELSE 0)
      BY <1>1
    <2>3. Extra(rows, s) = IF ds > 1 THEN ds - 1 ELSE 0
      OBVIOUS
    <2>4. lag \in Int /\ dp \in Nat /\ ds \in Nat /\ (ds = 0 => dp = 0)
      BY <1>1, <1>5, <1>8
    <2> HIDE DEF ForwardConstraintStart, MinStart, EarlyFinish, Dur, EndOf, EndIndex, Extra, lag, dp, ds
    <2> QED BY <1>1, <2>1, <2>2, <2>3, <2>4
  <1>9. CASE dep[<<p, s>>].type = "SF"
    BY <1>1, <1>9
  <1> QED BY <1>1, <1>6, <1>7, <1>8, <1>9 DEF Types

LEMMA BoundsAreIntegers ==
    ASSUME CpmTypeOK, NEW t \in Tasks
    PROVE  StartBounds(t) \subseteq Int /\ FinishBounds(t) \subseteq Int
  <1>1. \A p \in Preds(dep, t) : ForwardConstraintStart(p, t) \in Int
    BY DependencyDates DEF Preds
  <1>2. \A s \in Succs(dep, t) : BackwardConstraintFinish(t, s) \in Int
    BY DependencyDates DEF Succs
  <1> QED BY <1>1, <1>2 DEF StartBounds, FinishBounds, Offset, CpmTypeOK


-----------------------------------------------------------------------------
(* The passes *)

LEMMA CpmInitInv == CpmInit => CpmInv
  <1> SUFFICES ASSUME CpmInit PROVE CpmInv
    OBVIOUS
  <1>1. RecalcTypeOK /\ RecalcInv
    BY InitTypes DEF CpmInit, RecalcInit, RecalcInv, LoopInvariant
  <1>2. CpmTypeOK
    BY <1>1 DEF CpmInit, CpmTypeOK
  <1>3. PassInvariant
    BY DEF CpmInit, PassInvariant, EarlyTimed, LateTimed
  <1> QED BY <1>1, <1>2, <1>3 DEF CpmInv

LEMMA RecalculationInv ==
    ASSUME CpmInv, Recalculation
    PROVE  CpmInv'
  <1>1. [RecalcNext]_recalcVars /\ pass' = "none" /\ UNCHANGED cpmVars
    BY DEF Recalculation, cpmVars
  <1>2. RecalcInv'
    BY <1>1, NextTypes, NextLoop DEF CpmInv, RecalcInv
  <1>3. CpmTypeOK'
    BY <1>1, <1>2 DEF CpmInv, CpmTypeOK, RecalcInv, cpmVars
  <1>4. pass' = "none" /\ timed' = {}
    BY <1>1 DEF CpmInv, PassInvariant, cpmVars, Recalculation
  <1>5. EarlyTimed' = {} /\ LateTimed' = {}
    BY <1>4 DEF EarlyTimed, LateTimed
  <1>7. pass' \notin {"forward", "backward", "done"}
    BY <1>4
  <1>6. PassInvariant'
    BY <1>4, <1>5, <1>7 DEF PassInvariant
  <1> QED BY <1>2, <1>3, <1>6 DEF CpmInv

\* The calculation of the dates is over when the passes run.
LEMMA RecalcStill ==
    ASSUME CpmInv, UNCHANGED recalcVars
    PROVE  /\ RecalcInv' /\ RecalcTypeOK'
           /\ rows' = rows /\ dep' = dep /\ phase' = phase /\ startIdx' = startIdx
  BY NextTypes, NextLoop DEF CpmInv, RecalcInv, recalcVars

LEMMA RejectInv ==
    ASSUME CpmInv, RejectNetwork
    PROVE  CpmInv'
  <1>1. RecalcInv' /\ CpmTypeOK'
    BY RecalcStill DEF RejectNetwork, CpmInv, CpmTypeOK
  <1>2. pass' \in {"invalid", "cycle"}
    BY DEF RejectNetwork
  <1>3. PassInvariant'
    BY <1>2 DEF PassInvariant, EarlyTimed, LateTimed
  <1> QED BY <1>1, <1>3 DEF CpmInv

LEMMA RunInv ==
    ASSUME CpmInv, RunCpmOnNetwork
    PROVE  CpmInv'
  <1>1. RecalcInv' /\ RecalcTypeOK' /\ rows' = rows /\ phase' = phase /\ startIdx' = startIdx
    BY RecalcStill DEF RunCpmOnNetwork
  <1>2. planned' \in [Tasks -> Int]
    BY StartsAssumption DEF RunCpmOnNetwork, CpmInv, CpmTypeOK, RecalcTypeOK
  <1>3. pass' = "forward" /\ timed' = {} /\ anchor' \in Int
    <2>1. timed = {}
      BY DEF RunCpmOnNetwork, CpmInv, PassInvariant
    <2> QED BY <1>2, <2>1 DEF RunCpmOnNetwork
  <1>4. CpmTypeOK'
    BY <1>1, <1>2, <1>3 DEF CpmInv, CpmTypeOK, RunCpmOnNetwork
  <1>5. EarlyTimed' = {} /\ LateTimed' = {}
    BY <1>3 DEF EarlyTimed, LateTimed
  <1>6. PassInvariant'
    BY <1>1, <1>3, <1>5 DEF PassInvariant, RunCpmOnNetwork
  <1> QED BY <1>1, <1>4, <1>6 DEF CpmInv


\* A task is timed once, after its predecessors: no bound of a timed task moves.
LEMMA ForwardInv ==
    ASSUME CpmInv, NEW t \in Tasks, ForwardPass(t)
    PROVE  CpmInv'
  <1> USE DEF CpmInv
  <1>1. /\ RecalcInv' /\ RecalcTypeOK'
        /\ rows' = rows /\ dep' = dep /\ phase' = phase /\ startIdx' = startIdx
    BY RecalcStill DEF ForwardPass
  <1>2. PICK es \in StartBounds(t) :
            (\A b \in StartBounds(t) : b <= es) /\ earlyStart' = [earlyStart EXCEPT ![t] = es]
    BY DEF ForwardPass
  <1>3. /\ pass = "forward" /\ pass' = "forward" /\ timed' = timed \cup {t}
        /\ t \notin timed /\ Preds(dep, t) \subseteq timed
        /\ planned' = planned /\ anchor' = anchor /\ projectEnd' = projectEnd /\ lateStart' = lateStart
    BY DEF ForwardPass
  <1>4. es \in Int /\ earlyStart \in [Tasks -> Int] /\ timed \subseteq Tasks
    BY BoundsAreIntegers DEF CpmTypeOK
  <1>5. CpmTypeOK'
    BY <1>1, <1>2, <1>3, <1>4 DEF CpmTypeOK
  <1>6. EarlyTimed = timed /\ EarlyTimed' = timed \cup {t} /\ LateTimed' = {}
    BY <1>3 DEF EarlyTimed, LateTimed
  <1>7. earlyStart'[t] = es /\ \A u \in timed : earlyStart'[u] = earlyStart[u]
    BY <1>2, <1>3, <1>4
  <1>8. ASSUME NEW u \in EarlyTimed' PROVE Preds(dep, u) \subseteq timed
    BY <1>3, <1>6 DEF PassInvariant
  <1>9. ASSUME NEW u \in EarlyTimed' PROVE StartBounds(u)' = StartBounds(u)
    <2>1. ASSUME NEW p \in Preds(dep, u) PROVE ForwardConstraintStart(p, u)' = ForwardConstraintStart(p, u)
      <3>1. earlyStart'[p] = earlyStart[p]
        BY <1>7, <1>8, <2>1
      <3> QED BY <1>1, <3>1 DEF ForwardConstraintStart, EarlyFinish, Dur
    <2>2. Preds(dep, u)' = Preds(dep, u) /\ Offset(u)' = Offset(u)
      BY <1>1, <1>3 DEF Preds, Edge, Offset
    <2> QED BY <2>1, <2>2 DEF StartBounds
  <1>10. ASSUME NEW u \in EarlyTimed'
         PROVE  /\ earlyStart'[u] \in StartBounds(u)
                /\ \A b \in StartBounds(u) : b <= earlyStart'[u]
    BY <1>2, <1>6, <1>7 DEF PassInvariant
  <1>11. ASSUME phase = "done", NoMilestoneDelayed
         PROVE  anchor + es = startIdx[t]
    <2>1. /\ \A u \in Tasks : ValidTask(rows[u])
          /\ planned = startIdx /\ \A u \in timed : anchor + earlyStart[u] = startIdx[u]
      BY <1>3, <1>6, <1>11 DEF PassInvariant
    <2>2. startIdx[t] \in Int /\ anchor \in Int
      BY DEF CpmTypeOK, RecalcTypeOK
    <2>3. Offset(t) = startIdx[t] - anchor /\ Offset(t) <= es
      BY <1>2, <2>1 DEF Offset, StartBounds
    <2>4. CASE es = Offset(t)
      BY <1>4, <2>2, <2>3, <2>4
    <2>5. ASSUME NEW p \in Preds(dep, t), es = ForwardConstraintStart(p, t)
          PROVE  anchor + es <= startIdx[t]
      <3>1. p \in Tasks /\ Edge(dep, p, t) /\ p \in timed /\ t \in Succs(dep, p)
        BY <1>3, <2>5 DEF Preds, Succs
      <3>2. anchor + es <= MinStart(rows, dep, startIdx, p, t)
        BY <1>11, <2>1, <2>5, <3>1, NoLaterThanRecalculated
      <3>3. MinStart(rows, dep, startIdx, p, t) <= startIdx[t]
        BY <1>11, <3>1 DEF RecalcInv, LoopInvariant
      <3>4. MinStart(rows, dep, startIdx, p, t) \in Int
        BY <3>1, MinStartInteger DEF CpmTypeOK, RecalcTypeOK
      <3> QED BY <1>4, <2>2, <3>2, <3>3, <3>4
    <2> QED BY <1>4, <2>2, <2>3, <2>4, <2>5 DEF StartBounds
  <1>12. phase' = "done" /\ NoMilestoneDelayed' => phase = "done" /\ NoMilestoneDelayed
    BY <1>1 DEF NoMilestoneDelayed, Edges, Edge
  <1>13. phase' = "done" /\ NoMilestoneDelayed' =>
            \A u \in EarlyTimed' : anchor' + earlyStart'[u] = startIdx'[u]
    BY <1>1, <1>3, <1>6, <1>7, <1>11, <1>12 DEF PassInvariant
  <1>14. \A u \in EarlyTimed' : Preds(dep, u)' \subseteq EarlyTimed'
    <2>1. \A u \in EarlyTimed' : Preds(dep, u)' = Preds(dep, u)
      BY <1>1 DEF Preds, Edge
    <2> QED BY <1>6, <1>8, <2>1
  <1>15. \A u \in EarlyTimed' : /\ earlyStart'[u] \in StartBounds(u)'
                                /\ \A b \in StartBounds(u)' : b <= earlyStart'[u]
    BY <1>9, <1>10
  <1>16. phase' \in {"edit", "done"} /\ (\A u \in Tasks : ValidTask(rows'[u])) /\ (phase' = "done" => planned' = startIdx')
    BY <1>1, <1>3 DEF PassInvariant
  <1>17. PassInvariant'
    BY <1>3, <1>6, <1>13, <1>14, <1>15, <1>16 DEF PassInvariant
  <1> QED BY <1>1, <1>5, <1>17

\* The early dates are final when the pass turns back.
LEMMA TurnBackInv ==
    ASSUME CpmInv, TurnBack
    PROVE  CpmInv'
  <1> USE DEF CpmInv
  <1>1. /\ RecalcInv' /\ RecalcTypeOK'
        /\ rows' = rows /\ dep' = dep /\ phase' = phase /\ startIdx' = startIdx
    BY RecalcStill DEF TurnBack
  <1>2. PICK t \in Tasks : (\A u \in Tasks : EarlyFinish(u) <= EarlyFinish(t)) /\ projectEnd' = EarlyFinish(t)
    BY DEF TurnBack
  <1>3. /\ pass = "forward" /\ timed = Tasks /\ pass' = "backward" /\ timed' = {}
        /\ planned' = planned /\ anchor' = anchor /\ earlyStart' = earlyStart /\ lateStart' = lateStart
    BY DEF TurnBack
  <1>4. EarlyFinish(t) \in Int
    BY DEF EarlyFinish, Dur, CpmTypeOK, RecalcTypeOK, TaskRows
  <1>5. CpmTypeOK'
    BY <1>1, <1>2, <1>3, <1>4 DEF CpmTypeOK
  <1>6. EarlyTimed = Tasks /\ EarlyTimed' = Tasks /\ LateTimed' = {}
    BY <1>3 DEF EarlyTimed, LateTimed
  <1>7. \A u \in Tasks : EarlyFinish(u)' = EarlyFinish(u)
    BY <1>1, <1>3 DEF EarlyFinish, Dur
  <1>8. \A u \in Tasks : StartBounds(u)' = StartBounds(u) /\ Preds(dep, u)' = Preds(dep, u)
    BY <1>1, <1>3 DEF StartBounds, Offset, Preds, Edge, ForwardConstraintStart, EarlyFinish, Dur
  <1>9. NoMilestoneDelayed' <=> NoMilestoneDelayed
    BY <1>1 DEF NoMilestoneDelayed, Edges, Edge
  <1>10. PassInvariant'
    BY <1>1, <1>2, <1>3, <1>6, <1>7, <1>8, <1>9 DEF PassInvariant
  <1> QED BY <1>1, <1>5, <1>10

\* Backward, a task leaves every timed successor its late date, and has itself
\* no later an early date than a late one.
LEMMA BackwardInv ==
    ASSUME CpmInv, NEW t \in Tasks, BackwardPass(t)
    PROVE  CpmInv'
  <1> USE DEF CpmInv
  <1>1. /\ RecalcInv' /\ RecalcTypeOK'
        /\ rows' = rows /\ dep' = dep /\ phase' = phase /\ startIdx' = startIdx
    BY RecalcStill DEF BackwardPass
  <1>2. PICK lf \in FinishBounds(t) :
            (\A b \in FinishBounds(t) : lf <= b) /\ lateStart' = [lateStart EXCEPT ![t] = lf - Dur(t)]
    BY DEF BackwardPass
  <1>3. /\ pass = "backward" /\ pass' = "backward" /\ timed' = timed \cup {t}
        /\ t \notin timed /\ Succs(dep, t) \subseteq timed
        /\ planned' = planned /\ anchor' = anchor /\ projectEnd' = projectEnd /\ earlyStart' = earlyStart
    BY DEF BackwardPass
  <1>4. lf \in Int /\ lateStart \in [Tasks -> Int] /\ timed \subseteq Tasks /\ Dur(t) \in Int
    BY BoundsAreIntegers DEF CpmTypeOK, RecalcTypeOK, TaskRows, Dur
  <1>5. CpmTypeOK'
    BY <1>1, <1>2, <1>3, <1>4 DEF CpmTypeOK
  <1>6. /\ EarlyTimed = Tasks /\ EarlyTimed' = Tasks
        /\ LateTimed = timed /\ LateTimed' = timed \cup {t}
    BY <1>3 DEF EarlyTimed, LateTimed
  <1>7. lateStart'[t] = lf - Dur(t) /\ \A u \in timed : lateStart'[u] = lateStart[u]
    BY <1>2, <1>3, <1>4
  <1>8. ASSUME NEW u \in LateTimed' PROVE Succs(dep, u) \subseteq timed
    BY <1>3, <1>6 DEF PassInvariant
  <1>9. ASSUME NEW u \in LateTimed' PROVE FinishBounds(u)' = FinishBounds(u)
    <2>1. ASSUME NEW s \in Succs(dep, u)
          PROVE  BackwardConstraintFinish(u, s)' = BackwardConstraintFinish(u, s)
      <3>1. lateStart'[s] = lateStart[s]
        BY <1>7, <1>8, <2>1
      <3> QED BY <1>1, <3>1 DEF BackwardConstraintFinish, LateFinish, Dur
    <2>2. Succs(dep, u)' = Succs(dep, u)
      BY <1>1 DEF Succs, Edge
    <2> QED BY <1>3, <2>1, <2>2 DEF FinishBounds
  <1>10. LateFinish(t)' = lf /\ \A u \in timed : LateFinish(u)' = LateFinish(u)
    BY <1>1, <1>4, <1>7 DEF LateFinish, Dur
  <1>11. EarlyFinish(t) <= lf
    <2>1. CASE lf = projectEnd
      BY <1>3, <2>1 DEF PassInvariant
    <2>2. ASSUME NEW s \in Succs(dep, t), lf = BackwardConstraintFinish(t, s)
          PROVE  EarlyFinish(t) <= lf
      <3>1. s \in Tasks /\ Edge(dep, t, s) /\ s \in timed /\ t \in Preds(dep, s)
        BY <1>3, <2>2 DEF Succs, Preds
      <3>2. earlyStart[s] <= lateStart[s]
        BY <1>6, <3>1 DEF PassInvariant
      <3>3. ForwardConstraintStart(t, s) <= earlyStart[s]
        BY <1>6, <3>1 DEF PassInvariant, StartBounds
      <3>4. /\ ForwardConstraintStart(t, s) \in Int /\ earlyStart[s] \in Int /\ lateStart[s] \in Int
            /\ EarlyFinish(t) \in Int /\ BackwardConstraintFinish(t, s) \in Int
        BY <3>1, DependencyDates DEF CpmTypeOK, RecalcTypeOK, TaskRows, EarlyFinish, Dur
      <3>5. BackwardConstraintFinish(t, s) - EarlyFinish(t)
              = (lateStart[s] - earlyStart[s]) + (earlyStart[s] - ForwardConstraintStart(t, s))
        BY <3>1, DependencyDates
      <3> QED BY <2>2, <3>2, <3>3, <3>4, <3>5
    <2> QED BY <1>2, <2>1, <2>2 DEF FinishBounds
  <1>12. earlyStart[t] <= lateStart'[t]
    BY <1>4, <1>7, <1>11 DEF EarlyFinish, CpmTypeOK
  <1>13. ASSUME NEW u \in LateTimed'
         PROVE  /\ Succs(dep, u)' \subseteq LateTimed'
                /\ LateFinish(u)' \in FinishBounds(u)'
                /\ \A b \in FinishBounds(u)' : LateFinish(u)' <= b
                /\ earlyStart'[u] <= lateStart'[u]
    <2>1. Succs(dep, u)' = Succs(dep, u)
      BY <1>1 DEF Succs, Edge
    <2>2. LateFinish(u)' \in FinishBounds(u) /\ \A b \in FinishBounds(u) : LateFinish(u)' <= b
      BY <1>2, <1>6, <1>10 DEF PassInvariant
    <2>3. earlyStart[u] <= lateStart'[u]
      BY <1>6, <1>7, <1>12 DEF PassInvariant
    <2> QED BY <1>3, <1>6, <1>8, <1>9, <2>1, <2>2, <2>3
  <1>14. \A u \in Tasks : /\ StartBounds(u)' = StartBounds(u) /\ Preds(dep, u)' = Preds(dep, u)
                          /\ EarlyFinish(u)' = EarlyFinish(u)
    BY <1>1, <1>3 DEF StartBounds, Offset, Preds, Edge, ForwardConstraintStart, EarlyFinish, Dur
  <1>15. NoMilestoneDelayed' <=> NoMilestoneDelayed
    BY <1>1 DEF NoMilestoneDelayed, Edges, Edge
  <1>16. /\ \A u \in EarlyTimed' :
              /\ Preds(dep, u)' \subseteq EarlyTimed'
              /\ earlyStart'[u] \in StartBounds(u)'
              /\ \A b \in StartBounds(u)' : b <= earlyStart'[u]
         /\ phase' = "done" /\ NoMilestoneDelayed' =>
              \A u \in EarlyTimed' : anchor' + earlyStart'[u] = startIdx'[u]
    BY <1>1, <1>3, <1>6, <1>14, <1>15 DEF PassInvariant
  <1>17. /\ phase' \in {"edit", "done"} /\ (\A u \in Tasks : ValidTask(rows'[u]))
         /\ phase' = "done" => planned' = startIdx'
         /\ \A u \in Tasks : EarlyFinish(u)' <= projectEnd'
         /\ \E u \in Tasks : EarlyFinish(u)' = projectEnd'
    BY <1>1, <1>3, <1>14 DEF PassInvariant
  <1>18. PassInvariant'
    BY <1>3, <1>13, <1>16, <1>17 DEF PassInvariant
  <1> QED BY <1>1, <1>5, <1>18


LEMMA ReportInv ==
    ASSUME CpmInv, Report
    PROVE  CpmInv'
  <1> USE DEF CpmInv
  <1>1. /\ RecalcInv' /\ RecalcTypeOK'
        /\ rows' = rows /\ dep' = dep /\ phase' = phase /\ startIdx' = startIdx
    BY RecalcStill DEF Report
  <1>2. /\ pass = "backward" /\ pass' = "done" /\ timed = Tasks
        /\ planned' = planned /\ anchor' = anchor /\ projectEnd' = projectEnd
        /\ earlyStart' = earlyStart /\ lateStart' = lateStart /\ timed' = timed
    BY DEF Report
  <1>3. CpmTypeOK'
    BY <1>1, <1>2 DEF CpmTypeOK
  <1>4. EarlyTimed = Tasks /\ EarlyTimed' = Tasks /\ LateTimed = Tasks /\ LateTimed' = Tasks
    BY <1>2 DEF EarlyTimed, LateTimed
  <1>5. \A u \in Tasks : /\ StartBounds(u)' = StartBounds(u) /\ FinishBounds(u)' = FinishBounds(u)
                         /\ Preds(dep, u)' = Preds(dep, u) /\ Succs(dep, u)' = Succs(dep, u)
                         /\ EarlyFinish(u)' = EarlyFinish(u) /\ LateFinish(u)' = LateFinish(u)
    BY <1>1, <1>2 DEF StartBounds, FinishBounds, Offset, Preds, Succs, Edge, ForwardConstraintStart,
                      BackwardConstraintFinish, EarlyFinish, LateFinish, Dur
  <1>6. NoMilestoneDelayed' <=> NoMilestoneDelayed
    BY <1>1 DEF NoMilestoneDelayed, Edges, Edge
  <1>7. PassInvariant'
    BY <1>1, <1>2, <1>4, <1>5, <1>6 DEF PassInvariant
  <1> QED BY <1>1, <1>3, <1>7

LEMMA CpmStutterInv ==
    ASSUME CpmInv, UNCHANGED vars
    PROVE  CpmInv'
  <1> USE DEF CpmInv
  <1>1. UNCHANGED recalcVars /\ UNCHANGED cpmVars
    BY DEF vars
  <1>2. /\ RecalcInv' /\ RecalcTypeOK'
        /\ rows' = rows /\ dep' = dep /\ phase' = phase /\ startIdx' = startIdx
    BY <1>1, RecalcStill
  <1>3. /\ pass' = pass /\ planned' = planned /\ anchor' = anchor /\ projectEnd' = projectEnd
        /\ earlyStart' = earlyStart /\ lateStart' = lateStart /\ timed' = timed
    BY <1>1 DEF cpmVars
  <1>4. CpmTypeOK'
    BY <1>2, <1>3 DEF CpmTypeOK
  <1>5. EarlyTimed' = EarlyTimed /\ LateTimed' = LateTimed
    BY <1>3 DEF EarlyTimed, LateTimed
  <1>6. \A u \in Tasks : /\ StartBounds(u)' = StartBounds(u) /\ FinishBounds(u)' = FinishBounds(u)
                         /\ Preds(dep, u)' = Preds(dep, u) /\ Succs(dep, u)' = Succs(dep, u)
                         /\ EarlyFinish(u)' = EarlyFinish(u) /\ LateFinish(u)' = LateFinish(u)
    BY <1>2, <1>3 DEF StartBounds, FinishBounds, Offset, Preds, Succs, Edge, ForwardConstraintStart,
                      BackwardConstraintFinish, EarlyFinish, LateFinish, Dur
  <1>7. NoMilestoneDelayed' <=> NoMilestoneDelayed
    BY <1>2 DEF NoMilestoneDelayed, Edges, Edge
  <1>8. EarlyTimed \subseteq Tasks /\ LateTimed \subseteq Tasks
    BY DEF EarlyTimed, LateTimed, CpmTypeOK
  <1>9. PassInvariant'
    BY <1>2, <1>3, <1>5, <1>6, <1>7, <1>8 DEF PassInvariant
  <1> QED BY <1>2, <1>4, <1>9

-----------------------------------------------------------------------------
(* Theorems *)

\* The invariant of both calculations holds of every reachable state.
THEOREM CpmInvariance == CpmSpec => []CpmInv
  <1>1. CpmInv /\ [CpmNext]_vars => CpmInv'
    BY RecalculationInv, RejectInv, RunInv, ForwardInv, TurnBackInv, BackwardInv, ReportInv, CpmStutterInv
    DEF CpmNext
  <1> QED BY <1>1, CpmInitInv, PTL DEF CpmSpec

\* What is known of the dates once they are reported.
LEMMA Reported ==
    ASSUME CpmInv, pass = "done"
    PROVE  /\ \A t \in Tasks :
                /\ earlyStart[t] \in Int /\ lateStart[t] \in Int /\ Dur(t) \in Int /\ projectEnd \in Int
                /\ EarlyFinish(t) <= projectEnd /\ LateFinish(t) <= projectEnd
                /\ earlyStart[t] <= lateStart[t]
                /\ earlyStart[t] \in StartBounds(t) /\ LateFinish(t) \in FinishBounds(t)
           /\ \E t \in Tasks : EarlyFinish(t) = projectEnd
           /\ \A p, s \in Tasks : Edge(dep, p, s) =>
                /\ ForwardConstraintStart(p, s) <= earlyStart[s]
                /\ LateFinish(p) <= BackwardConstraintFinish(p, s)
  <1>1. EarlyTimed = Tasks /\ LateTimed = Tasks
    BY DEF EarlyTimed, LateTimed
  <1>2. \A t \in Tasks : /\ earlyStart[t] \in Int /\ lateStart[t] \in Int /\ Dur(t) \in Int
                         /\ projectEnd \in Int
    BY DEF CpmInv, CpmTypeOK, RecalcTypeOK, TaskRows, Dur
  <1>3. \A t \in Tasks : /\ EarlyFinish(t) <= projectEnd /\ LateFinish(t) <= projectEnd
                         /\ earlyStart[t] <= lateStart[t] /\ earlyStart[t] \in StartBounds(t)
                         /\ LateFinish(t) \in FinishBounds(t)
    BY <1>1 DEF CpmInv, PassInvariant, FinishBounds
  <1>4. ASSUME NEW p \in Tasks, NEW s \in Tasks, Edge(dep, p, s)
        PROVE  /\ ForwardConstraintStart(p, s) <= earlyStart[s]
               /\ LateFinish(p) <= BackwardConstraintFinish(p, s)
    <2>1. p \in Preds(dep, s) /\ s \in Succs(dep, p)
      BY <1>4 DEF Preds, Succs
    <2> QED BY <1>1, <2>1 DEF CpmInv, PassInvariant, StartBounds, FinishBounds
  <1>5. \E t \in Tasks : EarlyFinish(t) = projectEnd
    BY DEF CpmInv, PassInvariant
  <1> QED BY <1>2, <1>3, <1>4, <1>5

\* Early and late dates respect every dependency, and no float is negative.
THEOREM DatesAreSchedules == CpmSpec => []EarlyAndLateDatesAreSchedules
  <1>1. CpmInv => EarlyAndLateDatesAreSchedules
    <2> SUFFICES ASSUME CpmInv, pass = "done"
                 PROVE  /\ \A t \in Tasks : TotalFloat(t) >= 0
                        /\ \A e \in Edges(dep) : Slack(earlyStart, e[1], e[2]) >= 0 /\ Slack(lateStart, e[1], e[2]) >= 0
                        /\ \A t \in Tasks : EarlyFinish(t) <= projectEnd /\ LateFinish(t) <= projectEnd
      BY DEF EarlyAndLateDatesAreSchedules
    <2>1. \A t \in Tasks : TotalFloat(t) >= 0
      BY Reported DEF TotalFloat
    <2>2. ASSUME NEW e \in Edges(dep)
          PROVE  Slack(earlyStart, e[1], e[2]) >= 0 /\ Slack(lateStart, e[1], e[2]) >= 0
      <3>1. e[1] \in Tasks /\ e[2] \in Tasks /\ Edge(dep, e[1], e[2])
        BY DEF Edges, Pairs
      <3>2. LateFinish(e[1]) \in Int
        BY <3>1, Reported DEF LateFinish
      <3> QED BY <3>1, <3>2, Reported, DependencyDates DEF CpmInv
    <2> QED BY <2>1, <2>2, Reported
  <1> QED BY <1>1, CpmInvariance, PTL

\* The float of p is at most that of s and the slack between them; it is exactly
\* that much when s gives p its late finish.
LEMMA Room ==
    ASSUME CpmInv, pass = "done", NEW p \in Tasks, NEW s \in Tasks, Edge(dep, p, s)
    PROVE  /\ TotalFloat(p) \in Nat /\ TotalFloat(s) \in Nat /\ Slack(earlyStart, p, s) \in Nat
           /\ Slack(earlyStart, p, s) = earlyStart[s] - ForwardConstraintStart(p, s)
           /\ TotalFloat(p) <= TotalFloat(s) + Slack(earlyStart, p, s)
           /\ LateFinish(p) = BackwardConstraintFinish(p, s) =>
                 TotalFloat(p) = TotalFloat(s) + Slack(earlyStart, p, s)
  <1>1. \A t \in {p, s} : /\ earlyStart[t] \in Int /\ lateStart[t] \in Int /\ Dur(t) \in Int
                          /\ earlyStart[t] <= lateStart[t]
    BY Reported
  <1>2. /\ ForwardConstraintStart(p, s) \in Int /\ BackwardConstraintFinish(p, s) \in Int
        /\ Slack(earlyStart, p, s) = earlyStart[s] - ForwardConstraintStart(p, s)
        /\ BackwardConstraintFinish(p, s) - EarlyFinish(p)
              = (lateStart[s] - earlyStart[s]) + (earlyStart[s] - ForwardConstraintStart(p, s))
    BY DependencyDates DEF CpmInv
  <1>3. ForwardConstraintStart(p, s) <= earlyStart[s] /\ LateFinish(p) <= BackwardConstraintFinish(p, s)
    BY Reported
  <1>4. /\ EarlyFinish(p) = earlyStart[p] + Dur(p) /\ LateFinish(p) = lateStart[p] + Dur(p)
        /\ TotalFloat(p) = lateStart[p] - earlyStart[p] /\ TotalFloat(s) = lateStart[s] - earlyStart[s]
    BY DEF EarlyFinish, LateFinish, TotalFloat
  <1> QED BY <1>1, <1>2, <1>3, <1>4

\* The critical tasks are chains from a planned date to the end of the project:
\* each starts on its planned date or after a critical task that pushes it, and
\* each ends the project or pushes a critical one. Backwards, a tight bound on the
\* start of a critical task leaves its predecessor no room; forwards, the late
\* finish of a task is one of its bounds, and a successor that gives it leaves the
\* task the room it has itself.
THEOREM CriticalTasksAreChains == CpmSpec => []CriticalTasksFormPaths
  <1>1. CpmInv => CriticalTasksFormPaths
    <2> SUFFICES ASSUME CpmInv, pass = "done" PROVE CriticalTasksFormPaths
      BY DEF CriticalTasksFormPaths
    <2>1. PICK t \in Tasks : EarlyFinish(t) = projectEnd
      BY Reported
    <2>2. Critical(t)
      <3>1. /\ earlyStart[t] \in Int /\ lateStart[t] \in Int /\ Dur(t) \in Int /\ projectEnd \in Int
            /\ LateFinish(t) <= projectEnd /\ earlyStart[t] <= lateStart[t]
        BY Reported
      <3> QED BY <2>1, <3>1 DEF Critical, TotalFloat, EarlyFinish, LateFinish
    <2>3. ASSUME NEW u \in Tasks, Critical(u), earlyStart[u] # Offset(u)
          PROVE  \E p \in Preds(dep, u) : Critical(p) /\ Slack(earlyStart, p, u) = 0
      <3>1. PICK p \in Preds(dep, u) : earlyStart[u] = ForwardConstraintStart(p, u)
        BY <2>3, Reported DEF StartBounds
      <3>2. p \in Tasks /\ Edge(dep, p, u)
        BY DEF Preds
      <3>3. /\ TotalFloat(p) \in Nat /\ Slack(earlyStart, p, u) \in Nat
            /\ Slack(earlyStart, p, u) = earlyStart[u] - ForwardConstraintStart(p, u)
            /\ TotalFloat(p) <= TotalFloat(u) + Slack(earlyStart, p, u)
        BY <3>2, Room
      <3>4. TotalFloat(u) = 0 /\ earlyStart[u] \in Int
        BY <2>3, Reported DEF Critical
      <3>5. Slack(earlyStart, p, u) = 0
        BY <3>1, <3>3, <3>4
      <3>6. Critical(p)
        BY <3>3, <3>4, <3>5 DEF Critical
      <3> QED BY <3>5, <3>6
    <2>4. ASSUME NEW u \in Tasks, Critical(u), EarlyFinish(u) # projectEnd
          PROVE  \E s \in Succs(dep, u) : Critical(s) /\ Slack(earlyStart, u, s) = 0
      <3>1. lateStart[u] = earlyStart[u]
        <4>1. lateStart[u] - earlyStart[u] = 0 /\ lateStart[u] \in Int /\ earlyStart[u] \in Int
          BY <2>4, Reported DEF Critical, TotalFloat
        <4> QED BY <4>1
      <3>2. LateFinish(u) # projectEnd
        BY <2>4, <3>1 DEF EarlyFinish, LateFinish
      <3>3. PICK s \in Succs(dep, u) : LateFinish(u) = BackwardConstraintFinish(u, s)
        BY <3>2, Reported DEF FinishBounds
      <3>4. s \in Tasks /\ Edge(dep, u, s)
        BY DEF Succs
      <3>5. /\ TotalFloat(s) \in Nat /\ Slack(earlyStart, u, s) \in Nat
            /\ TotalFloat(u) = TotalFloat(s) + Slack(earlyStart, u, s)
        BY <3>3, <3>4, Room
      <3>6. TotalFloat(s) = 0 /\ Slack(earlyStart, u, s) = 0
        BY <2>4, <3>5 DEF Critical
      <3> QED BY <3>6 DEF Critical
    <2> QED BY <2>1, <2>2, <2>3, <2>4 DEF CriticalTasksFormPaths
  <1> QED BY <1>1, CpmInvariance, PTL

\* Recalculated dates are the early dates, in every network with no delayed milestone.
THEOREM RecalculatedAreEarly == CpmSpec => []RecalculatedDatesAreEarly
  <1>1. CpmInv => RecalculatedDatesAreEarly
    BY DEF CpmInv, PassInvariant, EarlyTimed, RecalculatedDatesAreEarly
  <1> QED BY <1>1, CpmInvariance, PTL

\* A task that starts its free float later moves no other and not the end of the
\* project; a day more does one or the other.
THEOREM FreeFloatIsExact == CpmSpec => []FreeFloatExact
  <1>1. CpmInv => FreeFloatExact
    <2> SUFFICES ASSUME CpmInv, pass = "done", NEW t \in Tasks
                 PROVE  /\ ~(EarlyFinish(t) + FreeFloat(t) > projectEnd)
                        /\ \A s \in Succs(dep, t) :
                              ~(ForwardConstraintStart(t, s) + FreeFloat(t) > earlyStart[s])
                        /\ \/ EarlyFinish(t) + (FreeFloat(t) + 1) > projectEnd
                           \/ \E s \in Succs(dep, t) :
                                 ForwardConstraintStart(t, s) + (FreeFloat(t) + 1) > earlyStart[s]
      BY DEF FreeFloatExact
    <2> DEFINE bounds == {TotalFloat(t)} \cup {Slack(earlyStart, t, s) : s \in Succs(dep, t)}
               least  == CHOOSE b \in bounds : \A c \in bounds : b <= c
    <2>1. /\ earlyStart[t] \in Int /\ lateStart[t] \in Int /\ Dur(t) \in Int /\ projectEnd \in Int
          /\ LateFinish(t) <= projectEnd /\ earlyStart[t] <= lateStart[t]
      BY Reported
    <2>2. TotalFloat(t) \in Nat
      BY <2>1 DEF TotalFloat
    <2>3. ASSUME NEW s \in Succs(dep, t)
          PROVE  /\ Slack(earlyStart, t, s) \in Nat
                 /\ Slack(earlyStart, t, s) = earlyStart[s] - ForwardConstraintStart(t, s)
                 /\ ForwardConstraintStart(t, s) \in Int /\ earlyStart[s] \in Int
      <3>1. s \in Tasks /\ Edge(dep, t, s)
        BY DEF Succs
      <3>2. /\ ForwardConstraintStart(t, s) \in Int
            /\ Slack(earlyStart, t, s) = earlyStart[s] - ForwardConstraintStart(t, s)
        BY <3>1, DependencyDates DEF CpmInv
      <3>3. ForwardConstraintStart(t, s) <= earlyStart[s] /\ earlyStart[s] \in Int
        BY <3>1, Reported
      <3> QED BY <3>2, <3>3
    <2>4. bounds \subseteq Nat /\ bounds # {}
      BY <2>2, <2>3
    <2>5. \E b \in bounds : \A c \in bounds : b <= c
      <3> HIDE DEF bounds
      <3> QED BY <2>4, LeastExists
    <2>6. least \in bounds /\ \A c \in bounds : least <= c
      <3> HIDE DEF bounds
      <3> QED BY <2>5
    <2>7. FreeFloat(t) = IF least < 0 THEN 0 ELSE least
      BY DEF FreeFloat
    <2> HIDE DEF least
    <2>8. least \in Nat /\ FreeFloat(t) = least
      <3>1. least \in Nat
        BY <2>4, <2>6
      <3> QED BY <2>7, <3>1
    <2>9. least <= TotalFloat(t) /\ \A s \in Succs(dep, t) : least <= Slack(earlyStart, t, s)
      BY <2>6
    <2>10. ~(EarlyFinish(t) + least > projectEnd)
      BY <2>1, <2>8, <2>9 DEF EarlyFinish, LateFinish, TotalFloat
    <2>11. \A s \in Succs(dep, t) : ~(ForwardConstraintStart(t, s) + least > earlyStart[s])
      BY <2>3, <2>8, <2>9
    <2>12. ASSUME NEW s \in Succs(dep, t), least = Slack(earlyStart, t, s)
           PROVE  ForwardConstraintStart(t, s) + (least + 1) > earlyStart[s]
      BY <2>3, <2>8, <2>12
    <2>13. CASE least = TotalFloat(t) /\ LateFinish(t) = projectEnd
      <3>1. EarlyFinish(t) + TotalFloat(t) = projectEnd
        BY <2>1, <2>13 DEF EarlyFinish, LateFinish, TotalFloat
      <3>2. EarlyFinish(t) \in Int
        BY <2>1 DEF EarlyFinish
      <3>3. EarlyFinish(t) + (least + 1) > projectEnd
        BY <2>1, <2>2, <2>13, <3>1, <3>2
      <3> QED BY <2>8, <2>10, <2>11, <3>3
    <2>14. CASE least = TotalFloat(t) /\ LateFinish(t) # projectEnd
      <3>1. PICK s \in Succs(dep, t) : LateFinish(t) = BackwardConstraintFinish(t, s)
        BY <2>14, Reported DEF FinishBounds
      <3>2. s \in Tasks /\ Edge(dep, t, s)
        BY DEF Succs
      <3>3. TotalFloat(s) \in Nat /\ TotalFloat(t) = TotalFloat(s) + Slack(earlyStart, t, s)
        BY <3>1, <3>2, Room
      <3>4. least = Slack(earlyStart, t, s)
        BY <2>3, <2>9, <2>14, <3>3
      <3> QED BY <2>8, <2>10, <2>11, <2>12, <3>4
    <2>15. CASE least # TotalFloat(t)
      <3>1. PICK s \in Succs(dep, t) : least = Slack(earlyStart, t, s)
        BY <2>6, <2>15
      <3> QED BY <2>8, <2>10, <2>11, <2>12, <3>1
    <2> QED BY <2>13, <2>14, <2>15
  <1> QED BY <1>1, CpmInvariance, PTL

=============================================================================
